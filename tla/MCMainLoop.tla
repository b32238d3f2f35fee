---------------------------- MODULE MCMainLoop ----------------------------
(***************************************************************************)
(* Three submissions by the loop's own thread and two other tasks, a queue *)
(* of one command and a pool of two slots: enough for a full queue at      *)
(* expiry, a full pool, a slot reused while another is pending, and a      *)
(* command that posts from inside the loop.                                *)
(***************************************************************************)
EXTENDS MainLoop
=============================================================================
