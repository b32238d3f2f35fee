--------------------------- MODULE MCMainLoopTask ---------------------------
(***************************************************************************)
(* An owner that starts and resets the task, another thread that notifies  *)
(* and stops it, and the loop's own thread doing the same from inside      *)
(* on_step and on_stop.                                                    *)
(***************************************************************************)
EXTENDS MainLoopTask
=============================================================================
