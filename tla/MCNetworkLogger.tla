--------------------------- MODULE MCNetworkLogger ---------------------------
(***************************************************************************)
(* A buffer of three bytes and messages of one to four, so that writes     *)
(* wrap, lap a reader, fill the buffer and are clipped; two tasks that     *)
(* log; and one place for the two streams, so that one of them is not      *)
(* listed and lives on heartbeats.                                         *)
(***************************************************************************)
EXTENDS NetworkLogger
=============================================================================
