------------------------------ MODULE MCEspTask ------------------------------
(***************************************************************************)
(* An owner that starts and resets the task, and a user that starts it     *)
(* again (to notify it), notifies it and asks it to stop.                  *)
(***************************************************************************)
EXTENDS EspTask
=============================================================================
