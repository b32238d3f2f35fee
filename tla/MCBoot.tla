------------------------------- MODULE MCBoot -------------------------------
(***************************************************************************)
(* Applications that use the utilities in the combinations that interact:  *)
(* updates and crashes over a store, and each of the others.  Six crashes  *)
(* pass both thresholds and let the callback of the fifth crash.           *)
(***************************************************************************)
EXTENDS Boot

Applications == {{"ota", "crash"}, {"crash", "nvs", "ota"}, {"crash", "pm"}, {"registry", "crash"}}
AppKeys == <<"name", "limit">>
Outcomes == {"returns", "restarts"}
=============================================================================
