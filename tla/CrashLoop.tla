----------------------------- MODULE CrashLoop -----------------------------
(***************************************************************************)
(* src/espbase/boot/check_crash_loop.cpp: what each boot does about the    *)
(* crashes before it.  The counter lives in RTC memory, which keeps its    *)
(* value over a reset and holds anything after a loss of power.            *)
(***************************************************************************)
EXTENDS Naturals

CONSTANTS
  Noise,     \* what the counter may read after a loss of power
  Callback   \* what on_threshold_reached may do: return, restart or panic

Outcome == {"returns", "restarts", "panics"}
ASSUME CrashAssumption == Noise \subseteq Nat /\ Callback \subseteq Outcome /\ Callback # {}

VARIABLES
  rtc,     \* the RTC memory
  reason,  \* esp_reset_reason()
  check    \* where check_crash_loop is

crashVars == <<rtc, reason, check>>

\* The watchdogs' reasons are treated as a panic is.
Reason == {"poweron", "software", "deepsleep", "panic"}

CrashTypeOK ==
  /\ rtc.magic_word \in BOOLEAN
  /\ rtc.consecutive_crashes \in Nat
  /\ reason \in Reason
  /\ check \in {"todo", "counted", "threshold", "callback", "halt", "done"}

NewReason(r) == reason' = r /\ check' = "todo"

CrashBoot(r) == NewReason(r) /\ UNCHANGED rtc

PowerLost == /\ NewReason("poweron")
             /\ \E n \in Noise : rtc' = [magic_word |-> FALSE, consecutive_crashes |-> n]

-----------------------------------------------------------------------------
Crashed == reason = "panic"

\* What the counter holds once unknown memory has been cleared.
Recovered == IF rtc.magic_word THEN rtc.consecutive_crashes ELSE 0

CountReset ==
  /\ check = "todo"
  /\ check' = "counted"
  /\ rtc' = [magic_word |-> TRUE,
             consecutive_crashes |-> IF Crashed THEN Recovered + 1 ELSE 0]
  /\ UNCHANGED reason

\* Faulty variant: from the third crash on.
ShouldEraseFrom3 == rtc.consecutive_crashes >= 3

ShouldErase == rtc.consecutive_crashes = 3

\* The first threshold: nvs_flash_erase, whose result is ignored.
FirstThreshold ==
  /\ check = "counted"
  /\ check' = "threshold"
  /\ UNCHANGED <<rtc, reason>>

\* Faulty variant: exactly at the threshold, as the callback is.
ShouldHaltAt5 == rtc.consecutive_crashes = 5

ShouldHalt == rtc.consecutive_crashes >= 5

\* The second: the callback only at the fifth, since it may itself crash.
SecondThreshold ==
  /\ check = "threshold"
  /\ check' = CASE ~ShouldHalt                      -> "done"
                [] rtc.consecutive_crashes = 5    -> "callback"
                [] OTHER                            -> "halt"
  /\ UNCHANGED <<rtc, reason>>

CallbackReturns ==
  /\ check = "callback"
  /\ "returns" \in Callback
  /\ check' = "halt"
  /\ UNCHANGED <<rtc, reason>>

\* esp_deep_sleep_start, without a wake-up source.
Halted == check = "halt"
=============================================================================
