----------------------------- MODULE Environment ------------------------------
(***************************************************************************)
(* What the protocols of the API and the worker share: SQL NULL, a clock   *)
(* of abstract ticks, and the failures of what they call.                  *)
(***************************************************************************)
EXTENDS Integers

CONSTANTS
  Null,      \* SQL NULL
  Faults,    \* what may fail: a subset of {"database", "mail", "crash", ...}
  MaxClock,  \* bound: ticks
  Repaired   \* bound: nothing fails from this tick on

ASSUME EnvironmentAssumption == Null \notin Int /\ MaxClock \in Nat /\ Repaired \in Nat

VARIABLE clock

Stamp == Nat \cup {Null}

Faulty(kind) == kind \in Faults /\ clock < Repaired

ClockTick == clock < MaxClock /\ clock' = clock + 1

(* A date that is set and has come.                                        *)
Passed(stamp) == stamp # Null /\ stamp <= clock
=============================================================================
