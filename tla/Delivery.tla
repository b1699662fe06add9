------------------------------- MODULE Delivery --------------------------------
(***************************************************************************)
(* What an email outbox promises of one message, without its batches: the  *)
(* message waits, is attempted, and is settled by the attempt that is the  *)
(* last one made.  EmailOutbox implements it.                              *)
(***************************************************************************)
EXTENDS Integers

CONSTANTS
  Never,        \* no attempt was made yet
  Patience,     \* how long an attempt is left alone before the next may begin
  MaxAttempts   \* a failure from this attempt on is final

VARIABLES
  state,     \* of the message
  since,     \* when its latest attempt began
  attempts,  \* how many were made
  taken      \* external: the provider took the message

deliveryVars == <<state, since, attempts, taken>>

States == {"none", "waiting", "underWay", "sent", "suppressed", "givenUp", "gone"}

Init == state = "none" /\ since = Never /\ attempts = 0 /\ taken = FALSE

Announce ==
  /\ state = "none" /\ state' = "waiting"
  /\ UNCHANGED <<since, attempts, taken>>

(* Attempts begin in order; one under way is overtaken only when it has    *)
(* been left alone for long enough.                                        *)
Attempt ==
  /\ state \in {"waiting", "underWay"}
  /\ state' = "underWay" /\ attempts' = attempts + 1
  /\ since' \in Nat
  /\ since # Never => since' > since
  /\ state = "underWay" => since' >= since + Patience
  /\ UNCHANGED taken

(* An attempt that was overtaken may still reach the provider.             *)
Take ==
  /\ attempts > 0 /\ taken' = TRUE
  /\ UNCHANGED <<state, since, attempts>>

Settle ==
  /\ state = "underWay"
  /\ \/ taken /\ state' = "sent"
     \/ state' = "suppressed"
     \/ state' = IF attempts < MaxAttempts THEN "waiting" ELSE "givenUp"
  /\ UNCHANGED <<since, attempts, taken>>

Vanish ==
  /\ state \notin {"none", "gone"} /\ state' = "gone"
  /\ UNCHANGED <<since, attempts, taken>>

Next == Announce \/ Attempt \/ Take \/ Settle \/ Vanish

Spec == Init /\ [][Next]_deliveryVars
=============================================================================
