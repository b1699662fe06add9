---------------------------- MODULE CaseReadiness ----------------------------
(***************************************************************************)
(* What the workspace and the reports say of a case: its completeness, the *)
(* next actions, and the proof map of its claims.  All of it is computed   *)
(* from the records of the case, here whatever they may become, one change *)
(* after the other.                                                        *)
(***************************************************************************)
EXTENDS Integers, FiniteSetsExt

CONSTANTS
  Files,    \* evidence files
  Topics,   \* what the checklist asks for, by the word its label is known by
  Moments,  \* timeline events
  Shown     \* the file that matches and events refer to

ASSUME ReadinessAssumption ==
  /\ Shown \in Files /\ IsFiniteSet(Moments)
  /\ Topics \subseteq {"restriction", "support", "explanation", "activity", "ownership", "date"}

VARIABLES
  file,     \* file[f]: "NONE", or the status of the document
  mark,     \* mark[t]: ChecklistItem.status
  matched,  \* topics Shown is matched to
  moment,   \* moment[m]: no event, an event, one with Shown as its source
  told,     \* topics the guidance speaks of; "statement" if one is saved
  untracked \* Case.status is PACKET_GENERATED or SUBMITTED, with no round recorded

readinessVars == <<file, mark, matched, moment, told, untracked>>

(* PENDING: a document at any point before it was processed or failed.     *)
FileStatuses == {"NONE", "PENDING", "PROCESSED", "FAILED"}
Marks == {"MISSING", "NEEDS_REVIEW", "FOUND", "COMPLETE", "OPTIONAL"}

ReadinessTypeOK ==
  /\ file \in [Files -> FileStatuses]
  /\ mark \in [Topics -> Marks] /\ matched \subseteq Topics
  /\ moment \in [Moments -> {"none", "plain", "sourced"}] /\ told \subseteq Topics \cup {"statement"}
  /\ untracked \in BOOLEAN

ReadinessInit ==
  /\ file = [f \in Files |-> "NONE"]
  /\ mark = [t \in Topics |-> "MISSING"] /\ matched = {}
  /\ moment = [m \in Moments |-> "none"] /\ told = {} /\ untracked = FALSE

-----------------------------------------------------------------------------
(* calculateCaseCompleteness.  Title, platform and workflow are required of *)
(* every case: their ten points are always there.                          *)

Round(n, d) == (2 * n + d) \div (2 * d)  \* Math.round(n / d)

With(status) == {f \in Files : file[f] = status}
Required == {t \in Topics : mark[t] # "OPTIONAL"}
Covered == {t \in Topics : mark[t] \in {"FOUND", "COMPLETE"}}
EventCount == Cardinality({m \in Moments : moment[m] # "none"})
Sourced == {m \in Moments : moment[m] = "sourced"}

HasStatement == "statement" \in told

EvidencePoints ==
  IF With("PROCESSED") # {} THEN 20 ELSE IF \A f \in Files : file[f] = "NONE" THEN 0 ELSE 8

RequirementPoints ==
  IF Required = {} THEN 0 ELSE Round(30 * Cardinality(Covered), Cardinality(Required))

TimelinePoints == (CASE EventCount = 0 -> 0 [] EventCount = 1 -> 8 [] OTHER -> 15)
                    + (IF Sourced # {} THEN 5 ELSE 0)

RawScore ==
  10 + EvidencePoints + RequirementPoints + TimelinePoints
    + (IF HasStatement THEN 20 ELSE 0)

(* Mutation: a requirement that is missing caps a point too late.          *)
CapsTooLate ==
  {100} \cup (IF With("PROCESSED") = {} THEN {39} ELSE {})
        \cup (IF With("FAILED") # {} THEN {69} ELSE {})
        \cup (IF Required \subseteq Covered THEN {} ELSE {80})
        \cup (IF HasStatement THEN {} ELSE {74})

Caps ==
  {100} \cup (IF With("PROCESSED") = {} THEN {39} ELSE {})
        \cup (IF With("FAILED") # {} THEN {69} ELSE {})
        \cup (IF Required \subseteq Covered THEN {} ELSE {79})
        \cup (IF HasStatement THEN {} ELSE {74})

Score == Min(Caps \cup {RawScore})

(* getCaseNextActions: the actions that warn, and the packet that is ready.  *)
(* "checklist" is also the action for the proof map, which warns with it.   *)
Warnings ==
  (IF With("FAILED") # {} THEN {"failed"} ELSE {})
    \cup (IF Required \subseteq Covered THEN {} ELSE {"checklist"})
    \cup (IF \A f \in Files : file[f] = "NONE" THEN {"evidence"} ELSE {})
    \cup (IF EventCount = 0 THEN {"timeline"} ELSE {})
    \cup (IF HasStatement THEN {} ELSE {"statement"})
    \cup (IF untracked THEN {"submission"} ELSE {})

PacketIsReady == Score >= 80

-----------------------------------------------------------------------------
(* buildProofMapResponse: a claim for every item of the checklist.         *)

(* Events count for a claim about dates, and where they share its evidence; *)
(* the statement itself argues the explanation.                            *)
SourceKinds(t) ==
  (IF t \in matched THEN {"EVIDENCE"} ELSE {})
    \cup (IF Sourced # {} /\ (t = "date" \/ t \in matched) THEN {"TIMELINE"} ELSE {})
    \cup (IF t \in told \/ (t = "explanation" /\ HasStatement) THEN {"STATEMENT"} ELSE {})

ClaimStatus(t) ==
  IF mark[t] \in {"FOUND", "COMPLETE"}
  THEN IF SourceKinds(t) # {} THEN "SUPPORTED" ELSE "WEAK"
  ELSE IF mark[t] = "NEEDS_REVIEW" THEN "NEEDS_REVIEW"
  ELSE IF SourceKinds(t) # {} THEN "WEAK" ELSE "MISSING"

(* Mutation: what nobody confirmed counts as much as what was.             *)
StrengthUnconfirmed(t) ==
  LET kinds == Cardinality(SourceKinds(t))
  IN CASE ClaimStatus(t) = "SUPPORTED" -> Min({96, 26 + 10 * kinds})
       [] ClaimStatus(t) = "NEEDS_REVIEW" -> Min({62, 38 + 8 * kinds})
       [] ClaimStatus(t) = "WEAK" -> Min({58, 26 + 10 * kinds})
       [] OTHER -> 10

(* calculateClaimStrength.                                                 *)
Strength(t) ==
  LET kinds == Cardinality(SourceKinds(t))
  IN CASE ClaimStatus(t) = "SUPPORTED" -> Min({96, 70 + 9 * kinds})
       [] ClaimStatus(t) = "NEEDS_REVIEW" -> Min({62, 38 + 8 * kinds})
       [] ClaimStatus(t) = "WEAK" -> Min({58, 26 + 10 * kinds})
       [] OTHER -> 10

Coverage == IF Topics = {} THEN 0 ELSE Round(MapThenSumSet(Strength, Topics), Cardinality(Topics))

(* buildGaps, without the limit to two.                                    *)
Gaps(t) ==
  LET kinds == SourceKinds(t)
  IN IF ClaimStatus(t) = "SUPPORTED" /\ Cardinality(kinds) >= 2 THEN {}
     ELSE (IF "EVIDENCE" \in kinds THEN {} ELSE {"attach"})
            \cup (IF t = "date" /\ "TIMELINE" \notin kinds THEN {"link"} ELSE {})
            \cup (IF t = "explanation" /\ "STATEMENT" \notin kinds THEN {"state"} ELSE {})
            \cup (IF ClaimStatus(t) = "NEEDS_REVIEW" THEN {"verify"}
                  ELSE IF Cardinality(kinds) = 1 THEN {"connect"} ELSE {})

-----------------------------------------------------------------------------
(* The records change, by whatever request; Shown is matched and named as a *)
(* source only while it is there.                                          *)

FileChanges(f) ==
  /\ \E status \in FileStatuses \ {file[f]} :
       /\ file' = [file EXCEPT ![f] = status]
       /\ IF f = Shown /\ status = "NONE"
          THEN /\ matched' = {}
               /\ moment' = [m \in Moments |-> IF moment[m] = "sourced" THEN "plain" ELSE moment[m]]
          ELSE UNCHANGED <<matched, moment>>
  /\ UNCHANGED <<mark, told, untracked>>

ItemChanges(t) ==
  /\ \E status \in Marks \ {mark[t]} : mark' = [mark EXCEPT ![t] = status]
  /\ UNCHANGED <<file, matched, moment, told, untracked>>

MatchChanges(t) ==
  /\ file[Shown] # "NONE"
  /\ matched' = IF t \in matched THEN matched \ {t} ELSE matched \cup {t}
  /\ UNCHANGED <<file, mark, moment, told, untracked>>

EventChanges(m) ==
  /\ \E kind \in {"none", "plain", "sourced"} \ {moment[m]} :
       /\ kind = "sourced" => file[Shown] # "NONE"
       /\ moment' = [moment EXCEPT ![m] = kind]
  /\ UNCHANGED <<file, mark, matched, told, untracked>>

StatementChanges(t) ==  \* also t = "statement"
  /\ told' = IF t \in told THEN told \ {t} ELSE told \cup {t}
  /\ UNCHANGED <<file, mark, matched, moment, untracked>>

(* A packet is generated, a round recorded, or the case resolved.           *)
SubmissionChanges ==
  /\ untracked' = ~untracked
  /\ UNCHANGED <<file, mark, matched, moment, told>>

ReadinessNext ==
  \/ \E f \in Files : FileChanges(f)
  \/ \E t \in Topics : ItemChanges(t) \/ MatchChanges(t)
  \/ \E t \in Topics \cup {"statement"} : StatementChanges(t)
  \/ \E m \in Moments : EventChanges(m)
  \/ SubmissionChanges

ReadinessSpec == ReadinessInit /\ [][ReadinessNext]_readinessVars

-----------------------------------------------------------------------------
(* Properties.                                                             *)

(* A packet that is offered as ready leaves nothing to review: no warning   *)
(* but a timeline that was never started and, once it was generated, a      *)
(* submission that nobody tracks.  And what a cap withheld is back once its *)
(* reason is gone: whoever heeds the warnings of a case that requires       *)
(* anything gets there (capReasonMessages, getCaseNextActions).             *)
ReadyMeansReviewed ==
  /\ PacketIsReady => Warnings \subseteq {"timeline", "submission"} /\ With("PROCESSED") # {}
  /\ Warnings \subseteq {"submission"} /\ With("PROCESSED") # {} /\ Required # {}
       => PacketIsReady

(* The proof map ranks every confirmed claim that has a source above every  *)
(* one that lacks either, and tells what a claim lacks that has fewer than  *)
(* two kinds of sources (calculateClaimStrength, buildGaps).                *)
SupportedClaimsLead ==
  \A t \in Topics :
    /\ ClaimStatus(t) = "SUPPORTED" =>
         \A u \in Topics : ClaimStatus(u) # "SUPPORTED" => Strength(u) < Strength(t)
    /\ Cardinality(SourceKinds(t)) < 2 => Gaps(t) # {}

(* What the case has to show never contradicts what it has.                 *)
ReadinessInv == ReadinessTypeOK /\ ReadyMeansReviewed /\ SupportedClaimsLead

Advances(t) ==
  \/ mark'[t] = mark[t]
  \/ mark[t] = "MISSING"
  \/ mark[t] = "OPTIONAL" /\ mark'[t] \in {"FOUND", "COMPLETE"}
  \/ mark[t] # "OPTIONAL" /\ mark'[t] \in {"FOUND", "COMPLETE"} /\ SourceKinds(t) # {}

(* The case has everything it had and more, nothing was marked down, and    *)
(* nothing was confirmed that has no source.                                *)
Gained ==
  /\ readinessVars' # readinessVars
  /\ \A f \in Files :
       <<file[f], file'[f]>> \in {<<"NONE", "PENDING">>, <<"PENDING", "PROCESSED">>,
                                  <<"FAILED", "PENDING">>, <<"FAILED", "PROCESSED">>}
         \/ file'[f] = file[f]
  /\ \A t \in Topics : Advances(t)
  /\ matched \subseteq matched' /\ told \subseteq told'
  /\ \A m \in Moments : moment[m] = "sourced" => moment'[m] = "sourced"
  /\ \A m \in Moments : moment'[m] = "none" => moment[m] = "none"

(* Work on a case never sets it back: evidence, matches, events, words and  *)
(* confirmations that are added lower neither the completeness of the case  *)
(* nor the coverage of its claims.                                          *)
ReadinessNeverDrops ==
  [][Gained => Score' >= Score /\ Coverage' >= Coverage]_readinessVars
=============================================================================
