------------------------------ MODULE MCBuilder -------------------------------
(* Instances for TLC of the statement builder and of what is computed from *)
(* the records of a case.  They share nothing: one of them runs, the other *)
(* rests.                                                                  *)
EXTENDS StatementBuilder, CaseReadiness, TLC

CONSTANTS Focus, caseA, caseB, browser, colleague, w1, w2, m1, m2

VARIABLE part  \* the component that runs

(* The words of a statement do not matter, only whether they are the same, *)
(* and events of a timeline count alike.                                   *)
Symmetry == Permutations({w1, w2}) \cup Permutations(Moments)

MCTexts == [case : {caseB}, words : {w1, w2}]

MCInit == part \in Focus /\ BuilderInit /\ ReadinessInit /\ (part # "builder" => shown = caseA)

MCNext ==
  /\ UNCHANGED part
  /\ \/ part = "builder" /\ BuilderNext /\ UNCHANGED readinessVars
     \/ part = "readiness" /\ ReadinessNext /\ UNCHANGED builderVars

MCSpec == MCInit /\ [][MCNext]_<<part, builderVars, readinessVars>>
=============================================================================
