------------------------------ MODULE MCEvidence ------------------------------
(* Instances of EvidencePipeline for TLC.                                  *)
EXTENDS EvidencePipeline, TLC

CONSTANTS r1, r2, r3, w1, w2, c1, c2, good, better, wrong, infected

Symmetry == Permutations(Requests) \cup Permutations(Workers) \cup Permutations(Cleaners)
=============================================================================
