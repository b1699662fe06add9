SPECIFICATION Spec
CONSTANTS
  r1 = r1
  r2 = r2
  r3 = r3
  w1 = w1
  w2 = w2
  c1 = c1
  c2 = c2
  good = good
  better = better
  wrong = wrong
  infected = infected
  Requests = {r1, r2, r3}
  Workers = {w1, w2}
  Cleaners = {}
  Bytes = {good}
  ValidBytes = {good}
  ThreatBytes = {}
  NoBytes = NoBytes
  Never = Never
  DocumentJob = DocumentJob
  NoWorker = NoWorker
  MaxClock = 0
  Faults = {"lock"}
  Ops = {"create", "complete", "reprocess"}
  AbandonedAge = 2
  RetryDelay = 1
  Repaired = 0
  MaxAttempts = 2
  MaxStalls = 1
SYMMETRY Symmetry
INVARIANTS
  CompletedLeavesNothingProcessing
CHECK_DEADLOCK FALSE
