SPECIFICATION Spec
CONSTANTS
  r1 = r1
  r2 = r2
  r3 = r3
  w1 = w1
  w2 = w2
  c1 = c1
  c2 = c2
  good = good
  better = better
  wrong = wrong
  infected = infected
  Requests = {r1, r2, r3}
  Workers = {w1}
  Cleaners = {}
  Bytes = {good, wrong, infected}
  ValidBytes = {good, infected}
  ThreatBytes = {infected}
  NoBytes = NoBytes
  Never = Never
  DocumentJob = DocumentJob
  NoWorker = NoWorker
  MaxClock = 0
  Faults = {"scanner", "queue", "database", "crash"}
  Ops = {"create", "import", "complete", "reprocess"}
  AbandonedAge = 2
  RetryDelay = 1
  Repaired = 0
  MaxAttempts = 1
  MaxStalls = 0
SYMMETRY Symmetry
CHECK_DEADLOCK FALSE
INVARIANTS
  TypeOK
  CompletionIsExclusive
  VerifiedBytesAreSafe
  OnlySecuredIsQueued
  ExtractsScannedBytes
