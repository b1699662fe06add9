SPECIFICATION FairSpec
CONSTANTS
  r1 = r1
  r2 = r2
  r3 = r3
  w1 = w1
  w2 = w2
  c1 = c1
  c2 = c2
  good = good
  better = better
  wrong = wrong
  infected = infected
  Requests = {r1, r2}
  Workers = {w1}
  Cleaners = {c1}
  Bytes = {good}
  ValidBytes = {good}
  ThreatBytes = {}
  NoBytes = NoBytes
  Never = Never
  DocumentJob = DocumentJob
  NoWorker = NoWorker
  MaxClock = 3
  Faults = {"storage", "crash", "database"}
  Ops = {"create", "complete"}
  AbandonedAge = 1
  RetryDelay = 1
  Repaired = 2
  MaxAttempts = 2
  MaxStalls = 1
PROPERTIES
  JobsSettle
  AbandonedAreReclaimed
CHECK_DEADLOCK FALSE
