SPECIFICATION MCSpec
CONSTANTS
  caseA = caseA
  caseB = caseB
  browser = browser
  colleague = colleague
  w1 = w1
  w2 = w2
  m1 = m1
  m2 = m2
  Focus = {"builder", "readiness"}
  Cases = {caseA, caseB}
  Texts <- MCTexts
  Writers = {browser, colleague}
  Editor = browser
  MaxVersions = 3
  MaxSummaries = 1
  Files = {"page", "photo"}
  Topics = {"explanation", "date"}
  Moments = {m1, m2}
  Shown = "page"
  Null = Null
  Faults = {"network"}
  MaxClock = 0
  Repaired = 1
SYMMETRY Symmetry
CHECK_DEADLOCK FALSE
INVARIANTS
  StatementsInv
  BuilderInv
  ReadinessInv
PROPERTIES
  ReadinessNeverDrops
