SPECIFICATION MCSpec
CONSTANTS
  f1 = f1
  d1 = d1
  d2 = d2
  ann = ann
  bob = bob
  caseA = caseA
  caseB = caseB
  s1 = s1
  s2 = s2
  l1 = l1
  l2 = l2
  front = front
  back = back
  k1 = k1
  k2 = k2
  k3 = k3
  Focus = {"panel", "tab", "packets", "camera"}
  Appeals = {caseA, caseB}
  Looks = {l1, l2}
  MaxPackets = 1
  MaxTurns = 1
  MaxLosses = 1
  Cameras = {front, back}
  Calls = {k1, k2, k3}
  NoCall = Null
  NoMedia = TRUE
  Files = {f1}
  Docs = {d1, d2}
  People = {ann, bob}
  Records = {caseA, caseB}
  Access <- MCAccess
  Slots = {s1, s2}
  MaxGestures = 4
  Null = Null
  Faults = {"network", "poll", "discard"}
  MaxClock = 0
  Repaired = 1
CHECK_DEADLOCK FALSE
INVARIANTS
  ClientInv
PROPERTIES
  WaitsEnd
  SelectionFollowsPath
