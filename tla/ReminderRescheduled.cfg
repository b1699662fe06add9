SPECIFICATION MCSpec
CONSTANTS
  b1 = b1
  b2 = b2
  e1 = e1
  k1 = k1
  c1 = c1
  w1 = w1
  w2 = w2
  q1 = q1
  q2 = q2
  v1 = v1
  v2 = v2
  u1 = u1
  u2 = u2
  o1 = o1
  Focus = {"reminders"}
  Batches = {b1, b2}
  Revokers = {o1}
  Lease = 1
  MaxAttempts = 2
  RetryDelays <- MCDelays
  MaxTouches = 2
  Passes = {b1, b2}
  Editors = {e1}
  Packets = {k1}
  Calls = {c1}
  Renderers = {w1, w2}
  Attempts = 2
  Starts = {q1, q2}
  Visitors = {v1, v2}
  Workspaces = {u1, u2}
  Cleanups = {b1}
  Capacity = 1
  DemoLifetime = 1
  Null = Null
  Faults = {}
  MaxClock = 2
  Repaired = 2
CHECK_DEADLOCK FALSE
INVARIANTS
  ClaimsAreDue
