SPECIFICATION MCSpec
CONSTANTS
  q1 = q1
  q2 = q2
  m1 = m1
  m2 = m2
  c1 = c1
  c2 = c2
  p1 = p1
  p2 = p2
  r1 = r1
  Focus = {"visits", "account", "team", "emails"}
  Visitors = {q1, q2}
  Recipients = {m1, m2}
  Codes = {c1, c2}
  AccessLifetime = 1
  CodeLifetime = 1
  Cooldown = 1
  MaxGuesses = 1
  Requests = {q1, q2}
  Sessions = {m1, m2}
  Links = {c1, c2}
  Passwords = {p1, p2}
  SessionLifetime = 1
  LinkLifetime = 1
  LinkCooldown = 0
  MaxEpoch = 2
  People = {m1, m2}
  Dialogs = {q1, q2}
  Seats = 1
  InvitationExpiry = 1
  MaxTokens = 2
  Batches = {q1, q2}
  Readers = {r1}
  Lease = 1
  MaxAttempts = 2
  RetryDelays <- MCDelays
  MaxTouches = 20
  Null = Null
  Faults = {"database", "mail", "provider", "crash"}
  MaxClock = 1
  Repaired = 1
CHECK_DEADLOCK FALSE
SYMMETRY Symmetry
INVARIANTS
  AccessInv
  AccountInv
  TeamInv
PROPERTIES
  DeadCodeStaysDead
  ClosedShareStaysClosed
  DeadTokenDecidesNothing
  OptOutIsHonoured
