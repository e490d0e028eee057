CONSTANTS
  m1 = m1  m2 = m2  p1 = p1  p2 = p2  h1 = h1  h2 = h2  b = b  g = g
  None = None
  Buckets = {b}
  GrantKeys = {g}
  GrantBucket <- MCGrantBucket
  GrantQuantity <- MCGrantQuantity
  Members = {m1, m2}
  Procs = {p1, p2}
  Handlers = {h1}
  MaxFaults = 1
  EarlyWebhooks = FALSE
  InOrder = TRUE
SPECIFICATION FairSpec
INVARIANTS OnePaidCheckPerMember ErrorsGiveBack
PROPERTIES EventuallyReconciled
CHECK_DEADLOCK FALSE
