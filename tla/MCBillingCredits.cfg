CONSTANTS
  b1 = b1  b2 = b2  g1 = g1  g2 = g2  s1 = s1  s2 = s2  p1 = p1  p2 = p2  p3 = p3
  None = None
  Buckets = {b1, b2}
  Sources = {s1, s2}
  GrantKeys = {g1, g2}
  GrantBucket <- MCGrantBucket
  GrantQuantity <- MCGrantQuantity
  Migrated = {b1}
  Opening <- MCOpening
  Procs = {p1, p2}
SPECIFICATION FairSpec
INVARIANTS TypeOK NeverOverdrawn LedgerBalances RepliesAreBacked
PROPERTIES ImplementsLedger RequestsEnd
CHECK_DEADLOCK FALSE
