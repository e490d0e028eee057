CONSTANTS
  small = small  large = large  b = b  g = g  s1 = s1  s2 = s2  p1 = p1  p2 = p2
  None = None
  Skus = {small, large}
  Included <- MCIncluded
  MaxPeriod = 2
  MaxChanges = 1
  Buckets = {b}
  Sources = {s1, s2}
  GrantKeys = {g}
  GrantBucket <- MCGrantBucket
  GrantQuantity <- MCGrantQuantity
  Procs = {p1, p2}
SPECIFICATION Spec
SYMMETRY MCSymmetry
INVARIANTS AllowanceRespected ConsumedIsCharged RefundedWasCharged
CHECK_DEADLOCK FALSE
