CONSTANTS
  r1 = r1  r2 = r2  r3 = r3  b = b  g = g
  NoBucket = NoBucket
  Buckets = {b}
  GrantKeys = {g}
  GrantBucket <- MCGrantBucket
  GrantQuantity <- MCGrantQuantity
  Requests = {r1, r2, r3}
  MaxFaults = 3
SPECIFICATION FairSpec
INVARIANTS RunsWithinCredits MarkerMeansReturned AuditedAtMostOnce
PROPERTIES RecordedFailuresRefunded
CHECK_DEADLOCK FALSE
