CONSTANTS
  Skus = {small, large}
  small = small  large = large  h1 = h1  h2 = h2
  Included <- MCIncluded
  Statuses = {"active", "past_due", "canceled"}
  NoRow = NoRow
  Nobody = Nobody
  Handlers = {h1, h2}
  MaxPeriod = 2
  MaxEvents = 3
  MaxFaults = 1
  InOrder = TRUE
  EarlyRetry = FALSE
  SlowHandlers = FALSE
  PlanChanges = FALSE
SPECIFICATION FairSpec
INVARIANTS ClaimIsExclusive
PROPERTIES EveryEventProcessed EventuallyInSync
CHECK_DEADLOCK FALSE
