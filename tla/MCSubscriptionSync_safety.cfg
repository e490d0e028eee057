CONSTANTS
  Skus = {small, large}
  small = small  large = large  h1 = h1  h2 = h2
  Included <- MCIncluded
  Statuses = {"active", "canceled"}
  NoRow = NoRow
  Nobody = Nobody
  Handlers = {h1, h2}
  MaxPeriod = 2
  MaxEvents = 3
  MaxFaults = 1
  InOrder = FALSE
  EarlyRetry = FALSE
  SlowHandlers = FALSE
  PlanChanges = TRUE
SPECIFICATION Spec
SYMMETRY MCSymmetry
INVARIANTS TypeOK OneRowPerItem ProcessedEventsApplied
PROPERTIES UsageResetsOnlyOnRenewal PeriodNeverGoesBack
CHECK_DEADLOCK FALSE
