CONSTANTS
  t1 = t1  t2 = t2  r1 = r1  r2 = r2  admin = admin
  None = None  Ended = Ended  Reconciler = Reconciler
  Tasks = {t1, t2}
  Position <- MCPosition
  Runners = {r1, r2}
  Requests = {admin}
  Batches <- MCBatches
  Legacy = {}
  MaxAsked = 1
  MaxFaults = 1
  MaxLate = 1
SPECIFICATION FairSpec
PROPERTY QueueDrains
CHECK_DEADLOCK FALSE
