CONSTANTS
  t1 = t1  t2 = t2  r1 = r1  r2 = r2  admin = admin
  None = None  Ended = Ended  Reconciler = Reconciler
  Tasks = {t1, t2}
  Position <- MCPosition
  Runners = {r1, r2}
  Requests = {admin}
  Batches <- MCBatches
  Legacy = {t1}
  MaxAsked = 2
  MaxFaults = 0
  MaxLate = 2
SPECIFICATION Spec
INVARIANT BuiltInTurn
PROPERTY StuckOnlyByLateClose
SYMMETRY MCSymmetry
CHECK_DEADLOCK FALSE
