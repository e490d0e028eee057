CONSTANTS
  people = people  tasks = tasks  extra = extra
  m1 = m1  h1 = h1  h2 = h2
  None = None
  Template <- MCTemplate
  Spare = {extra}
  Automatic = {people, tasks}
  Reconciled = {people, tasks}
  NoGrace = {people}
  Scoped = {tasks}
  Locking = {people}
  Admins = {m1}
  Hooks = {h1, h2}
  MaxPasses = 3
  MaxEdits = 3
SPECIFICATION Spec
SYMMETRY MCSymmetry
INVARIANTS TypeOK CompletedIsDone
PROPERTIES StartsInOrder SettlesAlone
CHECK_DEADLOCK FALSE
