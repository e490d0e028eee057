CONSTANTS
  a1 = a1  a2 = a2  w1 = w1  w2 = w2
  Free = Free
  Automations = {a1, a2}
  MaxCommands <- MCMaxCommands
  Inline = {a2}
  Workers = {w1, w2}
  MaxJobs = 2
  MaxFaults = 1
SPECIFICATION FairSpec
INVARIANTS OneWorkerPerGeneration OneBuilder
PROPERTIES SupersededAreFenced ImplementsLane RunsEnd
CHECK_DEADLOCK FALSE
