CONSTANTS
  ann = ann  bob = bob  r1 = r1  r2 = r2
  Users = {ann, bob}
  Callers = {r1, r2}
  Asks <- MCAsks
  MaxSessions = 1
SPECIFICATION FairSpec
INVARIANTS LeaseIsUnderWay
PROPERTIES ExpiredLeaseIsFreed PollingEnds AbandonedVmStops
