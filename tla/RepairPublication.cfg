CONSTANTS
  Workers = {w1, w2}
  Patches = {p1, p2}
  NoPatch = NoPatch
  MaxFaults = 2
SPECIFICATION FairSpec
INVARIANTS
  TypeOK
  RunFollowsRow
  OnePublisher
  RecordedPullExists
PROPERTIES
  VerdictIsFinal
  RepairSettles
  ImplementsLeaseQueue
  FollowsIncident
