CONSTANTS
  Clusters = {c1, c2}
  NoCluster = NoCluster
  Procs = {p1, p2}
  Concurrency = 1
  MaxFaults = 1
SPECIFICATION FairSpec
INVARIANTS
  TypeOK
  WorkMatchesClusters
  TransactionKeepsLease
  RepairRequestIsSound
  RepairedUnlessOverlapped
PROPERTIES
  DiagnosisIsFinal
  ImplementsLeaseQueue
  FollowsIncident
  StageSettles
