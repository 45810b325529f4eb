CONSTANTS
  Clusters = {c1, c2}
  NoCluster = NoCluster
  Procs = {p1}
  Concurrency = 1
  MaxFaults = 0
SPECIFICATION Spec
INVARIANT StageHandsOver
