CONSTANTS
  Clusters = {c1, c2}
  NoCluster = NoCluster
  Procs = {p1}
  Concurrency = 2
  MaxFaults = 0
SPECIFICATION Spec
INVARIANT ActionableIsRepaired
