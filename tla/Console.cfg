CONSTANTS
  Clusters = {c1, c2}
  Loads = {l1, l2}
  EventLimit = 6
  MaxAttempts = 2
  MaxEvents = 8
  MaxCommits = 1
SYMMETRY Symmetry
SPECIFICATION FairSpec
INVARIANTS
  TypeOK
  StagesHandOver
  PullIsBacked
  ViewIsCausal
PROPERTIES
  DisplayAdvances
  DisplayConverges
