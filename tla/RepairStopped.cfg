CONSTANTS
  Workers = {w1}
  Patches = {p1}
  NoPatch = NoPatch
  MaxFaults = 0
SPECIFICATION Spec
INVARIANT StoppedHasNoPull
