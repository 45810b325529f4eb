CONSTANTS
  Runs = {r1}
  DeliveryNames = {d1}
  Handlers = {h1}
  Workers = {w1}
  Logs = {l1}
  MaxFaults = 1
SPECIFICATION Spec
INVARIANT SealedIsAllEvidence
