CONSTANTS
  Runs = {r1}
  DeliveryNames = {d1, d2}
  Handlers = {h1, h2}
  Workers = {w1, w2}
  Logs = {l1}
  MaxFaults = 2
SPECIFICATION FairSpec
INVARIANTS
  TypeOK
  OneIncidentPerRun
  AcceptedIsDurable
  SealIsOneCollect
PROPERTIES
  SealIsFinal
  ImplementsLeaseQueue
  EvidenceSettles
  FollowsIncident
