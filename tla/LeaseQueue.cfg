CONSTANTS
  Items = {i1, i2}
  Workers = {w1, w2, w3}
  Outcomes = {"evidence.ingested", "escalated"}
  MaxClaims = 3
SPECIFICATION Spec
INVARIANTS
  TypeOK
  TokensAreFresh
  SoleHolder
  OutcomeIffDone
PROPERTIES
  LatestClaimSettles
  ImplementsWorkOnce
