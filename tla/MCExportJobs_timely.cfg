SPECIFICATION FairSpec
CONSTANTS
  acme = acme
  Jobs = {j1, j2, j3}
  Orgs = {acme}
  Clients = {c1, c2}
  Workers = {w1}
  Purgers = {p1}
  OrgOf <- AllAcme
  Cap = 1
  Timely = TRUE
  NoJob = NoJob
  Doomed = {}
  MaxFaults = 2
INVARIANTS
  SoftCap
PROPERTIES
  FailedIsFinal
  EveryJobSettles
  RetentionIsKept
