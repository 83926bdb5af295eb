SPECIFICATION FairSpec
CONSTANTS
  acme = acme
  Jobs = {j1}
  Orgs = {acme}
  Clients = {c1}
  Workers = {w1}
  Purgers = {p1}
  OrgOf <- AllAcme
  Cap = 1
  Timely = FALSE
  NoJob = NoJob
  Doomed = {}
  MaxFaults = 1
PROPERTIES
  EveryFileIsDeleted
