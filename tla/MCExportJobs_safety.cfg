SPECIFICATION Spec
CONSTANTS
  acme = acme
  Jobs = {j1, j2}
  Orgs = {acme}
  Clients = {c1}
  Workers = {w1, w2}
  Purgers = {p1, p2}
  OrgOf <- AllAcme
  Cap = 2
  Timely = FALSE
  NoJob = NoJob
  Doomed = {acme}
  MaxFaults = 2
SYMMETRY Symmetry
INVARIANTS
  TypeOK
  RenderedOnce
  ReadyHasFile
  ExpiredIsGone
PROPERTIES
  LifecycleRefined
