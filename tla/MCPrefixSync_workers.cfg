SPECIFICATION Spec
CONSTANTS
  v1 = v1
  v2 = v2
  acme = acme
  globex = globex
  Vendors = {v1}
  Orgs = {acme, globex}
  Cves = {c1}
  Workers = {w1, w2}
  OrgOf <- TwoOrgs
  Cadence <- Hourly
  Subscribed <- OnlyV1
  NoOne = NoOne
  MaxRetries = 1
  MaxTime = 2
  MaxQueue = 1
  MaxFaults = 1
  MaxEdits = 0
  MaxClicks = 0
SYMMETRY WorkerSymmetry
INVARIANTS
  MutualExclusion
  OnlyBackfillPullsAll
  
  

  
CHECK_DEADLOCK FALSE
