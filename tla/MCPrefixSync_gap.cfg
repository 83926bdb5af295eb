SPECIFICATION Spec
CONSTANTS
  v1 = v1
  v2 = v2
  acme = acme
  globex = globex
  Vendors = {v1}
  Orgs = {acme, globex}
  Cves = {c1}
  Workers = {w1}
  OrgOf <- TwoOrgs
  Cadence <- Daily
  Subscribed <- OnlyV1
  NoOne = NoOne
  MaxRetries = 1
  MaxTime = 2
  MaxQueue = 1
  MaxFaults = 0
  MaxEdits = 0
  MaxClicks = 0
INVARIANTS
  NothingSkipped
CHECK_DEADLOCK FALSE
