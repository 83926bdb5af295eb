SPECIFICATION Spec
CONSTANTS
  v1 = v1
  v2 = v2
  acme = acme
  globex = globex
  Vendors = {v1, v2}
  Orgs = {acme, globex}
  Cves = {c1}
  Workers = {w1}
  OrgOf <- TwoOrgs
  Cadence <- Daily
  Subscribed <- OnlyV1
  NoOne = NoOne
  MaxRetries = 1
  MaxTime = 2
  MaxQueue = 1
  MaxFaults = 0
  MaxEdits = 1
  MaxClicks = 0
PROPERTIES
  LinkedToRefreshedCache
CHECK_DEADLOCK FALSE
