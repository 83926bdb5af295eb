SPECIFICATION FairSpec
CONSTANTS
  v1 = v1
  v2 = v2
  acme = acme
  globex = globex
  Vendors = {v1, v2}
  Orgs = {acme, globex}
  Cves = {c1}
  Workers = {w1}
  OrgOf <- OneOrg
  Cadence <- Daily
  Subscribed <- OnlyV1
  NoOne = NoOne
  MaxRetries = 0
  MaxTime = 1
  MaxQueue = 1
  MaxFaults = 1
  MaxEdits = 1
  MaxClicks = 1
ACTION_CONSTRAINTS
  Apart
INVARIANTS
  TypeOK
  
PROPERTIES
  NeverDowngraded
  NewVendorIsScheduled
CHECK_DEADLOCK FALSE
