SPECIFICATION MCSpec
CONSTANTS
  acme = acme
  acmeCaps = acmeCaps
  zed = zed
  yak = yak
  log4j = log4j
  log4jTyped = log4jTyped
  Names = {acme, acmeCaps, zed, yak}
  Cpes = {log4j, log4jTyped}
  Fold <- MCFold
  Product <- MCProduct
  Label <- MCLabel
  Documents <- MCDocuments
  Typed = {log4jTyped}
  Called = {acme, yak}
  NoCpe = NoCpe
  Products = {log4j}
  MaxVendors = 1
  MaxImport = 2
  Editors = {p1, p2}
  MaxRows = 4
  Admins = {p1, p2}
  Keys = {k1, k2}
  NoKey = NoKey
  Absent = Absent
  Hours = {6, 48}
  MinHours = 24
  Vendors = {v1}
  Cves = {c1, c2, c3, c4}
  Scores = {70, 90}
  Unscored = Unscored
  Contracts = {0, 25000, 500000}
  Sensitivities = {"", "confidential", "regulated"}
  Criticalities = {"", "high"}
  Syncs = {p1, p2}
  r1 = r1
  Assessments <- MCAssessments
  First <- MCFirst
  Rules = {r1, r2}
  Types = {"tier_change", "new_kev", "renewal_due"}
  Windows = {1}
  Renewal = 1
  MaxDay = 1
  MaxSnapshots = 3
  MaxEdits = 1
  MaxFaults = 1
  g1 = g1
  g2 = g2
  ann = ann
  bob = bob
  Subjects = {g1, g2}
  AtFirst <- MCAtFirst
  NoAccount = NoAccount
  Emails = {ann, bob}
  Browsers = {p1, p2}
  Asked = Asked
  Cancelled = Cancelled
  MaxFlows = 2
  MaxUsers = 2
  MaxChanges = 1
  Requests = {p1, p2}
  NoPhoto = NoPhoto
  MaxKeys = 3
  Companies = {p1, p2}
  Facts <- MCFacts
  Exposures = {"E1", "E3"}
  TrendDays = 1
  LastDay = 3
  MaxTaken = 2
  MaxUntaken = 1
  Callbacks = {p1, p2}
  Kids = {k1, k2}
  FirstKid = k1
  NoKid = NoKid
  Nobody = Nobody
  CacheTicks = 1
  SlowTicks = 1
  LastTick = 3
  Logins = {p1, p2}
  LOGIN_HISTORY_KEEP = 2
  MaxLogins = 4
  LastMoment = 2
SYMMETRY Symmetry
INVARIANTS
  
  
  KeyConfirmed
  AlertsMatchHistory
  StickyIdentity
  VouchedFor
  ProfileKept
  
  KeysFollowGoogle
PROPERTIES
  RiskNeverFalls
CHECK_DEADLOCK FALSE
