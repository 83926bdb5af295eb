-------------------------------- MODULE Tenant --------------------------------
(* The rows of a tenant: its vendor list, its settings, the risk of a vendor, *)
(* the alerts and the reports about them, the accounts and photos of its      *)
(* people and the keys that their sign-ins are checked with.  Each part is a  *)
(* module with variables of its own; here they run side by side.              *)
EXTENDS Naturals, Sequences

CONSTANTS
  Names, Fold, Cpes, Typed, Called, NoCpe, Products, Product, Label,
  MaxVendors, MaxImport, Editors, Documents, MaxRows,
  Admins, Keys, NoKey, Absent, Hours, MinHours,
  Vendors, Cves, Scores, Unscored, Contracts, Sensitivities, Criticalities,
  Syncs, Assessments, Rules, First, Types, Windows, Renewal, MaxDay, MaxSnapshots, MaxEdits, MaxFaults,
  Subjects, NoAccount, Emails, Browsers, Asked, Cancelled, AtFirst, MaxFlows, MaxUsers, MaxChanges,
  Requests, NoPhoto, MaxKeys,
  Companies, Exposures, Facts, TrendDays, LastDay, MaxTaken, MaxUntaken,
  Callbacks, Kids, FirstKid, NoKid, Nobody, CacheTicks, SlowTicks, LastTick,
  Logins, LOGIN_HISTORY_KEEP, MaxLogins, LastMoment

VARIABLES
  vendors, editor, integration, admin, confirmed, overlapped,
  linked, mapped, business, cache,
  snapshots, rules, notes, sync, today, edits, faults, strange,
  google, users, identities, cookie, tabs, callback, started, changes, vouched, signins, unlinked,
  avatar_key, stored, made, change,
  company, taken, begun, day, closing, changed, late, untaken,
  published, signing, clock, meta_at, keys, keys_at, lock, fetch, last, overrun,
  login_events, recording, moment, last_id, signed_in

Catalog == INSTANCE VendorCatalog
Settings == INSTANCE OrgIntegration
Risk == INSTANCE RiskModel

\* TIER_ORDER as a set.
Tiers == {Risk!TIER_ORDER[i] : i \in DOMAIN Risk!TIER_ORDER}
Alerts == INSTANCE SyncAlerts
Accounts == INSTANCE SignIn
Photo == INSTANCE Profile
Reports == INSTANCE Portfolio WITH Matrix <- Risk!MATRIX, Grades <- Tiers
Google == INSTANCE SigningKeys
History == INSTANCE SignInHistory

ASSUME CatalogAssumptions ==
  /\ Catalog!ProductAssumption /\ Catalog!NameAssumption /\ Catalog!EditorAssumption
  /\ Catalog!LimitAssumption /\ Catalog!DocumentAssumption
ASSUME SettingsAssumptions == Settings!KeyAssumption /\ Settings!HourAssumption
ASSUME RiskAssumptions == Risk!ScoreAssumption /\ Risk!ContractAssumption /\ Risk!CveAssumption
ASSUME AlertAssumptions == Alerts!AssessmentAssumption /\ Alerts!RuleAssumption /\ Alerts!DayAssumption
ASSUME AccountAssumptions == Accounts!SubjectAssumption
ASSUME PhotoAssumptions == Photo!PhotoAssumption
ASSUME ReportAssumptions == Reports!TrendAssumption /\ Reports!CompanyAssumption /\ Reports!BandAssumption
ASSUME GoogleAssumptions == Google!KidAssumption /\ Google!TickAssumption
ASSUME HistoryAssumptions == History!KeepAssumption /\ History!LoginAssumption

catalogVars == <<vendors, editor>>
settingsVars == <<integration, admin, confirmed, overlapped>>
riskVars == <<linked, mapped, business, cache>>
alertVars == <<snapshots, rules, notes, sync, today, edits, faults, strange>>
accountVars == <<google, users, identities, cookie, tabs, callback, started, changes, vouched, signins, unlinked>>
photoVars == <<avatar_key, stored, made, change>>
portfolioVars == <<company, taken, begun, day, closing, changed, late, untaken>>
keyVars == <<published, signing, clock, meta_at, keys, keys_at, lock, fetch, last, overrun>>
historyVars == <<login_events, recording, moment, last_id, signed_in>>
tenantVars ==
  <<catalogVars, settingsVars, riskVars, alertVars, accountVars, photoVars, portfolioVars, keyVars, historyVars>>

Init ==
  /\ Catalog!Init /\ Settings!Init /\ Risk!Init /\ Alerts!Init /\ Accounts!Init /\ Photo!Init
  /\ Reports!Init /\ Google!Init /\ History!Init

CatalogStep == Catalog!Next /\ UNCHANGED <<settingsVars, riskVars, alertVars, accountVars, photoVars, portfolioVars, keyVars, historyVars>>
SettingsStep == Settings!Next /\ UNCHANGED <<catalogVars, riskVars, alertVars, accountVars, photoVars, portfolioVars, keyVars, historyVars>>
RiskStep == Risk!Next /\ UNCHANGED <<catalogVars, settingsVars, alertVars, accountVars, photoVars, portfolioVars, keyVars, historyVars>>
AlertsStep == Alerts!Next /\ UNCHANGED <<catalogVars, settingsVars, riskVars, accountVars, photoVars, portfolioVars, keyVars, historyVars>>
AccountsStep == Accounts!Next /\ UNCHANGED <<catalogVars, settingsVars, riskVars, alertVars, photoVars, portfolioVars, keyVars, historyVars>>
PhotoStep == Photo!Next /\ UNCHANGED <<catalogVars, settingsVars, riskVars, alertVars, accountVars, portfolioVars, keyVars, historyVars>>
ReportsStep == Reports!Next /\ UNCHANGED <<catalogVars, settingsVars, riskVars, alertVars, accountVars, photoVars, keyVars, historyVars>>
GoogleStep == Google!Next /\ UNCHANGED <<catalogVars, settingsVars, riskVars, alertVars, accountVars, photoVars, portfolioVars, historyVars>>
HistoryStep == History!Next /\ UNCHANGED <<catalogVars, settingsVars, riskVars, alertVars, accountVars, photoVars, portfolioVars, keyVars>>

Next ==
  \/ CatalogStep \/ SettingsStep \/ RiskStep \/ AlertsStep \/ AccountsStep
  \/ PhotoStep \/ ReportsStep \/ GoogleStep \/ HistoryStep

Spec == Init /\ [][Next]_tenantVars
------------------------------------------------------------------------------
(* Properties, of the part that each names.                                  *)

\* Overlapping imports pass the plan's limit by what they bring and no more
\* (VendorCatalog).
SoftVendors == Catalog!SoftVendors
\* An import creates what its preview has called new (VendorCatalog).
PreviewHolds == Catalog!PreviewHolds
\* The mark of a confirmed key belongs to the key that is stored (OrgIntegration).
KeyConfirmed == Settings!KeyConfirmed
\* Nothing that gets worse looks safer (RiskModel).
RiskNeverFalls == Risk!RiskNeverFalls
\* Every alert is true and no change goes untold (SyncAlerts).
AlertsMatchHistory == Alerts!AlertsMatchHistory
\* A Google account signs in as one user for good (SignIn).
StickyIdentity == Accounts!StickyIdentity
\* A user is linked only to the verified owner of its address (SignIn).
VouchedFor == Accounts!VouchedFor
\* The photo of the row is in the storage and the newest sign-ins are on record
\* (Profile and SignInHistory).
ProfileKept == Photo!PhotoIsStored /\ History!LoginsKept
\* The trend says of a day what the reports of that day said (Portfolio).
TrendMatchesDashboard == Reports!TrendMatchesDashboard
\* Google's keys are trusted while Google publishes them (SigningKeys).
KeysFollowGoogle == Google!KeysFollowGoogle
=============================================================================
