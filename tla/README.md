# Vendor Risk Platform: TLA+ specifications

Specifications of the moving parts of the vendor risk platform (`src/`): what
its workers, web processes, message broker, Redis and object store do to each
other's state. They are checked with TLC on small instances and, where it says
so below, proved with TLAPS for every value of the constants.

Contents: [the system](#the-system), [the modules](#the-modules),
[PrefixSync](#prefixsync), [ExportJobs](#exportjobs-and-exportlifecycle),
[NvdBucket](#nvdbucket), [BillingWebhooks](#billingwebhooks),
[OrgAccess](#orgaccess), [the rows of a tenant](#the-rows-of-a-tenant),
[runs](#what-the-runs-check),
[fairness](#fairness), [proofs](#what-is-proved),
[findings](#where-code-and-text-disagree), [limits](#what-is-not-modelled),
[plan](#plan).

## The system

A FastAPI web application and Celery workers share a PostgreSQL database
(READ COMMITTED, one session per request or task), a Redis server (message
broker, per-prefix locks, token buckets) and an S3-compatible object store.
Celery Beat sends `dispatch_due_syncs` and `purge_exports` on a timer; tasks
are acknowledged late, so the broker may deliver a message twice. CVE data is
public and cached once for all tenants; what an organisation sees of its
vendors is derived from that cache.

| Component | State | Operations | What is hard | What makes it correct |
|---|---|---|---|---|
| **Scheduled sync** (`scheduled_sync_service`, `workers/tasks`, `core/sync`, `store`) | CVE cache, watermark per prefix, links, `next_sync_at`, snapshots, the lock, messages | dispatch, `sync_prefix` (fetch, ingest, finalize, watermark), retry, release | overlapping dispatches, a lock that runs out, a crash between commits, one watermark for many vendors, two clock readings | no change lost, cache never older, one task per lock, no downgrade, vendors get synced |
| **Sync button** (`sync_service`) | the same tables | `sync_vendor` | runs beside the workers without their lock | same |
| **NVD client** (`core/nvd_client`, `parser`) | none | a query: paced pages, retries | windows are half open and cut to seconds | windows join up |
| **Vendor catalogue** (`vendor_service`) | `vendors` | create, update, delete | edits under a running sync | links point at cached rows |
| **Export jobs** (`export_service`, `api/exports`) | `export_jobs`, messages, files | create, dispatch, `run_job`, `purge`, organisation deletion | redelivery, slow workers, lost answers, a store and a database that do not commit together | rendered once, a link has its file, an expired file is gone, every job settles |
| **Object storage** (`object_storage`) | files | put, get, delete, sign | an answer lost after the effect | same |
| **NVD rate limit** (`rate_limit`, `nvd_limits`) | a token bucket per API key in Redis | `acquire`, with a reserve for backfills | many processes and their clocks, starvation, Redis lost | bounded rate, cushion kept, waiting ends |
| **Billing** (`billing_service`, `billing`) | `org_billing`, `billing_events`, `organizations.plan` | checkout, portal, webhooks | events out of order, twice, at the same time, of two subscriptions | the plan is that of the newest state |
| **Organisations, members, invitations** (`org_service`, `entitlements`) | memberships, invitations, plan | create, invite, accept, change role, remove, delete | the last owner, seats counted before they are taken | an owner remains, limits hold |
| **Vendor list and SBOM import** (`vendor_service`, `sbom_service`, `core/sbom`) | `vendors` | create, update, delete, preview, import | capacity, duplicates, a preview that is out of date | limits hold, the import does what the preview said |
| **Settings** (`integration_service`) | `org_integrations` | patch, test of a key | NVD is asked in the middle of a request | a mark belongs to the key it is shown with |
| **Scoring** (`core/scoring`, `scoring_service`) | none | `assess` | thresholds; unassessed is not zero | worse never looks better |
| **Alerts** (`alerts_service`) | notifications, deduplication keys, rules | `evaluate_on_sync`, `evaluate_renewals`, rule edits | evaluated after the snapshot's commit | true, and none lost |
| **Dashboard, trends** (`dashboard_service`, `snapshot_service`) | none; `risk_snapshots` | summary, heat map, trend | the past is put together from snapshots of different days | the trend of a day is what that day's dashboard said |
| **Accounts and Google sign-in** (`account_service`, `auth_service`, `sso_service`, `api/sso`) | users, identities, the flow's cookie | register, sign in, link, unlink | linking by email, racing first sign-ins, two commits | one account per identity, linked to the owner of its address |
| **Google's keys** (`oidc`) | a cache in each process | fetch, look up, store | a lock that is not held throughout, key rotation | a withdrawn key fades, a new one is seen |
| **Profile** (`profile_service`) | photo key, file, sign-in history | replace, remove, record | a store and a database that do not commit together; two prunings at once | a photo in use is there, the newest sign-ins are |
| Frontend (`frontend/src`) | session, layout, waiting exports | token refresh, autosave | answers out of order | one refresh at a time |

The rest is read-only queries (watchlist, top risks), an append-only audit log,
declarations (schemas, migrations), configuration, offline tooling (`seed/`,
`scripts/`) and rendering. `PROJECT.json` lists every component with its
status, and under `hazards` each hard spot with its line.

How the modelled components meet: the scheduled sync and the Sync button draw a
token from the bucket (NvdBucket) before each NVD query; PrefixSync sees of that
only that a query may fail (`FetchFails`) or that the task is retried
(`TaskError`, which `RateLimitBusy` is). Exports share nothing with the sync but
the broker and the workers, whose redelivery and loss both modules have. The plan
that BillingWebhooks writes is read by the seats of OrgAccess (`SetPlan`) and, as a
constant, by VendorCatalog (`MaxVendors`) and OrgIntegration (`MinHours`). What a
sync makes of a vendor's rows (PrefixSync) is an input of RiskModel (`Sync`), of
SyncAlerts (`Snapshot`) and of Portfolio (`Commit`), each with the outcomes that the
module before it can produce; SyncAlerts and Portfolio take the tier as RiskModel
defines it.

## The modules

| Module | Models | Is |
|---|---|---|
| `PrefixSync` | scheduled sync, Sync button, vendor edits of one CPE prefix | specification |
| `PrefixSync_proof` | | its theorems |
| `ExportLifecycle` | what an organisation is promised of an export | abstract specification |
| `ExportJobs` | requests, workers, purges, object store, organisation deletion | specification, refines `ExportLifecycle` |
| `ExportJobs_proof` | | its theorems, the refinement among them |
| `NvdBucket` | the token bucket, its callers, Redis | specification |
| `NvdBucket_proof` | | its theorems |
| `BillingWebhooks` | the subscription of one organisation, the provider's events, the handlers | specification |
| `BillingWebhooks_proof` | | its theorems |
| `OrgAccess` | memberships, invitations, seats | specification |
| `OrgAccess_proof` | | its theorems |
| `VendorCatalog`, `OrgIntegration`, `RiskModel`, `SyncAlerts`, `Portfolio`, `SignIn`, `SigningKeys`, `Profile`, `SignInHistory` | the rows of a tenant, see below | specifications |
| `Tenant` | puts these nine together | specification |
| `TenantVendors_proof` | | theorems about `VendorCatalog`, `OrgIntegration`, `RiskModel` |
| `TenantAlerts_proof` | | theorems about `SyncAlerts`, `Portfolio` |
| `TenantAccounts_proof` | | theorems about `SignIn`, `SigningKeys`, `Profile`, `SignInHistory` |
| `MCTenant` | runs one part of `Tenant` in each behaviour | specification for TLC |
| other `MC...` | | constants for TLC |

Conventions. One committed transaction, or one call to the broker, Redis, NVD or
the object store, is one action; a task between two of them is a record with a
`pc`. Definitions keep the source's names. A definition `X` that TLC is made to
fail with stands beside a `Mutant of X`, a bug one could plausibly write there.
Crashes, lost answers and redeliveries are actions that use up a budget
(`MaxFaults`). Every bound is a constant whose comment says "bound"; the proofs
hold for all values of them.

### PrefixSync

One CPE prefix: prefixes share nothing but CVE rows, which they write alike.

| Model | Code |
|---|---|
| `nvd` | NVD's own records (outside); a version is the second of its last modification |
| `cache`, `links`, `mapped`, `snapAt`, `nextSync`, `place` | `vulnerabilities`, `vendor_vulnerabilities`, `vendors`, the latest `risk_snapshots` row |
| `watermark` | `cpe_sync_state.last_mod_watermark` |
| `queue`, `lock` | `sync_prefix` messages; `nvd:synclock:{prefix}` and its token |
| `task[w]`, `click` | the locals of a running `sync_prefix`, of `sync_vendor` |
| `DispatchDue` | `due_prefix_groups` and the routing in `dispatch_due_syncs` |
| `StartTask`, `SkipTask`, `ReleaseLock`, `Retry` | the Celery task around the sync |
| `BeginSync`, `NextOrg`, `FetchRecent`, `FetchKev`, `FetchFails` | `sync_prefix` up to the payload; the memo that fetches once per task |
| `IngestVendor`, `KeepVendor`, `FinalizeVendor`, `AdvanceWatermark` | `core.sync.ingest` over `SqlAlchemyVulnStore`; finalize; the watermark |
| `TaskError`, `VendorGone`, `WorkerCrash`, `ReleaseFails`, `ExpireLock` | rate limit busy, database and Redis errors, a deleted vendor, a lost worker, a lost release, the 900 s |
| `ClickSync` ... `ClickGone` | the Sync button |

What is abstracted: the broker's queue is a set, so two messages that are equal
merge; the pages and retries of one NVD query are one step; the Sync button's two
readings of the clock are one (they are within one request, and only its first
is used for the window); times after `MaxTime` are `MaxTime`; `SyncRun` rows,
which nothing reads back, and alerts are left out. `covered` and `spent` are
history: the seconds that a completed fetch has asked NVD for, and the faults,
edits, clicks and lapsed locks there have been.

`FetchedIsCached` and `CacheNeverRegresses` are stated for behaviours that are
`Undisturbed`: until a lock runs out under its task or somebody presses Sync.
Beyond that the code merges whatever payload comes last, and no text promises
otherwise. What holds in every behaviour is what is left of the lock
(`MutualExclusion`), of the routing (`OnlyBackfillPullsAll`), of the data
(`RowsFit`, `KevIsLinked`) and of failure
(`NeverDowngraded`).

### ExportJobs and ExportLifecycle

`ExportLifecycle` is the promise: an export is being prepared until it is ready
or has failed, can be downloaded until its retention is over, and never comes
back. `ExportJobs` has the steps behind it.

| Model | Code |
|---|---|
| `status`, `error`, `objectKey`, `stale`, `past` | a row of `export_jobs`; the two flags stand for comparing `created_at` and `expires_at` with the clock |
| `broker`, `objects` | `run_export` messages; the bucket's files, each key with its random segment (here: the number of the claim) |
| `request[c]` | `POST /exports`: `CountActive`, `InsertJob`, `Dispatch` or `DispatchFails` and `MarkUndelivered` |
| `work[w]` | `run_job`: `Claim` or `Discard`, `LoadJob`, `LoadOrg`, `Put` or `RenderFails`, `Complete` or `MarkFailed` |
| `purge[p]` | `purge`: `PurgeStart`, `PurgeDelete` per file, one `PurgeCommit` |
| `DeleteOrg` | deletion of an organisation, with the cascade |
| `RequestDies`, `WorkerCrash`, `Redeliver`, `PutUnsure`, `PurgeCrash`, `PurgeDeleteFails` | faults |

The inline dispatcher of development is a worker that starts at once. Rendering
(CSV, HTML, PDF) is data. `Timely` restricts a behaviour to deliveries that are
over before their job is stale (30 minutes by default); under it a dispatch that
reports a failure has sent nothing. Without it a late worker may finish a job
that `purge` has failed, and `ExportLifecycle` is refined with `LateFinishes`:
nothing but that late success happens otherwise.

### NvdBucket

| Model | Code |
|---|---|
| `bucket` | the Redis hash: tokens in parts of `1/Window`, `lag` = how long ago `ts` is, `idle` = the running `EXPIRE` |
| `caller[c]` | an `NvdThrottle` and where it is in `acquire`; `age` = how old the clock reading is that it passes to the script |
| `Ask`, `Draw`, `Sleep`, `GiveUp`, `Wake` | the loop of `acquire`; `Refilled`, `Needed`, `Taken` are the script |
| `Degrade` | `RedisError`: the script did not run, or ran and its answer was lost |
| `Request` | one paced request of a query that the token was drawn for: pages and retries draw none |
| `Older`, `Tick` | time, and the expiry |
| `LoseBucket` | Redis comes back empty |
| `Observe`, `seen` | an observer that starts to count at a moment of its choice |

Instead of a clock, ages and delays are counted, so the bucket's state is finite
however long it runs. A rate is a statement on every interval: the observer may
start again at any moment, so an invariant on what it has counted is a statement
on every interval of at most `Horizon` ticks (of any length, in the proofs).
A retry's delay is rounded up to a tick. `RateHolds` has, for each bucket that is
made new, the refill of one clock reading's delay as slack: a fresh bucket takes its
time stamp from a reading that may be `MaxAge` old, and without the slack TLC
refutes the bound. `ExpiryAssumption` (an hour against half a minute) makes an
expired bucket one that would be full again.

### BillingWebhooks

| Model | Code |
|---|---|
| `row`, `plan`, `recorded` | the organisation's row of `org_billing`, `organizations.plan`, the ids in `billing_events` |
| `sessions`, `subs`, `events` | the provider: checkout sessions, subscriptions, what it has to tell |
| `StartCheckout` | `start_checkout`, refused while the row has an active subscription |
| `Pay`, `Change` | what happens at Stripe: a session is paid, a subscription changes its price or status |
| `Deliver` | a POST to the webhook: any event, in any order, again |
| `StandInPay`, `StandInPortal` | the stand-in's pages, which hand events to the same handler |
| `handler[h]`, `Record` ... `Commit` | `process_webhook` and `apply_event`: record, match, read, write the columns that differ |
| `RollBack`, `RequestFails`, `DeleteOrg` | constraints, faults, the end of the organisation |

An event carries the second it was made in and nothing that orders two events of one
second. `odd` is history: which unusual things a behaviour has had (a tie, an overlap,
a repeat, a failure, subscriptions in parallel, a skipped end, a deletion), so that each
property names what it does not survive. `RowIsOneEvent` and `NewestWins` hold while
requests do not overlap; `Settled` also needs that no two events share a second, that
subscriptions follow one another and that no end of a subscription was skipped while the
row named an earlier one (`SkippedEnd`, which the code does not distinguish and which is a
[finding](#where-code-and-text-disagree)); repeats, failures and any other order it
survives. The rest of the code's behaviour is in the model and is listed under `hazards`.

### OrgAccess

| Model | Code |
|---|---|
| `membership`, `invites`, `plan`, `exists` | `memberships`, `invitations`, `organizations` |
| `request[c]` | a request: who asks for what, the plan and own membership that its session has read |
| `Arrive` | `get_org_context`, `require_role` |
| `Check` | the checks of `create_invitation`, `accept_invitation`, `set_member_role`, `remove_member` |
| `CommitInvite` ... `CommitDelete` | their commits |
| `Expire`, `SetPlan` | the seven days of an invitation; billing |

Users are their email addresses. A membership that is removed and made again is
another row, which a request that found the first one does not change. Seats are
counted in `Check` and taken in the commit: `SeatsHeld` is exact for requests one
after another, `SoftSeats` says how far overlapping ones go.

### The rows of a tenant

Nine small modules without shared state. `Tenant` instantiates them side by side: a step
of it is a step of one of them (`CatalogStep` ... `HistoryStep`), and its properties are
theirs. The theorems are about `Tenant`. For TLC, `MCTenant` runs one part in each
behaviour (`part`), which loses nothing: the steps of two parts commute, and a property of
one module is about its own variables.

| Module | State and actions in the code |
|---|---|
| `VendorCatalog` | `vendors`; requests that check (`CheckCreate`, `CheckUpdate`, `CheckDelete`, `CheckImport`) and then commit (`Insert`, `Update`, `Delete`). `build_candidates`, `preview` and `imported` are the functions of those names in `core/sbom` and `sbom_service`; the alphabetical order of candidates is left out |
| `OrgIntegration` | `org_integrations`; `Ask` is `update_integration` up to its commit with the question to NVD in it, `Save` the commit of the columns that differ |
| `RiskModel` | links, mapping, contract and CVE cache; `Sync` and `Edit` change them, `threat_band`, `exposure_band`, `MATRIX`, `final_tier` are `core/scoring` |
| `SyncAlerts` | snapshots, rules, notifications; `Begin`, `Snapshot`, `Evaluate`, `Commit`, `Crash` are a sync around its two commits |
| `Portfolio` | vendors and snapshots; `summary`, `heatmap`, `portfolio_summary` and `portfolio_trend` as operators; `closing` is history: what the dashboard said at the end of each day |
| `SignIn` | users, identities, the browser's cookie, callbacks; `Callback` ... `FindAgain` are `google_callback` and `resolve_user`, with one action for each read and each commit, `Register` and `CreateUser`, `CreateOrg` are `create_account` with its two commits |
| `SigningKeys` | one process's cache of the discovery document and of Google's keys; `Metadata`, `Look`, `Ask`, `Store`, `Use` are `_metadata`, `_signing_key` and `_load_keys`, with the lock as the code holds it |
| `Profile` | `users.avatar_key` and the stored objects; `SetAvatar`, `Put`, `Commit`, `Discard` are `set_avatar`, `remove_avatar` and `_discard` |
| `SignInHistory` | `login_events`; `Begin`, `Flush`, `Prune`, `Commit` are `record_login` under READ COMMITTED |

## What the runs check

| Run | Instance | Shows |
|---|---|---|
| `sync_workers` | 1 vendor, 2 workers, 3 seconds, 1 retry, 1 fault or lapse | `MutualExclusion`, `OnlyBackfillPullsAll`, `KevIsLinked`, `FetchedIsCached`, `CacheNeverRegresses` |
| `sync_vendors` | 2 vendors of one organisation, 1 worker, no retry; 1 fault or lapse, or else 1 edit and 1 click; fairness | `TypeOK`, `RowsFit`, `NeverDowngraded`, `NewVendorIsScheduled` |
| `sync_gap`, `sync_links` | 1 worker, no fault | violated: see findings |
| `export_safety` | 2 jobs, 2 workers, 2 purges, 2 faults, the organisation may go | `TypeOK`, `RenderedOnce`, `ReadyHasFile`, `ExpiredIsGone`, `LifecycleRefined` |
| `export_timely` | 3 jobs, 2 clients, cap 1, 2 faults, timely, fairness | `SoftCap`, `FailedIsFinal`, `EveryJobSettles`, `RetentionIsKept` |
| `export_orphan` | 1 job | violated: see findings |
| `bucket_rate` | a sync and a backfill, 2 tokens per 3 ticks, clock readings up to 1 tick old, 1 lost bucket, lost answers, intervals of 4 ticks, fairness | `RateHolds`, `CushionHolds`, `EveryDrawEnds` |
| `billing_plan` | Stripe or the stand-in, 2 handlers, 2 checkouts, 5 events, 3 prices of which one is none of ours, 1 unusual thing | `TypeOK`, `AppliedOnce`, `RowIsOneEvent`, `NewestWins`, `Settled` |
| `billing_order` | Stripe, 1 handler, 2 checkouts, 6 events, nothing unusual | violated: see findings |
| `org_seats` | 3 users, 2 requests, 2 invitations, plans of 1 and 2 seats, 1 overlap or downgrade | `TypeOK`, `SeatsHeld`, `SoftSeats`, `OwnerRemains` |
| `tenant_rows` | two requests, syncs, sign-ins of each kind; 3 days, 2 Google accounts and 2 addresses, 5 SBOMs | `SoftVendors`, `PreviewHolds`, `KeyConfirmed`, `RiskNeverFalls`, `AlertsMatchHistory`, `StickyIdentity`, `VouchedFor`, `ProfileKept`, `TrendMatchesDashboard`, `KeysFollowGoogle` |

The tasks of `sync_vendors` are never retried, so that one deleted vendor is enough
to use the retries up; Beat sends the remaining vendors again all the same. Its
action constraint (`Apart` of `MCPrefixSync`) keeps faults and edits in different
behaviours, and an edit, a click and a revised CVE too, which all three together
would make ten times as many states; `sync_workers` has revisions and faults together.
What the proofs show of `TypeOK`, `RowsFit` and `NeverDowngraded` has no such limit.

Why the bounds are enough. *Sync*: a hazard of the lock needs two tasks and a
third message, which the queue refills as often as it is emptied; one of the windows
needs three seconds (a change before, at and after a boundary) and one CVE, since CVEs
do not interact; one of the shared fetch needs two vendors. One fault reaches every
step of a task, and a second would only repeat a message that the dispatcher repeats
anyway. *Exports*: a claim is contested by two workers, a file by two purges, the cap
by two clients and three jobs; two faults are a crash and the loss of its
redelivery. *Bucket*: capacity 2 with a cushion of 1 is the smallest in which a
backfill may draw and yet must leave something; three ticks for two tokens make
the refill fractional. *Billing*: a subscription that opens and then changes is three
events, or four if its payment fails; two that follow one another and a cancellation
are five, the fewest in which an event of the old subscription can meet the new one, and
six when both end, the fewest in which the order of arrival alone can leave the wrong plan:
`billing_order` has these six, and what it finds is the end that `Settled` excepts. Of
`Settled` itself the proof has no bound.
Each unusual thing is tried alone (`MaxFaults` = 1), as each property names which ones
it survives. *Seats*: two owners and a third to remove them, or one seat and two to
take it, are three users; a plan of two seats has room for one invitation beside its
owner. *Tenant rows*: every race is between two requests; a third sign-in, snapshot or
upload, where one matters, comes after one of the two is done (`MaxSnapshots`,
`MaxLogins`, `MaxKeys`). RiskModel needs four CVEs, since three of 7.0 and more are a
threshold. `Undisturbed` in `MCTenant` leaves changes at Google out of those behaviours
in which a sign-in is cancelled or loses its cookie on the way: such a sign-in ends
without a row being read.

Deadlock is checked for exports and the bucket. PrefixSync stops when its last second
is over and everything is done; the others when their budgets of checkouts, rows or
days are used up.

## Fairness

- *PrefixSync*: Beat's dispatch, each worker's steps and the end of a lock are
  weakly fair: Beat is a timer, a worker process is restarted by Compose, a
  Redis key expires. Nothing is assumed of NVD (a fetch may always fail), users
  or faults.
- *ExportJobs*: a request that was sent, a worker, the purge (a timer) and the
  passing of time are weakly fair. Nobody has to ask for an export, and a
  deletion that fails is not repeated for ever because faults are bounded; the purge
  itself retries it.
- *NvdBucket*: a caller in a query runs on. Time is strongly fair and the observer
  starts again when its horizon is reached, because otherwise the observer would
  stop the clock.

## What is proved

The modules whose names end in `_proof` are checked by tlapm to the last leaf, for any
sets of vendors, workers, jobs, callers, events, handlers, users, requests, keys and
documents and any bounds, from the named assumptions of each module only. Most of those say
that a placeholder (`NoKey`, `NoAccount`) is told from what it stands beside, or that
a number is one. `EditorAssumption`, `LoginAssumption`, `CveAssumption` and
`CompanyAssumption` say that requests, CVEs and vendors are finitely many, because they are
counted; `RuleAssumption` and `SubjectAssumption` say that the rules and accounts that a
behaviour starts with are rules and accounts; `BandAssumption` says that the bands are
finitely many and that what CVEs come to is a band and two numbers.

The library's induction theorems take an operator as a parameter and cannot be used. The
inductions over numbers, lists and finite sets are therefore lemmas about sets: a set of
numbers that holds 0 and with each number the next holds all (`Upward`), and a set of sets
likewise (`Gathering`). Recursive functions are shown to exist by the first (`Building`).

- *PrefixSync.* `TypeCorrect`; `LockExcludes` from `LockInv` (a task whose lock
  has not run out holds it: `MutualExclusion` alone says nothing of who may take
  the lock next); `BackfillRouted` from `RouteInv` (once a message for the sync
  queue exists the watermark is set, and stays set); `RowsFitTogether` (that is
  `LinksCached` and `SnapshotsAssessed`) and `KevLinked` from `DataInv`, which says of
  every task and of the click what its payload holds, which vendors have their links
  already, and that clock readings are in the past; `AssessmentKept` from the same;
  `FetchedStays` and `NothingRegresses` from `FreshInv`: the one task with the lock
  has a payload that is no older than the cache and complete for its window, because
  whatever NVD changes afterwards is dated later than the window's end.
- *ExportJobs.* `TypeCorrect`; `OneRendering`, `LinksWork`, `ExpiryDeletes` from
  `ClaimInv` (a job with a worker or a file was claimed, exactly once) and
  `FileInv` (a key in a purge's hands is that of a retired job, which no worker
  touches again); `GivenUpForGood` from `TimelyInv` (while deliveries are timely
  nothing stale is in hand); `CapIsSoft` from `CapInv` (the active jobs plus the
  requests that have counted); `Refines`: `ExportJobs` implements `ExportLifecycle`
  under the mapping `ViewOf`, each step a step or a stutter.
- *NvdBucket.* `TypeCorrect`, `RateIsBounded`, `CushionIsLeft` from `IInv`. The
  rate is a potential argument: tokens drawn plus the most that can still be drawn
  at once (`Potential`, by the latest clock reading) never exceed full buckets plus
  refill (`RateInv`); the cushion needs that the bucket is as old as the last
  script (`AgeInv`). `TypeOK` of this module is proved and not in a run.
- *BillingWebhooks.* `TypeCorrect`, whose part about the row needs `PaidInv`: columns
  are written in pieces by handlers that read different rows, and yet an active row
  never lacks a paid plan. `EventsCountOnce` from `OnceInv` (of the handlers of one event
  only the first to record it gets on). `OneEventTold` and `TheNewestWins` from
  `QuietInv`: while requests do not overlap, what the only handler has read is still
  the row. `AllIsSettled` from `SettledInv`: of the events of all subscriptions the last
  one told has the latest second and tells of the last subscription (`ToldInOrder`), the
  row is no further than that, and once that event is taken in, the row and the plan stay
  where it put them (`RowInOrder`). What is still undelivered need not be described: an
  event that is not the last is stale once the last is in, whichever of them come before it.
- *OrgAccess.* `TypeCorrect`; `SeatsAreSoft` from `AcceptInv` (who is over the limit
  is one of the requests that had counted); `OwnerStays` from `SoloInv` and `LeaveInv`
  (while requests do not overlap, the readings of the only one are current, and whoever
  was allowed to leave still may); `SeatsKept` from `SeatInv` (whoever was found a seat
  still has it).

- *Settings* (`OrgIntegration`). `ConfirmedKeyIsStored` from `SettingsInv`: a verdict that
  a request holds is about the key it holds, and while no two overlap, what it has read is
  still the row.
- *Scoring* (`RiskModel`). `WorseNeverLooksSafer` is an action property of the bands: the
  threat band rises with the scores and with exploits (`ThreatRises`, by the cardinalities
  that the thresholds compare), the exposure band with the contract (`ExposureRises`), and the
  matrix, all of its 20 cells, with both (`MatrixRises`).
- *Vendor list* (`VendorCatalog`). `VendorsWithinPlan` from `CatalogInv`. Its part `Room`
  says that what the pending requests can still insert, `MaxImport` rows each, stays below
  the limit together with the live rows, or would but for the one that has checked last, of
  which the rows that it does insert are counted: there was room for them. An import has
  no more rows than it was asked for (`ImportIsShort`). `PreviewComesTrue` is about what
  three recursive functions compute for any document: the candidates that `preview` calls
  new have names and products of their own that no vendor has (`PreviewIsFresh`, from
  `CandidatesDiffer`), and `import_vendors`, which marks what it takes in another way, skips
  no such candidate (`FreshIsTaken`).
- *Alerts* (`SyncAlerts`). `AlertsAreTrueAndTold` from `TruthInv` (the snapshot that a sync
  compares with is older than its own, and the alerts it is about to commit are as true as
  those that are there) and `Orderly`: while nothing overlaps or crashes, at most one sync
  runs, it compares with the snapshot just before its own, and every snapshot but its own
  has been told of.
- *Trend* (`Portfolio`). `TrendIsRemembered` from `TrendInv`: of every vendor and every day
  that no snapshot came too late for, the newest snapshot up to that day says what the
  dashboard said of the vendor when the day ended. That needs more than the trend shows:
  the snapshots of a vendor are numbered in the order of its syncs (`Counted`), and a vendor
  that is not on the list has neither snapshots nor a past (`Stranger`). The numbers agree
  because there is one snapshot for each vendor counted (`OneSnapshotEach`), sums do not
  depend on names or order (`SumRenamed`, `SumIsSum`), and the cells of the heat map share no
  vendor (`HeatmapCounts`, from `SumOfSizes`).
- *Accounts* (`SignIn`). `OneUserForGood` and `LinkedToTheOwner` from `SignInv`, which follows
  the claims of a callback from the token to the link: whichever read found the user, the
  claims were vouched for and name the user's address, and whoever has signed in and was never
  unlinked is linked to that user (`SignedInIsLinked`).
- *Google's keys* (`SigningKeys`). `KeysAreGoogles` from `KeyInv`, which bounds the age of an
  answer on its way by the time its request has taken.
- *Profile* (`Profile`, `SignInHistory`). `ProfileIsKept` from `PhotoInv` (no request discards
  the key of the row, or one that another request may still put there) and `HistoryInv`
  (a row that was deleted has `LOGIN_HISTORY_KEEP` newer ones, and whichever of the sign-ins
  in progress commit, few old rows are left: `FewAreLeft`).

What is only model-checked, and why:

- liveness (`NewVendorIsScheduled`, `EveryJobSettles`, `RetentionIsKept`, `EveryDrawEnds`):
  fairness and `ENABLED` are out of the prover's reach.

No module declares a recursive operator.

## Where code and text disagree

- `sync_gap`: the watermark is set to the sync's own clock reading, which is
  later than the end of the window that was fetched; changes between the two are
  asked for by no fetch. The comment at `scheduled_sync_service.py:279` says a
  clean fetch skips nothing.
- `sync_links`: the watermark is kept per prefix, the links per vendor. A vendor
  that joins a prefix with a watermark is finalised with the links of an
  incremental payload only, not with those of "the refreshed cache"
  (`scheduled_sync_service.py:13`).
- `export_orphan`: a file stored just before the worker, or the store's answer, is
  lost belongs to no row, and no purge deletes it ("Files are deleted after 7
  days").
- `billing_order`: the end of a subscription is skipped as stale whenever the row names
  another one, "an earlier subscription ending mustn't cancel the current one"
  (`billing_service.py:199`). The row also names another one when a *later* subscription
  ends and its first events have not arrived yet. Its end is then recorded and never
  applied, and the event that says it is active, which is older, makes the plan paid once it
  arrives. Both subscriptions have ended, everything is delivered, and the organisation
  keeps the paid plan; "events can arrive out of order" (`billing_service.py:8`).

Two more have no run. The organisation may go between the two reads of `run_job`, whose
assertion (`export_service.py:343`) says it cannot: the worker's step after `LoadOrg` is then
`noOrg`, and its task ends with an error. And the rate is not NVD's: a full bucket refills
while it is drawn, and one token covers all pages and retries of a query, so NVD may see more
requests in 30 seconds than it allows. No text promises otherwise; `RateHolds` is the bound
that the code does keep on draws.

## What is not modelled

`PROJECT.json` lists each component with its reason. Whole components: the audit log
(append-only, nothing reads it back), schemas and migrations (declarations), the frontend
(it renders what the API answers), the seed pipeline and the scripts (offline tooling).

Within the modelled parts:

- *Sync.* `SyncRun` rows, which nothing reads back; the parsing of NVD's answers; a change of
  plan that slows an organisation's cadence, which is a constant here.
- *Exports.* The text of exports and errors, the plan check of `POST /exports`, the
  signing of links.
- *NVD rate limit.* The buckets of other API keys (one stands for each), and the one
  request that draws no token (the check of a new key).
- *Billing.* `cancel_at_period_end` and `current_period_end`, which are shown and not
  read; `trialing`, which entitles like `active`; the search of an organisation by its
  customer id; events of other types; signatures.
- *Organisations.* Names and slugs, a member's details, `add_member`, which only tests
  call.
- *Accounts.* Passwords, session tokens and their rotation; the cryptography of Google's
  tokens. A request that fails between the two commits of `create_account` leaves a user
  without an organisation (`RequestFails` of `SignIn`); no property speaks of that user.
- *Alerts.* `evaluate_renewals` is modelled although no code of the application calls it;
  reading and marking notifications is not.
- *Vendors.* Fields that no rule reads, the list and its filters, the alphabetical order
  of SBOM candidates, the reading of the SBOM formats, the CPE search, and the links that a
  vendor keeps when its product changes (listed under `hazards`).
- *Dashboard.* The watchlist, the top risks and the trend of one vendor, which sort and
  filter rows that `Portfolio` has.

## Plan

What is left, the most consequential first:

1. `UpdateVendor` of PrefixSync with two prefixes: the links of the old product.
2. The plan as a variable of PrefixSync (cadence) and of VendorCatalog (capacity), written by
   the commits of BillingWebhooks.
3. Passwords and sessions; the frontend's token refresh and layout autosave.
