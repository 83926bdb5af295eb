----------------------------- MODULE PrefixSync -----------------------------
(***************************************************************************)
(* The automatic sync of one CPE prefix: Celery Beat dispatches the due    *)
(* vendors, workers take the messages under a per-prefix Redis lock, pull  *)
(* the prefix from NVD (incrementally, from the stored watermark), write   *)
(* the CVE cache that all tenants share, link and reschedule each vendor,  *)
(* and move the watermark.  Beside it run the Sync button of the web       *)
(* application, which takes no lock, and the vendor edits.                 *)
(*                                                                         *)
(* A committed database transaction is one action.  Time is counted in     *)
(* seconds, as NVD's query parameters are (nvd_client._iso), and stops at  *)
(* MaxTime.  A version of a CVE is the second NVD last modified it.        *)
(***************************************************************************)
EXTENDS Integers, FiniteSets

CONSTANTS
  Vendors, Orgs, Cves, Workers,
  OrgOf,            \* the organisation that owns a vendor
  Cadence,          \* cadence_hours of the vendor's organisation
  Subscribed,       \* the vendors that exist at the start, with this prefix
  NoOne,            \* the value of the lock while nobody holds it
  MaxRetries,       \* max_retries of the Celery task
  MaxTime,          \* bound: the last second of the model
  MaxQueue,         \* bound: messages waiting when Beat sends another
  MaxFaults,        \* bound: crashes, errors, lost releases, and locks that
                    \* run out under their task, in a behaviour
  MaxEdits,         \* bound: vendor edits in a behaviour
  MaxClicks         \* bound: uses of the Sync button in a behaviour

Never == -1         \* a NULL timestamp
Seconds == 0 .. MaxTime
Stamps == Seconds \cup {Never}

ASSUME TimeAssumption == MaxTime \in Nat /\ MaxRetries \in Nat
ASSUME OwnerAssumption ==
  /\ OrgOf \in [Vendors -> Orgs]
  /\ Cadence \in [Vendors -> Nat \ {0}]
  /\ Subscribed \subseteq Vendors
ASSUME LockAssumption == NoOne \notin Workers

VARIABLES
  now,        \* the clock
  nvd,        \* NVD's own record of every CVE that matches the prefix
  cache,      \* vulnerabilities: the version held of each CVE, or Never
  watermark,  \* cpe_sync_state.last_mod_watermark
  place,      \* vendors: "none", "here" (cpe_prefix is this one),
              \* "noCpe" (cpe_prefix is NULL), "gone" (deleted)
  nextSync,   \* vendors.next_sync_at
  mapped,     \* vendors.is_mapped
  links,      \* vendor_vulnerabilities
  snapAt,     \* captured_at of the vendor's latest risk snapshot
  queue,      \* the sync_prefix messages in the broker
  lock,       \* nvd:synclock:{prefix}: the worker whose token it holds
  task,       \* what each worker does
  click,      \* the Sync request in flight
  spent,      \* history: the faults, edits, clicks and lapses there have been
  lapsed,     \* history: the workers whose lock ran out under their task
  covered     \* history: the seconds that a completed fetch asked NVD for

dbVars == <<cache, watermark, place, nextSync, mapped, links, snapAt>>
vendorVars == <<place, nextSync, mapped, links, snapAt>>
workVars == <<queue, lock, task, lapsed>>
vars == <<now, nvd, cache, watermark, place, nextSync, mapped, links, snapAt,
          queue, lock, task, click, spent, lapsed, covered>>

Message == [at : Seconds, vendors : SUBSET Vendors, backfill : BOOLEAN,
            tries : 0 .. MaxRetries]
Payload == [Cves -> Stamps]
NoCves == [c \in Cves |-> Never]

Soonest(a, b) == IF a < b THEN a ELSE b
Later(t, d) == Soonest(t + d, MaxTime)

(***************************************************************************)
(* Fields of a task: the message, fetchEnd and syncNow (the two readings   *)
(* of the clock), the watermark it read, the fetch and its payload, the    *)
(* vendors of the current organisation still to be ingested and still to   *)
(* be finalised, and the vendors of the organisations not reached yet.     *)
(***************************************************************************)
IdleMessage == [at |-> 0, vendors |-> {}, backfill |-> TRUE, tries |-> 0]
Idle == [pc |-> "idle", msg |-> IdleMessage, fetchEnd |-> 0, syncNow |-> 0,
         lastMod |-> Never, fetch |-> "none", payload |-> NoCves,
         ingest |-> {}, finalize |-> {}, rest |-> {}]
NoClick == [pc |-> "idle", vendors |-> {}, at |-> 0, payload |-> NoCves]

Task == [pc : {"idle", "started", "orgs", "vendors", "done"}, msg : Message,
         fetchEnd : Seconds, syncNow : Seconds, lastMod : Stamps,
         fetch : {"none", "recent", "ok", "failed"}, payload : Payload,
         ingest : SUBSET Vendors, finalize : SUBSET Vendors,
         rest : SUBSET Vendors]

Running == {w \in Workers : task[w].pc # "idle"}
Present(v) == place[v] \in {"here", "noCpe"}

Init ==
  /\ now = 0
  /\ nvd = [c \in Cves |-> [pub |-> Never, mod |-> Never, kev |-> Never]]
  /\ cache = NoCves
  /\ watermark = Never
  /\ place = [v \in Vendors |-> IF v \in Subscribed THEN "here" ELSE "none"]
  /\ nextSync = [v \in Vendors |-> Never]
  /\ mapped = [v \in Vendors |-> FALSE]
  /\ links = [v \in Vendors |-> {}]
  /\ snapAt = [v \in Vendors |-> Never]
  /\ queue = {}
  /\ lock = NoOne
  /\ task = [w \in Workers |-> Idle]
  /\ click = NoClick
  /\ spent = [faults |-> 0, edits |-> 0, clicks |-> 0, lapses |-> 0]
  /\ lapsed = {}
  /\ covered = {}

-----------------------------------------------------------------------------
(* The world outside: the clock, and NVD publishing and modifying CVEs.    *)

Tick ==
  /\ now < MaxTime
  /\ now' = now + 1
  /\ UNCHANGED <<nvd, dbVars, workVars, click, spent, covered>>

NvdPublish(c) ==
  /\ nvd[c].pub = Never
  /\ \E k \in {Never, now} :
       nvd' = [nvd EXCEPT ![c] = [pub |-> now, mod |-> now, kev |-> k]]
  /\ UNCHANGED <<now, dbVars, workVars, click, spent, covered>>

\* A revision (of a score, a status) or the listing of the CVE as a known
\* exploited one.  Two in one second count as one.
NvdModify(c) ==
  /\ nvd[c].pub # Never
  /\ nvd[c].mod < now
  /\ \E k \in {nvd[c].kev, now} :
       /\ nvd[c].kev # Never => k = nvd[c].kev
       /\ nvd' = [nvd EXCEPT ![c] = [@ EXCEPT !.mod = now, !.kev = k]]
  /\ UNCHANGED <<now, dbVars, workVars, click, spent, covered>>

\* Mutant of Recent: the window leaves out its first second.
RecentOpenStart(lastMod, end) ==
  [c \in Cves |->
    IF /\ nvd[c].pub # Never
       /\ IF lastMod = Never THEN nvd[c].pub < end
                             ELSE lastMod < nvd[c].mod /\ nvd[c].mod < end
    THEN nvd[c].mod ELSE Never]

\* What "recent" answers: by publication date without a watermark (the model
\* is shorter than the 120 day window), else by last modification; the end of
\* the window is cut to its second, so that second itself is left out.
Recent(lastMod, end) ==
  [c \in Cves |->
    IF /\ nvd[c].pub # Never
       /\ IF lastMod = Never THEN nvd[c].pub < end
                             ELSE lastMod <= nvd[c].mod /\ nvd[c].mod < end
    THEN nvd[c].mod ELSE Never]

\* Mutant of WithKev: only "recent" is queried.
RecentOnly(payload) == payload

\* The payload once "kev" has answered: every known exploited CVE.  The store
\* keeps the first record of a CVE it sees, and "recent" comes first.
WithKev(payload) ==
  [c \in Cves |-> IF payload[c] = Never /\ nvd[c].kev # Never
                  THEN nvd[c].mod ELSE payload[c]]

-----------------------------------------------------------------------------
(* Beat.                                                                   *)

\* Mutant of DueVendors: only vendors that are mapped already.
DueMapped == {v \in Vendors : place[v] = "here" /\ nextSync[v] <= now /\ mapped[v]}

\* Mutant of IsBackfill: a backfill is a message for unmapped vendors.
NoneMapped == \A v \in Vendors : place[v] = "here" => ~mapped[v]

DueVendors == {v \in Vendors : place[v] = "here" /\ nextSync[v] <= now}

\* The prefix has no watermark yet.
IsBackfill == watermark = Never

DispatchDue ==
  /\ DueVendors # {}
  /\ Cardinality(queue) < MaxQueue
  /\ queue' = queue \cup {[at |-> now, vendors |-> DueVendors,
                           backfill |-> IsBackfill, tries |-> 0]}
  /\ UNCHANGED <<now, nvd, dbVars, lock, task, lapsed, click, spent, covered>>

-----------------------------------------------------------------------------
(* A worker and its sync_prefix task.                                      *)

SetTask(w, t) == task' = [task EXCEPT ![w] = t]

StartTask(w, m) ==
  /\ task[w].pc = "idle"
  /\ m \in queue
  /\ lock = NoOne
  /\ queue' = queue \ {m}
  /\ lock' = w
  /\ SetTask(w, [Idle EXCEPT !.pc = "started", !.msg = m, !.fetchEnd = now])
  /\ UNCHANGED <<now, nvd, dbVars, lapsed, click, spent, covered>>

SkipTask(w, m) ==
  /\ task[w].pc = "idle"
  /\ m \in queue
  /\ lock # NoOne
  /\ queue' = queue \ {m}
  /\ UNCHANGED <<now, nvd, dbVars, lock, task, lapsed, click, spent, covered>>

\* sync_prefix reads the clock a second time, and the watermark once.
BeginSync(w) ==
  /\ task[w].pc = "started"
  /\ SetTask(w, [task[w] EXCEPT !.pc = "orgs", !.syncNow = now,
                     !.lastMod = watermark, !.rest = task[w].msg.vendors])
  /\ UNCHANGED <<now, nvd, dbVars, queue, lock, lapsed, click, spent, covered>>

\* The next organisation: its vendors are loaded by id; one that was deleted
\* is left out, one that has moved to another prefix is not.
NextOrg(w, o) ==
  LET group == {v \in task[w].rest : OrgOf[v] = o}
      found == {v \in group : Present(v)}
  IN /\ task[w].pc = "orgs"
     /\ group # {}
     /\ SetTask(w, [task[w] EXCEPT
                      !.pc = IF found = {} THEN "orgs" ELSE "vendors",
                      !.ingest = found, !.finalize = found, !.rest = @ \ group])
     /\ UNCHANGED <<now, nvd, dbVars, queue, lock, lapsed, click, spent, covered>>

\* The one fetch of the task: made for its first vendor, replayed to the rest.
FetchRecent(w) ==
  /\ task[w].pc = "vendors"
  /\ task[w].fetch = "none"
  /\ SetTask(w, [task[w] EXCEPT !.fetch = "recent",
                     !.payload = Recent(task[w].lastMod, task[w].fetchEnd)])
  /\ UNCHANGED <<now, nvd, dbVars, queue, lock, lapsed, click, spent, covered>>

FetchKev(w) ==
  /\ task[w].pc = "vendors"
  /\ task[w].fetch = "recent"
  /\ SetTask(w, [task[w] EXCEPT !.fetch = "ok",
                                !.payload = WithKev(task[w].payload)])
  /\ UNCHANGED <<now, nvd, dbVars, queue, lock, lapsed, click, spent, covered>>

FetchFails(w) ==
  /\ task[w].pc = "vendors"
  /\ task[w].fetch \in {"none", "recent"}
  /\ SetTask(w, [task[w] EXCEPT !.fetch = "failed", !.payload = NoCves])
  /\ UNCHANGED <<now, nvd, dbVars, queue, lock, lapsed, click, spent, covered>>

Fetched(payload) == {c \in Cves : payload[c] # Never}

\* Mutant of MergeCves: a plain replacement; and of LinkVendor: the links become
\* those of the last payload.
ReplaceCves(payload) == payload
RelinkVendor(v, payload) ==
  /\ mapped' = [mapped EXCEPT ![v] = TRUE]
  /\ links' = [links EXCEPT ![v] = Fetched(payload)]

\* SqlAlchemyVulnStore.commit: the CVE rows, then the vendor's links to them.
MergeCves(payload) ==
  [c \in Cves |-> IF payload[c] # Never THEN payload[c] ELSE cache[c]]

LinkVendor(v, payload) ==
  /\ mapped' = [mapped EXCEPT ![v] = TRUE]
  /\ links' = [links EXCEPT ![v] = @ \cup Fetched(payload)]

\* One store serves all vendors of an organisation and writes each CVE once,
\* with the first vendor; the others are only linked.
IngestVendor(w, v) ==
  LET t == task[w]
  IN /\ t.pc = "vendors"
     /\ t.fetch = "ok"
     /\ v \in t.ingest
     /\ Present(v)
     /\ cache' = IF t.ingest = t.finalize THEN MergeCves(t.payload) ELSE cache
     /\ LinkVendor(v, t.payload)
     /\ SetTask(w, [t EXCEPT !.ingest = @ \ {v}])
     /\ UNCHANGED <<now, nvd, watermark, place, nextSync, snapAt, queue, lock,
                    lapsed, click, spent, covered>>

\* _record_unassessed: a mapped vendor is left alone; for another one the
\* values it already has are assigned, which writes nothing.
KeepVendor(w, v) ==
  /\ task[w].pc = "vendors"
  /\ task[w].fetch = "failed"
  /\ v \in task[w].ingest
  /\ Present(v)
  /\ SetTask(w, [task[w] EXCEPT !.ingest = @ \ {v}])
  /\ UNCHANGED <<now, nvd, dbVars, queue, lock, lapsed, click, spent, covered>>

\* Mutant of Snapshot: taken whether or not the fetch succeeded.
SnapshotAlways(t, v) == [snapAt EXCEPT ![v] = t.syncNow]

\* build_snapshot, after a fetch that succeeded.
Snapshot(t, v) ==
  IF t.fetch = "ok" THEN [snapAt EXCEPT ![v] = t.syncNow] ELSE snapAt

FinalizeVendor(w, v) ==
  LET t == task[w]
  IN /\ t.pc = "vendors"
     /\ t.fetch \in {"ok", "failed"}
     /\ t.ingest = {}
     /\ v \in t.finalize
     /\ Present(v)
     /\ nextSync' = [nextSync EXCEPT ![v] = Later(t.syncNow, Cadence[v])]
     /\ snapAt' = Snapshot(t, v)
     /\ SetTask(w, [t EXCEPT !.finalize = @ \ {v},
                      !.pc = IF t.finalize = {v} THEN "orgs" ELSE "vendors"])
     /\ UNCHANGED <<now, nvd, cache, watermark, place, mapped, links, queue,
                    lock, lapsed, click, spent, covered>>

AdvanceWatermark(w) ==
  LET t == task[w]
  IN /\ t.pc = "orgs"
     /\ t.rest = {}
     /\ watermark' = IF t.fetch = "ok" THEN t.syncNow ELSE watermark
     /\ covered' = IF t.fetch = "ok"
                   THEN covered \cup {s \in Seconds : t.lastMod <= s /\ s < t.fetchEnd}
                   ELSE covered
     /\ SetTask(w, [Idle EXCEPT !.pc = "done", !.msg = t.msg])
     /\ UNCHANGED <<now, nvd, cache, vendorVars, queue, lock, lapsed, click, spent>>

\* Mutant of Release: whatever lock there is, is deleted.
ReleaseAny(w) == NoOne

\* lock.release() compares the token: a lock that ran out and was taken by
\* another worker is left alone.
Release(w) == IF lock = w THEN NoOne ELSE lock

EndTask(w) ==
  /\ SetTask(w, Idle)
  /\ lapsed' = lapsed \ {w}

ReleaseLock(w) ==
  /\ task[w].pc = "done"
  /\ lock' = Release(w)
  /\ EndTask(w)
  /\ UNCHANGED <<now, nvd, dbVars, queue, click, spent, covered>>

\* Mutant of Retry: without the limit.
RetryForever(w) ==
  LET m == task[w].msg
  IN /\ queue' = queue \cup {[m EXCEPT !.tries = @ + 1]}
     /\ lock' = Release(w)
     /\ EndTask(w)

\* self.retry, then the release.  The retry runs a minute later at the
\* earliest, so the two are one action.
Retry(w) ==
  LET m == task[w].msg
  IN /\ queue' = IF m.tries < MaxRetries
                 THEN queue \cup {[m EXCEPT !.tries = @ + 1]} ELSE queue
     /\ lock' = Release(w)
     /\ EndTask(w)

\* NotFoundError or ObjectDeletedError: the vendor that is next was deleted
\* since it was loaded.
VendorGone(w) ==
  /\ task[w].pc = "vendors"
  /\ task[w].fetch \in {"ok", "failed"}
  /\ \E v \in (IF task[w].ingest # {} THEN task[w].ingest ELSE task[w].finalize) :
       ~Present(v)
  /\ Retry(w)
  /\ UNCHANGED <<now, nvd, dbVars, click, spent, covered>>

-----------------------------------------------------------------------------
(* Faults.                                                                 *)

Unlucky == spent.faults + spent.lapses < MaxFaults

Fault == /\ Unlucky
         /\ spent' = [spent EXCEPT !.faults = @ + 1]

\* RateLimitBusy, or an error of Redis or of the database: the transaction is
\* rolled back and the task is retried.
TaskError(w) ==
  /\ task[w].pc \in {"started", "orgs", "vendors"}
  /\ Fault
  /\ Retry(w)
  /\ UNCHANGED <<now, nvd, dbVars, click, covered>>

\* The error of a failed release is swallowed; the lock is left to run out.
ReleaseFails(w) ==
  /\ task[w].pc = "done"
  /\ Fault
  /\ EndTask(w)
  /\ UNCHANGED <<now, nvd, dbVars, queue, lock, click, covered>>

\* With acks_late the broker delivers the message again when the worker is
\* lost; when only its child process is killed the message is acknowledged.
WorkerCrash(w) ==
  /\ task[w].pc # "idle"
  /\ Fault
  /\ \E redelivered \in BOOLEAN :
       queue' = IF redelivered THEN queue \cup {task[w].msg} ELSE queue
  /\ EndTask(w)
  /\ UNCHANGED <<now, nvd, dbVars, lock, click, covered>>

\* The lock's 900 s are over, perhaps under a task that takes longer.
ExpireLock ==
  /\ lock # NoOne
  /\ lock' = NoOne
  /\ IF lock \in Running
     THEN /\ Unlucky
          /\ spent' = [spent EXCEPT !.lapses = @ + 1]
          /\ lapsed' = lapsed \cup {lock}
     ELSE UNCHANGED <<spent, lapsed>>
  /\ UNCHANGED <<now, nvd, dbVars, queue, task, click, covered>>

-----------------------------------------------------------------------------
(* The web application: the Sync button and the vendor edits.              *)

ClickSync(v) ==
  /\ click.pc = "idle"
  /\ spent.clicks < MaxClicks
  /\ place[v] = "here"
  /\ click' = [pc |-> "started", vendors |-> {v}, at |-> now, payload |-> NoCves]
  /\ spent' = [spent EXCEPT !.clicks = @ + 1]
  /\ UNCHANGED <<now, nvd, dbVars, workVars, covered>>

ClickRecent ==
  /\ click.pc = "started"
  /\ click' = [click EXCEPT !.pc = "recent", !.payload = Recent(Never, click.at)]
  /\ UNCHANGED <<now, nvd, dbVars, workVars, spent, covered>>

ClickKev ==
  /\ click.pc = "recent"
  /\ click' = [click EXCEPT !.pc = "fetched", !.payload = WithKev(click.payload)]
  /\ UNCHANGED <<now, nvd, dbVars, workVars, spent, covered>>

\* ingest commits the CVEs and the links ...
ClickIngest(v) ==
  /\ click.pc = "fetched"
  /\ v \in click.vendors
  /\ Present(v)
  /\ cache' = MergeCves(click.payload)
  /\ LinkVendor(v, click.payload)
  /\ click' = [click EXCEPT !.pc = "ingested"]
  /\ UNCHANGED <<now, nvd, watermark, place, nextSync, snapAt, workVars, spent, covered>>

\* ... and sync_vendor the schedule and the snapshot.
ClickFinish(v) ==
  /\ click.pc = "ingested"
  /\ v \in click.vendors
  /\ Present(v)
  /\ nextSync' = [nextSync EXCEPT ![v] = Later(click.at, Cadence[v])]
  /\ snapAt' = [snapAt EXCEPT ![v] = click.at]
  /\ click' = NoClick
  /\ UNCHANGED <<now, nvd, cache, watermark, place, mapped, links, workVars, spent, covered>>

\* NVD failed or the budget was empty: only the schedule moves.
ClickFails(v) ==
  /\ click.pc \in {"started", "recent"}
  /\ v \in click.vendors
  /\ Present(v)
  /\ nextSync' = [nextSync EXCEPT ![v] = Later(click.at, Cadence[v])]
  /\ click' = NoClick
  /\ UNCHANGED <<now, nvd, cache, watermark, place, mapped, links, snapAt,
                 workVars, spent, covered>>

\* The vendor was deleted under the request, which notices when it writes.
ClickGone ==
  /\ click.pc # "idle"
  /\ \E v \in click.vendors : ~Present(v)
  /\ click' = NoClick
  /\ UNCHANGED <<now, nvd, dbVars, workVars, spent, covered>>

Edit == /\ spent.edits < MaxEdits
        /\ spent' = [spent EXCEPT !.edits = @ + 1]

CreateVendor(v) ==
  /\ place[v] = "none"
  /\ Edit
  /\ \E p \in {"here", "noCpe"} : place' = [place EXCEPT ![v] = p]
  /\ UNCHANGED <<now, nvd, cache, watermark, nextSync, mapped, links, snapAt,
                 workVars, click, covered>>

\* update_vendor sets cpe_prefix, and nothing else follows from it.
UpdateVendor(v) ==
  /\ Present(v)
  /\ Edit
  /\ place' = [place EXCEPT ![v] = IF @ = "here" THEN "noCpe" ELSE "here"]
  /\ UNCHANGED <<now, nvd, cache, watermark, nextSync, mapped, links, snapAt,
                 workVars, click, covered>>

\* The links and the snapshots of the vendor go with it.
DeleteVendor(v) ==
  /\ Present(v)
  /\ Edit
  /\ place' = [place EXCEPT ![v] = "gone"]
  /\ links' = [links EXCEPT ![v] = {}]
  /\ mapped' = [mapped EXCEPT ![v] = FALSE]
  /\ snapAt' = [snapAt EXCEPT ![v] = Never]
  /\ UNCHANGED <<now, nvd, cache, watermark, nextSync, workVars, click, covered>>

-----------------------------------------------------------------------------
World == Tick \/ (\E c \in Cves : NvdPublish(c) \/ NvdModify(c))

WorkerStep(w) ==
  \/ \E m \in queue : StartTask(w, m) \/ SkipTask(w, m)
  \/ BeginSync(w)
  \/ \E o \in Orgs : NextOrg(w, o)
  \/ FetchRecent(w) \/ FetchKev(w) \/ FetchFails(w)
  \/ \E v \in Vendors : IngestVendor(w, v) \/ KeepVendor(w, v) \/ FinalizeVendor(w, v)
  \/ AdvanceWatermark(w)
  \/ ReleaseLock(w)
  \/ VendorGone(w)

WorkerFault(w) == TaskError(w) \/ ReleaseFails(w) \/ WorkerCrash(w)

Click ==
  \/ \E v \in Vendors : ClickSync(v) \/ ClickIngest(v) \/ ClickFinish(v) \/ ClickFails(v)
  \/ ClickRecent
  \/ ClickKev
  \/ ClickGone

VendorEdit == \E v \in Vendors : CreateVendor(v) \/ UpdateVendor(v) \/ DeleteVendor(v)

Next ==
  \/ World
  \/ DispatchDue
  \/ \E w \in Workers : WorkerStep(w) \/ WorkerFault(w)
  \/ ExpireLock
  \/ Click
  \/ VendorEdit

Spec == Init /\ [][Next]_vars

\* Beat ticks, workers take messages and finish what they took, and the lock
\* of a dead worker runs out.  Nothing is assumed of NVD, the users or faults.
Fairness ==
  /\ WF_vars(DispatchDue)
  /\ \A w \in Workers : WF_vars(WorkerStep(w))
  /\ WF_vars(ExpireLock)

FairSpec == Spec /\ Fairness
-----------------------------------------------------------------------------
(* Properties.                                                             *)

\* Every variable has its type.
TypeOK ==
  /\ now \in Seconds
  /\ nvd \in [Cves -> [pub : Stamps, mod : Stamps, kev : Stamps]]
  /\ cache \in Payload
  /\ watermark \in Stamps
  /\ place \in [Vendors -> {"none", "here", "noCpe", "gone"}]
  /\ nextSync \in [Vendors -> Stamps]
  /\ mapped \in [Vendors -> BOOLEAN]
  /\ links \in [Vendors -> SUBSET Cves]
  /\ snapAt \in [Vendors -> Stamps]
  /\ queue \subseteq Message
  /\ lock \in Workers \cup {NoOne}
  /\ task \in [Workers -> Task]
  /\ click \in [pc : {"idle", "started", "recent", "fetched", "ingested"},
                 vendors : SUBSET Vendors, at : Seconds, payload : Payload]
  /\ spent \in [faults : Nat, edits : Nat, clicks : Nat, lapses : Nat]
  /\ lapsed \subseteq Workers
  /\ covered \subseteq Seconds

\* Of the tasks whose lock has not run out under them at most one runs: the
\* lock is taken before the work, kept through every step of it, and never
\* freed by a task that lost it to another one.
MutualExclusion ==
  \A w1, w2 \in Running \ lapsed : w1 = w2

\* A link always points at a row of the cache (the foreign key the store's
\* buffering is there for), although with several vendors of an organisation
\* only the first one's turn writes the rows.
LinksAreCached ==
  \A v \in Vendors : \A c \in links[v] : cache[c] # Never

\* A vendor shows an assessment only when a fetch for it has succeeded: it has
\* a snapshot only if it is mapped, whatever failed, crashed or was retried.
SnapshotIsAssessed ==
  \A v \in Vendors : snapAt[v] # Never => mapped[v]

\* The rows that belong together fit: links to the cache, snapshots to a mapping.
RowsFit == LinksAreCached /\ SnapshotIsAssessed

\* A pull of the full publication window is done only by a message from the
\* backfill queue, which is throttled with the reserve: the watermark that was
\* there when Beat routed the message is still there when a task reads it.
OnlyBackfillPullsAll ==
  \A w \in Workers :
    task[w].pc \in {"orgs", "vendors"} /\ ~task[w].msg.backfill
      => task[w].lastMod # Never

\* A vendor with a snapshot is linked to every CVE that was listed as known
\* exploited before the snapshot's time, incremental fetch or not: this is what
\* the second query of each fetch is for.
KevIsLinked ==
  \A v \in Vendors, c \in Cves :
    nvd[c].kev # Never /\ nvd[c].kev < snapAt[v] => c \in links[v]

\* Nobody has pulled the prefix beside the holder of its lock.
Undisturbed == spent.lapses = 0 /\ spent.clicks = 0

\* As long as tasks fit in their lock and nobody presses Sync, a change that NVD
\* made in a second some completed fetch asked for is in the cache, unless NVD
\* changed the CVE again: retries, crashes and overlapping dispatches lose nothing.
FetchedIsCached ==
  Undisturbed => \A c \in Cves : nvd[c].mod \in covered => cache[c] = nvd[c].mod

\* Under the same conditions the cache never goes back to an older version.
CacheNeverRegresses == [][Undisturbed' => \A c \in Cves : cache'[c] >= cache[c]]_vars

\* A failed fetch never downgrades a vendor: an assessed vendor stays assessed
\* and keeps its links until it is deleted.
NeverDowngraded ==
  [][\A v \in Vendors : place'[v] # "gone" =>
       /\ mapped[v] => mapped'[v]
       /\ links[v] \subseteq links'[v]
       /\ snapAt[v] # Never => snapAt'[v] # Never]_vars

\* A vendor that has never been scheduled gets its first scheduled sync, good or
\* failed, without anybody pressing Sync, or stops being one of this prefix.
NewVendorIsScheduled ==
  \A v \in Vendors :
    place[v] = "here" /\ nextSync[v] = Never ~> place[v] # "here" \/ nextSync[v] # Never

\* What the comment above the watermark update promises: no change is skipped,
\* every one made before the watermark is in the cache.
NothingSkipped ==
  \A c \in Cves :
    nvd[c].mod # Never /\ nvd[c].mod < watermark => cache[c] >= nvd[c].mod

\* What the module's docstring promises of the per-vendor finalize: a vendor
\* that has just been given its snapshot is linked to the refreshed cache.
LinkedToRefreshedCache ==
  [][\A v \in Vendors : snapAt'[v] # snapAt[v] /\ snapAt'[v] # Never =>
       \A c \in Cves : cache[c] # Never => c \in links'[v]]_vars

-----------------------------------------------------------------------------
(* The inductive strengthenings of the safety properties.                  *)

\* A task whose lock has not run out holds the lock.
LockInv == /\ lapsed \subseteq Running
           /\ \A w \in Running \ lapsed : lock = w

\* Once a message for the sync queue exists the watermark is set, and a task
\* of such a message has read it.
RouteInv ==
  /\ \A m \in queue : ~m.backfill => watermark # Never
  /\ \A w \in Workers : ~task[w].msg.backfill =>
       /\ watermark # Never
       /\ task[w].pc \in {"orgs", "vendors"} => task[w].lastMod # Never

\* The CVEs that NVD had listed as exploited before t.
KnownExploited(t) == {c \in Cves : nvd[c].kev # Never /\ nvd[c].kev < t}

\* v has its links for the payload, or is gone.
Has(v, payload) ==
  place[v] # "gone" => mapped[v] /\ Fetched(payload) \subseteq links[v]

TaskInv(t) ==
  /\ t.pc = "started" => t.fetch = "none"
  /\ t.pc \in {"orgs", "vendors"} /\ t.fetch = "ok" =>
       KnownExploited(t.syncNow) \subseteq Fetched(t.payload)
  /\ t.pc = "vendors" =>
       /\ t.ingest \subseteq t.finalize
       /\ t.fetch \in {"none", "recent"} => t.ingest = t.finalize
       /\ t.fetch = "ok" =>
            /\ t.ingest # t.finalize => Fetched(t.payload) \subseteq Fetched(cache)
            /\ \A v \in t.finalize \ t.ingest : Has(v, t.payload)

ClickInv ==
  /\ \A u, v \in click.vendors : u = v
  /\ click.pc \in {"fetched", "ingested"} =>
       KnownExploited(click.at) \subseteq Fetched(click.payload)
  /\ click.pc = "ingested" => \A v \in click.vendors : Has(v, click.payload)

ClockInv ==
  /\ \A c \in Cves : /\ nvd[c].kev # Never => nvd[c].pub # Never
                     /\ nvd[c].pub # Never => nvd[c].mod # Never
  /\ \A v \in Vendors : snapAt[v] <= now
  /\ \A w \in Workers : task[w].syncNow <= now
  /\ click.at <= now

DataInv ==
  /\ ClockInv
  /\ \A w \in Workers : TaskInv(task[w])
  /\ ClickInv
  /\ LinksAreCached
  /\ SnapshotIsAssessed
  /\ KevIsLinked

\* What a fetch brought is no older than the cache and no newer than NVD, has
\* every change of its window that NVD has not changed again, and is in the
\* cache from the first vendor's turn on.
FreshTask(t) ==
  t.pc \in {"orgs", "vendors"} =>
    /\ t.fetch \in {"recent", "ok"} => \A c \in Cves :
         /\ t.payload[c] # Never => cache[c] <= t.payload[c] /\ t.payload[c] <= nvd[c].mod
         /\ nvd[c].mod # Never /\ t.lastMod <= nvd[c].mod /\ nvd[c].mod < t.fetchEnd
              => t.payload[c] = nvd[c].mod
    /\ t.fetch = "ok" /\ (t.pc = "orgs" \/ t.ingest # t.finalize) =>
         \A c \in Fetched(t.payload) : cache[c] = t.payload[c]

\* What has been asked for is over: a change NVD makes from now on is in no window.
Dated ==
  /\ \A c \in Cves : /\ cache[c] <= nvd[c].mod /\ nvd[c].mod <= now
                     /\ nvd[c].pub <= nvd[c].mod
                     /\ nvd[c].pub = Never => nvd[c].mod = Never
  /\ \A s \in covered : s < now
  /\ \A w \in Workers : task[w].fetchEnd <= now

\* While nothing disturbs it the task with the lock is the only writer of the cache.
FreshInv ==
  Undisturbed =>
    /\ click.pc = "idle" /\ lapsed = {}
    /\ Dated
    /\ \A w \in Workers : FreshTask(task[w])
    /\ FetchedIsCached
=============================================================================
