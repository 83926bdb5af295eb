----------------------------- MODULE ExportJobs -----------------------------
(***************************************************************************)
(* Portfolio exports as background jobs: the API counts the active jobs,   *)
(* stores a row and sends a message; a worker claims the row, renders the  *)
(* file into object storage and completes the row; Beat's purge deletes    *)
(* files past retention and fails jobs that were left behind; deleting an  *)
(* organisation takes its rows along.                                      *)
(*                                                                         *)
(* One database transaction, or one call to the broker or to the object    *)
(* store, is one action.  There is no clock: what the code compares with   *)
(* the time is a flag that the passing of time raises.                     *)
(***************************************************************************)
EXTENDS Integers, FiniteSets

CONSTANTS
  Jobs, Orgs, Clients, Workers, Purgers,
  OrgOf,        \* the organisation a job belongs to
  Cap,          \* export_max_active_per_org
  Timely,       \* TRUE when every delivery of a job ends before the job is
                \* stale, and a dispatch that failed has sent nothing
  NoJob,        \* no job in hand
  Doomed,       \* bound: the organisations that may be deleted
  MaxFaults     \* bound: crashes, outages and redeliveries in a behaviour

ASSUME CapAssumption == Cap \in Nat \ {0} /\ MaxFaults \in Nat
ASSUME OwnerAssumption == OrgOf \in [Jobs -> Orgs] /\ NoJob \notin Jobs
ASSUME TimelyAssumption == Timely \in BOOLEAN
ASSUME FiniteAssumption == IsFiniteSet(Jobs) /\ IsFiniteSet(Clients)

VARIABLES
  orgs,       \* the organisations that exist
  status,     \* export_jobs.status; "none" before the row, "deleted" after it
  error,      \* whether export_jobs.error holds a text
  objectKey,  \* export_jobs.object_key: the file's, or NoKey
  stale,      \* created_at is longer ago than export_stale_after_minutes
  past,       \* expires_at has passed
  broker,     \* the run_export messages waiting
  objects,    \* the files in object storage
  request,    \* the POST each client has in flight
  work,       \* the run_job each worker is in
  purge,      \* the purge run of each purger
  claims,     \* history: how often a job was claimed
  faults      \* faults used up (bound only)

rows == <<status, error, objectKey, stale, past>>
vars == <<orgs, status, error, objectKey, stale, past, broker, objects,
          request, work, purge, claims, faults>>

\* The random segment of an object key makes each rendering's key its own.
Keys == Jobs \X Nat
NoKey == <<NoJob, 0>>
KeyOf(j) == <<j, claims[j]>>

Statuses == {"none", "queued", "running", "succeeded", "failed", "expired", "deleted"}
ACTIVE == {"queued", "running"}
Active(o) == {j \in Jobs : OrgOf[j] = o /\ status[j] \in ACTIVE}

NoRequest == [pc |-> "idle", org |-> NoJob, job |-> NoJob]
NoWork == [pc |-> "idle", job |-> NoJob]
NoPurge == [pc |-> "idle", todo |-> {}, done |-> {}, stuck |-> {}]

Init ==
  /\ orgs = Orgs
  /\ status = [j \in Jobs |-> "none"]
  /\ error = [j \in Jobs |-> FALSE]
  /\ objectKey = [j \in Jobs |-> NoKey]
  /\ stale = [j \in Jobs |-> FALSE]
  /\ past = [j \in Jobs |-> FALSE]
  /\ broker = {}
  /\ objects = {}
  /\ request = [c \in Clients |-> NoRequest]
  /\ work = [w \in Workers |-> NoWork]
  /\ purge = [p \in Purgers |-> NoPurge]
  /\ claims = [j \in Jobs |-> 0]
  /\ faults = 0

Fault == faults < MaxFaults /\ faults' = faults + 1

\* Mutant of FailActive: a status that the enumeration does not have.
FailStuck(J) ==
  LET failing == {j \in J : status[j] \in ACTIVE}
  IN /\ status' = [j \in Jobs |-> IF j \in failing THEN "stuck" ELSE status[j]]
     /\ error' = [j \in Jobs |-> IF j \in failing THEN TRUE ELSE error[j]]

\* mark_failed: an UPDATE of the rows of J that are active.
FailActive(J) ==
  LET failing == {j \in J : status[j] \in ACTIVE}
  IN /\ status' = [j \in Jobs |-> IF j \in failing THEN "failed" ELSE status[j]]
     /\ error' = [j \in Jobs |-> IF j \in failing THEN TRUE ELSE error[j]]

-----------------------------------------------------------------------------
(* POST /exports.                                                          *)

SetRequest(c, r) == request' = [request EXCEPT ![c] = r]

\* Mutant of UnderCap: one more than the limit.
UpToCap(o) == Cardinality(Active(o)) <= Cap

UnderCap(o) == Cardinality(Active(o)) < Cap

CountActive(c, o) ==
  /\ request[c].pc = "idle"
  /\ o \in orgs
  /\ UnderCap(o)
  /\ SetRequest(c, [pc |-> "counted", org |-> o, job |-> NoJob])
  /\ UNCHANGED <<orgs, rows, broker, objects, work, purge, claims, faults>>

InsertJob(c, j) ==
  /\ request[c].pc = "counted"
  /\ request[c].org = OrgOf[j]
  /\ OrgOf[j] \in orgs
  /\ status[j] = "none"
  /\ status' = [status EXCEPT ![j] = "queued"]
  /\ SetRequest(c, [request[c] EXCEPT !.pc = "inserted", !.job = j])
  /\ UNCHANGED <<orgs, error, objectKey, stale, past, broker, objects, work,
                 purge, claims, faults>>

\* The organisation is gone: the foreign key of the job, or of the audit entry
\* that is written before the dispatch, fails.
RequestRefused(c) ==
  /\ request[c].pc \in {"counted", "inserted"}
  /\ request[c].org \notin orgs
  /\ SetRequest(c, NoRequest)
  /\ UNCHANGED <<orgs, rows, broker, objects, work, purge, claims, faults>>

Dispatch(c) ==
  /\ request[c].pc = "inserted"
  /\ broker' = broker \cup {request[c].job}
  /\ SetRequest(c, NoRequest)
  /\ UNCHANGED <<orgs, rows, objects, work, purge, claims, faults>>

\* The broker cannot be reached, or breaks off after it took the message.
DispatchFails(c) ==
  /\ request[c].pc = "inserted"
  /\ Fault
  /\ \/ broker' = broker
     \/ ~Timely /\ broker' = broker \cup {request[c].job}
  /\ SetRequest(c, [request[c] EXCEPT !.pc = "undelivered"])
  /\ UNCHANGED <<orgs, rows, objects, work, purge, claims>>

MarkUndelivered(c) ==
  /\ request[c].pc = "undelivered"
  /\ FailActive({request[c].job})
  /\ SetRequest(c, NoRequest)
  /\ UNCHANGED <<orgs, objectKey, stale, past, broker, objects, work, purge,
                 claims, faults>>

\* The API process dies under the request.
RequestDies(c) ==
  /\ request[c].pc # "idle"
  /\ Fault
  /\ SetRequest(c, NoRequest)
  /\ UNCHANGED <<orgs, rows, broker, objects, work, purge, claims>>

-----------------------------------------------------------------------------
(* A worker and its run_export task.                                       *)

SetWork(w, t) == work' = [work EXCEPT ![w] = t]

\* Mutants of Claimable: the claim does not look at the status, or takes every
\* job that is active.
AnyRow(j) == status[j] \notin {"none", "deleted"}
ActiveRow(j) == status[j] \in ACTIVE

\* The WHERE clause of the claim.
Claimable(j) == status[j] = "queued"

Claim(w, j) ==
  /\ work[w].pc = "idle"
  /\ j \in broker
  /\ broker' = broker \ {j}
  /\ Claimable(j)
  /\ status' = [status EXCEPT ![j] = "running"]
  /\ claims' = [claims EXCEPT ![j] = @ + 1]
  /\ SetWork(w, [pc |-> "claimed", job |-> j])
  /\ UNCHANGED <<orgs, error, objectKey, stale, past, objects, request, purge, faults>>

\* Another delivery has claimed the job, or it is over: nothing is touched.
Discard(w, j) ==
  /\ work[w].pc = "idle"
  /\ j \in broker
  /\ broker' = broker \ {j}
  /\ ~Claimable(j)
  /\ UNCHANGED <<orgs, rows, objects, request, work, purge, claims, faults>>

\* The row is read back after the claim's commit ...
LoadJob(w) ==
  /\ work[w].pc = "claimed"
  /\ SetWork(w, IF status[work[w].job] = "deleted" THEN NoWork
                ELSE [work[w] EXCEPT !.pc = "loaded"])
  /\ UNCHANGED <<orgs, rows, broker, objects, request, purge, claims, faults>>

\* ... and the organisation by a second query, which sees its own snapshot.
LoadOrg(w) ==
  /\ work[w].pc = "loaded"
  /\ SetWork(w, [work[w] EXCEPT !.pc = IF OrgOf[work[w].job] \in orgs
                                       THEN "rendering" ELSE "noOrg"])
  /\ UNCHANGED <<orgs, rows, broker, objects, request, purge, claims, faults>>

\* AssertionError: the task fails and leaves everything as it is.
AssertFails(w) ==
  /\ work[w].pc = "noOrg"
  /\ SetWork(w, NoWork)
  /\ UNCHANGED <<orgs, rows, broker, objects, request, purge, claims, faults>>

Put(w) ==
  /\ work[w].pc = "rendering"
  /\ objects' = objects \cup {KeyOf(work[w].job)}
  /\ SetWork(w, [work[w] EXCEPT !.pc = "stored"])
  /\ UNCHANGED <<orgs, rows, broker, request, purge, claims, faults>>

RenderFails(w) ==
  /\ work[w].pc = "rendering"
  /\ SetWork(w, [work[w] EXCEPT !.pc = "failing"])
  /\ UNCHANGED <<orgs, rows, broker, objects, request, purge, claims, faults>>

\* The store took the file, but its answer was lost.
PutUnsure(w) ==
  /\ work[w].pc = "rendering"
  /\ Fault
  /\ objects' = objects \cup {KeyOf(work[w].job)}
  /\ SetWork(w, [work[w] EXCEPT !.pc = "failing"])
  /\ UNCHANGED <<orgs, rows, broker, request, purge, claims>>

MarkFailed(w) ==
  /\ work[w].pc = "failing"
  /\ FailActive({work[w].job})
  /\ SetWork(w, NoWork)
  /\ UNCHANGED <<orgs, objectKey, stale, past, broker, objects, request, purge,
                 claims, faults>>

\* The UPDATE by primary key, whatever the status has become meanwhile, except
\* that a row that is gone raises StaleDataError.
Complete(w) ==
  LET j == work[w].job
  IN /\ work[w].pc = "stored"
     /\ IF status[j] = "deleted" THEN UNCHANGED <<status, objectKey, past>>
        ELSE /\ status' = [status EXCEPT ![j] = "succeeded"]
             /\ objectKey' = [objectKey EXCEPT ![j] = KeyOf(j)]
             /\ past' = [past EXCEPT ![j] = FALSE]
     /\ SetWork(w, NoWork)
     /\ UNCHANGED <<orgs, error, stale, broker, objects, request, purge, claims, faults>>

\* acks_late: the message of a lost worker may be delivered again.
WorkerCrash(w) ==
  /\ work[w].pc # "idle"
  /\ Fault
  /\ \E redelivered \in BOOLEAN :
       broker' = IF redelivered THEN broker \cup {work[w].job} ELSE broker
  /\ SetWork(w, NoWork)
  /\ UNCHANGED <<orgs, rows, objects, request, purge, claims>>

\* The broker's visibility timeout ends under a task: a second delivery.
Redeliver(w) ==
  /\ work[w].pc # "idle"
  /\ Fault
  /\ broker' = broker \cup {work[w].job}
  /\ UNCHANGED <<orgs, rows, objects, request, work, purge, claims>>

-----------------------------------------------------------------------------
(* Beat's purge_exports.                                                   *)

SetPurge(p, r) == purge' = [purge EXCEPT ![p] = r]

\* Mutant of Overdue: every file that is ready.
AnyReady == {j \in Jobs : status[j] = "succeeded"}

\* The rows whose file is to be deleted.
Overdue == {j \in Jobs : status[j] = "succeeded" /\ past[j]}

\* The clock is read once, so what gets stale later waits for the next run.
PurgeStart(p) ==
  /\ purge[p].pc = "idle"
  /\ SetPurge(p, [pc |-> "deleting", todo |-> {objectKey[j] : j \in Overdue},
                  done |-> {}, stuck |-> {j \in Jobs : stale[j]}])
  /\ UNCHANGED <<orgs, rows, broker, objects, request, work, claims, faults>>

PurgeDelete(p, k) ==
  /\ purge[p].pc = "deleting"
  /\ k \in purge[p].todo
  /\ objects' = objects \ {k}
  /\ SetPurge(p, [purge[p] EXCEPT !.todo = @ \ {k}, !.done = @ \cup {k}])
  /\ UNCHANGED <<orgs, rows, broker, request, work, claims, faults>>

\* The row stays succeeded, for the next run.
PurgeDeleteFails(p, k) ==
  /\ purge[p].pc = "deleting"
  /\ k \in purge[p].todo
  /\ Fault
  /\ SetPurge(p, [purge[p] EXCEPT !.todo = @ \ {k}])
  /\ UNCHANGED <<orgs, rows, broker, objects, request, work, claims>>

\* Mutant of Purged: what could not be deleted is expired as well.
AllOverdue(p) == Overdue

\* The rows whose file this run has deleted.
Purged(p) == {j \in Jobs : \E k \in purge[p].done : k[1] = j}

\* Mutant of LeftBehind: only what a worker had claimed.
ClaimedOnly(p) == {j \in purge[p].stuck : status[j] = "running"}

\* The active rows that were stale when this run began.
LeftBehind(p) == {j \in purge[p].stuck : status[j] \in ACTIVE}

\* One commit: the deleted files' rows expire, and what was left behind fails.
PurgeCommit(p) ==
  LET failing == LeftBehind(p)
      expired == {j \in Purged(p) : status[j] # "deleted"}
  IN /\ purge[p].pc = "deleting"
     /\ purge[p].todo = {}
     /\ status' = [j \in Jobs |-> IF j \in expired THEN "expired"
                                  ELSE IF j \in failing THEN "failed" ELSE status[j]]
     /\ error' = [j \in Jobs |-> IF j \in failing THEN TRUE ELSE error[j]]
     /\ objectKey' = [j \in Jobs |-> IF j \in expired THEN NoKey ELSE objectKey[j]]
     /\ SetPurge(p, NoPurge)
     /\ UNCHANGED <<orgs, stale, past, broker, objects, request, work, claims, faults>>

\* StaleDataError: the row of a deleted file went with its organisation.  With
\* several rows in one statement the driver may not report it.
PurgeAborts(p) ==
  /\ purge[p].pc = "deleting"
  /\ purge[p].todo = {}
  /\ \E j \in Purged(p) : status[j] = "deleted"
  /\ SetPurge(p, NoPurge)
  /\ UNCHANGED <<orgs, rows, broker, objects, request, work, claims, faults>>

PurgeCrash(p) ==
  /\ purge[p].pc = "deleting"
  /\ Fault
  /\ SetPurge(p, NoPurge)
  /\ UNCHANGED <<orgs, rows, broker, objects, request, work, claims>>

-----------------------------------------------------------------------------
(* Time passes, and organisations are deleted.                             *)

InHand(j) == \/ j \in broker
             \/ \E w \in Workers : work[w].job = j
             \/ \E c \in Clients : request[c].job = j

GrowStale(j) ==
  /\ status[j] \in ACTIVE
  /\ ~stale[j]
  /\ Timely => ~InHand(j)
  /\ stale' = [stale EXCEPT ![j] = TRUE]
  /\ UNCHANGED <<orgs, status, error, objectKey, past, broker, objects, request,
                 work, purge, claims, faults>>

OutlastRetention(j) ==
  /\ status[j] = "succeeded"
  /\ ~past[j]
  /\ past' = [past EXCEPT ![j] = TRUE]
  /\ UNCHANGED <<orgs, status, error, objectKey, stale, broker, objects, request,
                 work, purge, claims, faults>>

\* The rows go with the organisation, by cascade; the files stay.
DeleteOrg(o) ==
  LET owned == {j \in Jobs : OrgOf[j] = o /\ status[j] # "none"}
  IN /\ o \in orgs \cap Doomed
     /\ orgs' = orgs \ {o}
     /\ status' = [j \in Jobs |-> IF j \in owned THEN "deleted" ELSE status[j]]
     /\ objectKey' = [j \in Jobs |-> IF j \in owned THEN NoKey ELSE objectKey[j]]
     /\ UNCHANGED <<error, stale, past, broker, objects, request, work, purge,
                    claims, faults>>

-----------------------------------------------------------------------------
RequestStep(c) ==
  \/ \E j \in Jobs : InsertJob(c, j)
  \/ RequestRefused(c)
  \/ Dispatch(c)
  \/ MarkUndelivered(c)

WorkerStep(w) ==
  \/ \E j \in broker : Claim(w, j) \/ Discard(w, j)
  \/ LoadJob(w) \/ LoadOrg(w) \/ AssertFails(w)
  \/ Put(w) \/ RenderFails(w) \/ MarkFailed(w)
  \/ Complete(w)

PurgeStep(p) ==
  \/ PurgeStart(p)
  \/ \E k \in purge[p].todo : PurgeDelete(p, k)
  \/ PurgeCommit(p)
  \/ PurgeAborts(p)

Faults ==
  \/ \E c \in Clients : DispatchFails(c) \/ RequestDies(c)
  \/ \E w \in Workers : PutUnsure(w) \/ WorkerCrash(w) \/ Redeliver(w)
  \/ \E p \in Purgers : PurgeCrash(p) \/ \E k \in purge[p].todo : PurgeDeleteFails(p, k)

Time == \E j \in Jobs : GrowStale(j) \/ OutlastRetention(j)

Next ==
  \/ \E c \in Clients : RequestStep(c) \/ \E o \in Orgs : CountActive(c, o)
  \/ \E w \in Workers : WorkerStep(w)
  \/ \E p \in Purgers : PurgeStep(p)
  \/ Faults
  \/ Time
  \/ \E o \in Orgs : DeleteOrg(o)

Spec == Init /\ [][Next]_vars

\* A request that was made and a task that was delivered run on, Beat starts
\* the purge again and again, and time passes.  Nobody has to ask for exports.
Fairness ==
  /\ \A c \in Clients : WF_vars(RequestStep(c))
  /\ \A w \in Workers : WF_vars(WorkerStep(w))
  /\ \A p \in Purgers : WF_vars(PurgeStep(p))
  /\ \A j \in Jobs : WF_vars(GrowStale(j)) /\ WF_vars(OutlastRetention(j))

FairSpec == Spec /\ Fairness
-----------------------------------------------------------------------------
(* Properties.                                                             *)

\* Every variable has its type.
TypeOK ==
  /\ orgs \subseteq Orgs
  /\ status \in [Jobs -> Statuses]
  /\ error \in [Jobs -> BOOLEAN]
  /\ objectKey \in [Jobs -> Keys \cup {NoKey}]
  /\ stale \in [Jobs -> BOOLEAN]
  /\ past \in [Jobs -> BOOLEAN]
  /\ broker \subseteq Jobs
  /\ objects \subseteq Keys
  /\ request \in [Clients -> [pc : {"idle", "counted", "inserted", "undelivered"},
                              org : Orgs \cup {NoJob}, job : Jobs \cup {NoJob}]]
  /\ work \in [Workers -> [pc : {"idle", "claimed", "loaded", "noOrg", "rendering",
                                 "stored", "failing"}, job : Jobs \cup {NoJob}]]
  /\ purge \in [Purgers -> [pc : {"idle", "deleting"}, todo : SUBSET Keys,
                            done : SUBSET Keys, stuck : SUBSET Jobs]]
  /\ claims \in [Jobs -> Nat]
  /\ faults \in Nat

\* run_job is "safe to deliver twice": however often the message arrives, a job
\* has one worker at most and one file at most, for ever.
RenderedOnce ==
  /\ \A v, w \in Workers : work[v].job = work[w].job /\ work[v].job # NoJob => v = w
  /\ \A k, l \in objects : k[1] = l[1] => k = l

\* What signed_download_url accepts.
Downloadable(j) == status[j] = "succeeded" /\ ~past[j]

\* A link is only ever signed for a file that is there: the row is completed
\* after the file was stored, and no purge deletes a file within its retention.
ReadyHasFile == \A j \in Jobs : Downloadable(j) => objectKey[j] \in objects

\* "retention elapsed; the stored file has been deleted": the file of an expired
\* row is gone, also when purges overlap, fail half way or are cut off.
ExpiredIsGone == \A j \in Jobs, k \in objects : k[1] = j => status[j] # "expired"

\* The cap is soft: requests that count at the same time can pass it, but by no
\* more than the requests in flight less one.
SoftCap == \A o \in Orgs : Cardinality(Active(o)) < Cap + Cardinality(Clients)

\* A job that was given up stays failed, so that the tab that stopped waiting
\* for it has missed nothing: while deliveries are timely.
FailedIsFinal ==
  [][\A j \in Jobs : status[j] = "failed" => status'[j] \in {"failed", "deleted"}]_vars

\* Every requested export gets ready or fails in the end, whichever of the API
\* process, the message, the worker and the purge is lost on the way.
EveryJobSettles == \A j \in Jobs : status[j] = "queued" ~> status[j] \notin ACTIVE

\* The file of a row past its retention is deleted in the end, also when the
\* store fails or the purge is cut off, unless the organisation was deleted.
RetentionIsKept ==
  \A j \in Jobs : status[j] = "succeeded" /\ past[j]
    ~> status[j] = "deleted" \/ \A k \in objects : k[1] # j

\* What the README promises of the files: each one is deleted after its time.
EveryFileIsDeleted == \A j \in Jobs : (\E k \in objects : k[1] = j) ~> (\A k \in objects : k[1] # j)

-----------------------------------------------------------------------------
(* The refinement: what the organisation sees of a job.                    *)

ViewOf(j) ==
  CASE status[j] \in ACTIVE -> "preparing"
    [] status[j] = "succeeded" -> IF past[j] THEN "over"
                                  ELSE IF objectKey[j] \in objects THEN "ready" ELSE "broken"
    [] status[j] = "expired" -> "over"
    [] OTHER -> status[j]

Lifecycle == INSTANCE ExportLifecycle WITH
  view <- [j \in Jobs |-> ViewOf(j)], LateFinishes <- ~Timely

\* Jobs, workers, redeliveries and purges implement the life cycle promised.
LifecycleRefined == Lifecycle!Spec
-----------------------------------------------------------------------------
(* The inductive strengthenings.                                           *)

Held(j) == \E w \in Workers : work[w].job = j

\* Only a job that was claimed, once, has a worker or a file.
ClaimInv ==
  /\ \A w \in Workers : (work[w].pc = "idle") <=> (work[w].job = NoJob)
  /\ \A v, w \in Workers : work[v].job = work[w].job /\ work[v].job # NoJob => v = w
  /\ \A j \in Jobs : Held(j) => claims[j] = 1 /\ status[j] \in {"running", "failed", "deleted"}
  /\ \A j \in Jobs : claims[j] <= 1 /\ (status[j] \in {"none", "queued"} => claims[j] = 0)
  /\ \A k \in objects : claims[k[1]] = 1 /\ k = KeyOf(k[1])

\* A key that a purge has in hand is that of a job past its retention, which no
\* worker will touch again.
Retired(k) ==
  /\ k \in Keys
  /\ k = KeyOf(k[1])
  /\ claims[k[1]] = 1
  /\ past[k[1]]
  /\ status[k[1]] \in {"succeeded", "expired", "deleted"}
  /\ ~Held(k[1])

FileInv ==
  /\ \A w \in Workers : work[w].pc = "stored" => KeyOf(work[w].job) \in objects
  /\ \A j \in Jobs : status[j] = "succeeded" => objectKey[j] = KeyOf(j) /\ claims[j] = 1
  /\ \A p \in Purgers : /\ \A k \in purge[p].todo \cup purge[p].done : Retired(k)
                          /\ purge[p].done \cap objects = {}
  /\ ReadyHasFile
  /\ ExpiredIsGone

\* While deliveries are timely nothing that is stale is in hand, and a job whose
\* request is not over has not been delivered.
Undelivered(c, j) ==
  /\ j \notin broker
  /\ ~Held(j)
  /\ \A d \in Clients : request[d].job = j => d = c

TimelyInv ==
  /\ \A j \in broker : status[j] # "none"
  /\ \A c \in Clients : (request[c].pc \in {"idle", "counted"}) <=> (request[c].job = NoJob)
  /\ \A c \in Clients, j \in Jobs : request[c].job = j => status[j] # "none" /\ Undelivered(c, j)
  /\ \A j \in Jobs : stale[j] => ~InHand(j) /\ status[j] # "none"
  /\ \A p \in Purgers : \A j \in purge[p].stuck : stale[j]
  /\ \A j \in Jobs : status[j] = "failed" => ~Held(j)

\* The requests that have counted and not inserted.
Counted(o) == {c \in Clients : request[c].pc = "counted" /\ request[c].org = o}

CapInv == \A o \in Orgs : Cardinality(Active(o)) + Cardinality(Counted(o)) < Cap + Cardinality(Clients)

SafeInv == ClaimInv /\ FileInv
TimelySafe == Timely => TimelyInv
=============================================================================
