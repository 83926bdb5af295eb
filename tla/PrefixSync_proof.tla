-------------------------- MODULE PrefixSync_proof --------------------------
(* Theorems about PrefixSync, for every value of its constants.            *)
EXTENDS PrefixSync, TLAPS

LEMMA ClockLemma == /\ 0 \in Seconds /\ MaxTime \in Nat /\ Seconds \subseteq Nat
                    /\ Stamps \subseteq Int /\ Never \in Stamps /\ Seconds \subseteq Stamps
                    /\ MaxRetries \in Nat
  BY TimeAssumption DEF Seconds, Stamps, Never

LEMMA LaterLemma == ASSUME NEW t \in Seconds, NEW v \in Vendors
                    PROVE Later(t, Cadence[v]) \in Seconds
  BY TimeAssumption, OwnerAssumption DEF Seconds, Later, Soonest

LEMMA NoCvesLemma == NoCves \in Payload
  BY ClockLemma DEF NoCves, Payload

LEMMA IdleLemma == Idle \in Task
  BY ClockLemma, NoCvesLemma DEF Idle, IdleMessage, Task, Message

LEMMA RecentLemma ==
  ASSUME TypeOK, NEW lastMod \in Stamps, NEW end \in Seconds
  PROVE Recent(lastMod, end) \in Payload
  BY ClockLemma DEF Recent, Payload, TypeOK

LEMMA WithKevLemma == ASSUME TypeOK, NEW p \in Payload PROVE WithKev(p) \in Payload
  BY ClockLemma DEF WithKev, Payload, TypeOK

LEMMA MergeLemma == ASSUME TypeOK, NEW p \in Payload PROVE MergeCves(p) \in Payload
  BY ClockLemma DEF MergeCves, Payload, TypeOK

LEMMA TaskType ==
  ASSUME TypeOK, NEW w \in Workers, NEW t \in Task, SetTask(w, t)
  PROVE  task' \in [Workers -> Task]
  BY DEF SetTask, TypeOK

LEMMA RetryType ==
  ASSUME TypeOK, NEW w \in Workers, Retry(w)
  PROVE  /\ queue' \subseteq Message /\ lock' \in Workers \cup {NoOne}
         /\ task' \in [Workers -> Task] /\ lapsed' \subseteq Workers
<1>1. task[w].msg \in Message
  BY DEF TypeOK, Task
<1>2. task[w].msg.tries < MaxRetries =>
        [task[w].msg EXCEPT !.tries = @ + 1] \in Message
  BY <1>1, ClockLemma DEF Message
<1>3. task' \in [Workers -> Task]
  BY TaskType, IdleLemma DEF Retry, EndTask
<1> QED
  BY <1>2, <1>3 DEF TypeOK, Retry, Release, EndTask

LEMMA TypeInit == Init => TypeOK
<1> SUFFICES ASSUME Init PROVE TypeOK
  OBVIOUS
<1> USE ClockLemma, NoCvesLemma, IdleLemma DEF Init
<1>1. now \in Seconds /\ watermark \in Stamps /\ cache \in Payload
  OBVIOUS
<1>2. nvd \in [Cves -> [pub : Stamps, mod : Stamps, kev : Stamps]]
  OBVIOUS
<1>3. place \in [Vendors -> {"none", "here", "noCpe", "gone"}]
  OBVIOUS
<1>4. /\ nextSync \in [Vendors -> Stamps] /\ snapAt \in [Vendors -> Stamps]
      /\ mapped \in [Vendors -> BOOLEAN] /\ links \in [Vendors -> SUBSET Cves]
  OBVIOUS
<1>5. queue \subseteq Message /\ lock \in Workers \cup {NoOne} /\ task \in [Workers -> Task]
  OBVIOUS
<1>6. click \in [pc : {"idle", "started", "recent", "fetched", "ingested"},
                 vendors : SUBSET Vendors, at : Seconds, payload : Payload]
  BY DEF NoClick
<1>7. spent \in [faults : Nat, edits : Nat, clicks : Nat, lapses : Nat]
  OBVIOUS
<1> QED
  BY <1>1, <1>2, <1>3, <1>4, <1>5, <1>6, <1>7 DEF TypeOK

LEMMA TypeNext == TypeOK /\ [Next]_vars => TypeOK'
<1> SUFFICES ASSUME TypeOK, [Next]_vars PROVE TypeOK'
  OBVIOUS
<1> USE ClockLemma, NoCvesLemma, IdleLemma
<1> USE DEF TypeOK, dbVars, vendorVars, workVars
<1>1. CASE World
  <2>1. CASE Tick
    BY <2>1, TimeAssumption DEF Tick, Seconds
  <2>2. ASSUME NEW c \in Cves, NvdPublish(c) PROVE TypeOK'
    <3>1. nvd' \in [Cves -> [pub : Stamps, mod : Stamps, kev : Stamps]]
      BY <2>2 DEF NvdPublish
    <3>2. UNCHANGED <<now, dbVars, workVars, click, spent, covered>>
      BY <2>2 DEF NvdPublish
    <3> QED
      BY <3>1, <3>2
  <2>3. ASSUME NEW c \in Cves, NvdModify(c) PROVE TypeOK'
    <3>1. PICK k \in Stamps :
            nvd' = [nvd EXCEPT ![c] = [nvd[c] EXCEPT !.mod = now, !.kev = k]]
      BY <2>3 DEF NvdModify
    <3>2. [nvd[c] EXCEPT !.mod = now, !.kev = k]
            \in [pub : Stamps, mod : Stamps, kev : Stamps]
      <4>1. nvd[c] \in [pub : Stamps, mod : Stamps, kev : Stamps] /\ now \in Stamps
        OBVIOUS
      <4> HIDE DEF TypeOK
      <4> QED
        BY <4>1
    <3>3. nvd' \in [Cves -> [pub : Stamps, mod : Stamps, kev : Stamps]]
      BY <3>1, <3>2
    <3>4. UNCHANGED <<now, dbVars, workVars, click, spent, covered>>
      BY <2>3 DEF NvdModify
    <3> QED
      BY <3>3, <3>4
  <2> QED
    BY <1>1, <2>1, <2>2, <2>3 DEF World
<1>2. CASE DispatchDue
  <2>1. [at |-> now, vendors |-> DueVendors, backfill |-> IsBackfill,
         tries |-> 0] \in Message
    BY DEF DueVendors, IsBackfill, Message
  <2> QED
    BY <1>2, <2>1 DEF DispatchDue
<1>3. ASSUME NEW w \in Workers, WorkerStep(w) PROVE TypeOK'
  <2>a. task[w] \in Task
    OBVIOUS
  <2>1. ASSUME NEW m \in queue, StartTask(w, m) PROVE TypeOK'
    <3>1. [Idle EXCEPT !.pc = "started", !.msg = m, !.fetchEnd = now] \in Task
      BY <2>1 DEF StartTask, Task, Idle
    <3>2. task' \in [Workers -> Task]
      BY <2>1, <3>1, TaskType DEF StartTask
    <3> QED
      BY <2>1, <3>2 DEF StartTask
  <2>2. ASSUME NEW m \in queue, SkipTask(w, m) PROVE TypeOK'
    BY <2>2 DEF SkipTask
  <2>3. CASE BeginSync(w)
    <3>1. [task[w] EXCEPT !.pc = "orgs", !.syncNow = now,
            !.lastMod = watermark, !.rest = task[w].msg.vendors] \in Task
      BY <2>3, <2>a DEF BeginSync, Task, Message
    <3>2. task' \in [Workers -> Task]
      BY <2>3, <3>1, TaskType DEF BeginSync
    <3> QED
      BY <2>3, <3>2 DEF BeginSync
  <2>4. ASSUME NEW o \in Orgs, NextOrg(w, o) PROVE TypeOK'
    <3> DEFINE group == {v \in task[w].rest : OrgOf[v] = o}
               found == {v \in group : Present(v)}
    <3>1. [task[w] EXCEPT !.pc = IF found = {} THEN "orgs" ELSE "vendors",
            !.ingest = found, !.finalize = found, !.rest = @ \ group] \in Task
      BY <2>4, <2>a DEF NextOrg, Task
    <3>2. task' \in [Workers -> Task]
      BY <2>4, <3>1, TaskType DEF NextOrg
    <3> QED
      BY <2>4, <3>2 DEF NextOrg
  <2>5. CASE FetchRecent(w)
    <3>1. Recent(task[w].lastMod, task[w].fetchEnd) \in Payload
      BY <2>a, RecentLemma DEF Task
    <3>2. [task[w] EXCEPT !.fetch = "recent", !.payload = Recent(task[w].lastMod, task[w].fetchEnd)] \in Task
      BY <2>a, <3>1 DEF Task
    <3>3. task' \in [Workers -> Task]
      BY <2>5, <3>2, TaskType DEF FetchRecent
    <3> QED
      BY <2>5, <3>3 DEF FetchRecent
  <2>6. CASE FetchKev(w)
    <3>1. WithKev(task[w].payload) \in Payload
      BY <2>a, WithKevLemma DEF Task
    <3>2. [task[w] EXCEPT !.fetch = "ok", !.payload = WithKev(task[w].payload)] \in Task
      BY <2>a, <3>1 DEF Task
    <3>3. task' \in [Workers -> Task]
      BY <2>6, <3>2, TaskType DEF FetchKev
    <3> QED
      BY <2>6, <3>3 DEF FetchKev
  <2>7. CASE FetchFails(w)
    <3>1. NoCves \in Payload
      BY <2>a, NoCvesLemma DEF Task
    <3>2. [task[w] EXCEPT !.fetch = "failed", !.payload = NoCves] \in Task
      BY <2>a, <3>1 DEF Task
    <3>3. task' \in [Workers -> Task]
      BY <2>7, <3>2, TaskType DEF FetchFails
    <3> QED
      BY <2>7, <3>3 DEF FetchFails
  <2>8. ASSUME NEW v \in Vendors, IngestVendor(w, v) PROVE TypeOK'
    <3>1. task[w].payload \in Payload
      BY <2>a DEF Task
    <3>2. cache' \in Payload
      BY <2>8, <3>1, MergeLemma DEF IngestVendor
    <3>3. [task[w] EXCEPT !.ingest = @ \ {v}] \in Task
      BY <2>a DEF Task
    <3>4. task' \in [Workers -> Task]
      BY <2>8, <3>3, TaskType DEF IngestVendor
    <3>5. mapped' \in [Vendors -> BOOLEAN] /\ links' \in [Vendors -> SUBSET Cves]
      BY <2>8 DEF IngestVendor, LinkVendor, Fetched
    <3> QED
      BY <2>8, <3>2, <3>4, <3>5 DEF IngestVendor
  <2>9. ASSUME NEW v \in Vendors, KeepVendor(w, v) PROVE TypeOK'
    <3>1. [task[w] EXCEPT !.ingest = @ \ {v}] \in Task
      BY <2>9, <2>a DEF KeepVendor, Task
    <3>2. task' \in [Workers -> Task]
      BY <2>9, <3>1, TaskType DEF KeepVendor
    <3> QED
      BY <2>9, <3>2 DEF KeepVendor
  <2>10. ASSUME NEW v \in Vendors, FinalizeVendor(w, v) PROVE TypeOK'
    <3>1. [task[w] EXCEPT !.finalize = @ \ {v},
            !.pc = IF task[w].finalize = {v} THEN "orgs" ELSE "vendors"] \in Task
      BY <2>a DEF Task
    <3>2. task' \in [Workers -> Task]
      BY <2>10, <3>1, TaskType DEF FinalizeVendor, Snapshot
    <3>3. task[w].syncNow \in Seconds
      BY <2>a DEF Task
    <3> QED
      BY <2>10, <3>2, <3>3, LaterLemma DEF FinalizeVendor, Snapshot
  <2>11. CASE AdvanceWatermark(w)
    <3>1. [Idle EXCEPT !.pc = "done", !.msg = task[w].msg] \in Task
      BY <2>a DEF Task
    <3>2. task' \in [Workers -> Task]
      BY <2>11, <3>1, TaskType DEF AdvanceWatermark
    <3>3. task[w].syncNow \in Stamps
      BY <2>a DEF Task
    <3> QED
      BY <2>11, <3>2, <3>3 DEF AdvanceWatermark
  <2>12. CASE ReleaseLock(w)
    <3>1. task' \in [Workers -> Task]
      BY <2>12, TaskType DEF ReleaseLock, EndTask
    <3> QED
      BY <2>12, <3>1 DEF ReleaseLock, Release, EndTask
  <2>13. CASE VendorGone(w)
    BY <2>13, RetryType DEF VendorGone
  <2> QED
    BY <1>3, <2>1, <2>2, <2>3, <2>4, <2>5, <2>6, <2>7, <2>8, <2>9, <2>10, <2>11,
       <2>12, <2>13 DEF WorkerStep
<1>4. ASSUME NEW w \in Workers, WorkerFault(w) PROVE TypeOK'
  <2>1. CASE TaskError(w)
    BY <2>1, RetryType DEF TaskError, Fault
  <2>2. CASE ReleaseFails(w)
    <3>1. task' \in [Workers -> Task]
      BY <2>2, TaskType DEF ReleaseFails, EndTask
    <3> QED
      BY <2>2, <3>1 DEF ReleaseFails, Fault, EndTask
  <2>3. CASE WorkerCrash(w)
    <3>1. queue' \subseteq Message
      BY <2>3 DEF WorkerCrash, Task
    <3>2. task' \in [Workers -> Task]
      BY <2>3, TaskType DEF WorkerCrash, EndTask
    <3> QED
      BY <2>3, <3>1, <3>2 DEF WorkerCrash, Fault, EndTask
  <2> QED
    BY <1>4, <2>1, <2>2, <2>3 DEF WorkerFault
<1>5. CASE ExpireLock
  BY <1>5 DEF ExpireLock, Running
<1>6. CASE Click
  <2>1. ASSUME NEW v \in Vendors, ClickSync(v) PROVE TypeOK'
    BY <2>1 DEF ClickSync
  <2>2. ASSUME NEW v \in Vendors, ClickIngest(v) PROVE TypeOK'
    <3>1. cache' \in Payload
      BY <2>2, MergeLemma DEF ClickIngest
    <3> QED
      BY <2>2, <3>1 DEF ClickIngest, LinkVendor, Fetched
  <2>3. ASSUME NEW v \in Vendors, ClickFinish(v) PROVE TypeOK'
    BY <2>3, LaterLemma DEF ClickFinish, NoClick
  <2>4. ASSUME NEW v \in Vendors, ClickFails(v) PROVE TypeOK'
    BY <2>4, LaterLemma DEF ClickFails, NoClick
  <2>5. CASE ClickRecent
    BY <2>5, RecentLemma DEF ClickRecent
  <2>6. CASE ClickKev
    BY <2>6, WithKevLemma DEF ClickKev
  <2>7. CASE ClickGone
    BY <2>7 DEF ClickGone, NoClick
  <2> QED
    BY <1>6, <2>1, <2>2, <2>3, <2>4, <2>5, <2>6, <2>7 DEF Click
<1>7. CASE VendorEdit
  <2>1. ASSUME NEW v \in Vendors, CreateVendor(v) PROVE TypeOK'
    BY <2>1 DEF CreateVendor, Edit
  <2>2. ASSUME NEW v \in Vendors, UpdateVendor(v) PROVE TypeOK'
    BY <2>2 DEF UpdateVendor, Edit
  <2>3. ASSUME NEW v \in Vendors, DeleteVendor(v) PROVE TypeOK'
    BY <2>3 DEF DeleteVendor, Edit
  <2> QED
    BY <1>7, <2>1, <2>2, <2>3 DEF VendorEdit
<1>8. CASE UNCHANGED vars
  BY <1>8 DEF vars
<1> QED
  BY <1>1, <1>2, <1>3, <1>4, <1>5, <1>6, <1>7, <1>8 DEF Next

\* Every variable keeps its type.
THEOREM TypeCorrect == Spec => []TypeOK
  BY TypeInit, TypeNext, PTL DEF Spec

-----------------------------------------------------------------------------
(* Mutual exclusion.                                                       *)

LEMMA LockFinish ==
  ASSUME TypeOK, LockInv, NEW w \in Running, EndTask(w),
         lock' = Release(w) \/ lock' = lock
  PROVE  LockInv'
<1>1. Running' = Running \ {w} /\ lapsed' = lapsed \ {w}
  BY DEF EndTask, SetTask, TypeOK, Running, Idle
<1>2. \A u \in Running' \ lapsed' : lock = u /\ u # w
  BY <1>1 DEF LockInv
<1> QED
  BY <1>1, <1>2 DEF LockInv, Release

LEMMA LockNext == TypeOK /\ LockInv /\ [Next]_vars => LockInv'
<1> SUFFICES ASSUME TypeOK, LockInv, [Next]_vars PROVE LockInv'
  OBVIOUS
<1>1. CASE UNCHANGED <<lock, task, lapsed>>
  BY <1>1 DEF LockInv, Running
<1>2. ASSUME NEW w \in Workers, WorkerStep(w) PROVE LockInv'
  <2>1. ASSUME NEW m \in queue, StartTask(w, m) PROVE LockInv'
    <3>1. lock = NoOne /\ lock' = w /\ lapsed' = lapsed /\ w \notin Running
      BY <2>1 DEF StartTask, Running
    <3>2. Running' = Running \cup {w}
      BY <2>1 DEF StartTask, SetTask, TypeOK, Running, Idle
    <3>3. Running \subseteq lapsed
      BY <3>1, LockAssumption DEF LockInv, Running
    <3> QED
      BY <3>1, <3>2, <3>3 DEF LockInv
  <2>2. ASSUME NEW m \in queue, SkipTask(w, m) PROVE LockInv'
    BY <2>2, <1>1 DEF SkipTask
  <2>3. ASSUME NEW t, task[w].pc # "idle", t.pc # "idle", SetTask(w, t),
               UNCHANGED <<lock, lapsed>>
        PROVE  LockInv'
    <3>1. Running' = Running
      BY <2>3 DEF SetTask, TypeOK, Running
    <3> QED
      BY <2>3, <3>1 DEF LockInv
  <2>4. CASE BeginSync(w)
    BY <2>3, <2>4 DEF BeginSync, TypeOK, Task
  <2>5. ASSUME NEW o \in Orgs, NextOrg(w, o) PROVE LockInv'
    BY <2>3, <2>5 DEF NextOrg, TypeOK, Task
  <2>6. CASE FetchRecent(w) \/ FetchKev(w) \/ FetchFails(w)
    BY <2>3, <2>6 DEF FetchRecent, FetchKev, FetchFails, TypeOK, Task
  <2>7. ASSUME NEW v \in Vendors,
               IngestVendor(w, v) \/ KeepVendor(w, v) \/ FinalizeVendor(w, v)
        PROVE  LockInv'
    BY <2>3, <2>7 DEF IngestVendor, KeepVendor, FinalizeVendor, TypeOK, Task
  <2>8. CASE AdvanceWatermark(w)
    BY <2>3, <2>8 DEF AdvanceWatermark, Idle
  <2>9. CASE ReleaseLock(w)
    BY <2>9, LockFinish DEF ReleaseLock, Running
  <2>10. CASE VendorGone(w)
    BY <2>10, LockFinish DEF VendorGone, Retry, Running
  <2> QED
    BY <1>2, <2>1, <2>2, <2>4, <2>5, <2>6, <2>7, <2>8, <2>9, <2>10 DEF WorkerStep
<1>3. ASSUME NEW w \in Workers, WorkerFault(w) PROVE LockInv'
  BY <1>3, LockFinish
     DEF WorkerFault, TaskError, ReleaseFails, WorkerCrash, Retry, Running
<1>4. CASE ExpireLock
  BY <1>4 DEF ExpireLock, LockInv, Running
<1>5. CASE World \/ DispatchDue
  BY <1>1, <1>5 DEF World, DispatchDue, Tick, NvdPublish, NvdModify, workVars
<1>6. CASE Click
  BY <1>1, <1>6 DEF Click, ClickSync, ClickRecent, ClickKev, ClickIngest, ClickFinish,
     ClickFails, ClickGone, workVars
<1>7. CASE VendorEdit
  BY <1>1, <1>7 DEF VendorEdit, CreateVendor, UpdateVendor, DeleteVendor, workVars
<1>8. CASE UNCHANGED vars
  BY <1>1, <1>8 DEF vars
<1> QED
  BY <1>2, <1>3, <1>4, <1>5, <1>6, <1>7, <1>8 DEF Next

\* Of the tasks whose lock has not run out under them at most one runs.
THEOREM LockExcludes == Spec => []MutualExclusion
<1>1. Init => LockInv
  BY DEF Init, LockInv, Running, Idle
<1>2. LockInv => MutualExclusion
  BY DEF LockInv, MutualExclusion
<1> QED
  BY <1>1, <1>2, LockNext, TypeCorrect, PTL DEF Spec

-----------------------------------------------------------------------------
(* Only messages of the backfill queue pull the whole window.              *)

\* No step sets the watermark back to NULL.
LEMMA WatermarkStays ==
  ASSUME TypeOK, [Next]_vars, watermark # Never PROVE watermark' # Never
<1> USE DEF dbVars
<1>1. ASSUME NEW w \in Workers, AdvanceWatermark(w) PROVE watermark' # Never
  BY <1>1, TimeAssumption DEF AdvanceWatermark, TypeOK, Task, Seconds, Never
<1>2. ASSUME NEW w \in Workers, WorkerStep(w) PROVE watermark' # Never
  BY <1>1, <1>2 DEF WorkerStep, StartTask, SkipTask, BeginSync, NextOrg, FetchRecent,
     FetchKev, FetchFails, IngestVendor, KeepVendor, FinalizeVendor, ReleaseLock,
     VendorGone
<1>3. ASSUME NEW w \in Workers, WorkerFault(w) PROVE watermark' # Never
  BY <1>3 DEF WorkerFault, TaskError, ReleaseFails, WorkerCrash
<1>4. CASE World \/ DispatchDue \/ ExpireLock
  BY <1>4 DEF World, Tick, NvdPublish, NvdModify, DispatchDue, ExpireLock
<1>5. CASE Click
  BY <1>5 DEF Click, ClickSync, ClickRecent, ClickKev, ClickIngest, ClickFinish,
     ClickFails, ClickGone
<1>6. CASE VendorEdit
  BY <1>6 DEF VendorEdit, CreateVendor, UpdateVendor, DeleteVendor
<1>7. CASE UNCHANGED vars
  BY <1>7 DEF vars
<1> QED
  BY <1>2, <1>3, <1>4, <1>5, <1>6, <1>7 DEF Next

\* What RouteInv says of one task, given the watermark.
Routed(t, mark) ==
  ~t.msg.backfill => /\ mark # Never
                     /\ t.pc \in {"orgs", "vendors"} => t.lastMod # Never

LEMMA RouteTask ==
  ASSUME TypeOK, RouteInv, NEW w \in Workers, NEW t, SetTask(w, t),
         watermark # Never => watermark' # Never, Routed(t, watermark),
         queue' \subseteq queue \cup {task[w].msg} \cup
                         {[task[w].msg EXCEPT !.tries = @ + 1]}
  PROVE  RouteInv'
<1>1. \A u \in Workers : Routed(task'[u], watermark')
  BY DEF SetTask, TypeOK, RouteInv, Routed
<1>2. \A m \in queue' : ~m.backfill => watermark' # Never
  <2>1. task[w].msg \in Message
    BY DEF TypeOK, Task
  <2>2. [task[w].msg EXCEPT !.tries = @ + 1].backfill = task[w].msg.backfill
    BY <2>1 DEF Message
  <2> QED
    BY <2>2 DEF RouteInv
<1> QED
  BY <1>1, <1>2 DEF RouteInv, Routed

LEMMA RouteNext == TypeOK /\ RouteInv /\ [Next]_vars => RouteInv'
<1> SUFFICES ASSUME TypeOK, RouteInv, [Next]_vars PROVE RouteInv'
  OBVIOUS
<1>a. watermark # Never => watermark' # Never
  BY WatermarkStays
<1>i. Routed(Idle, watermark)
  BY DEF Routed, Idle, IdleMessage
<1>1. CASE UNCHANGED task /\ queue' \subseteq queue
  BY <1>1, <1>a DEF RouteInv
<1>2. CASE DispatchDue
  <2> DEFINE new == [at |-> now, vendors |-> DueVendors,
                     backfill |-> IsBackfill, tries |-> 0]
  <2>1. queue' = queue \cup {new} /\ UNCHANGED <<task, watermark>>
    BY <1>2 DEF DispatchDue, dbVars
  <2>2. new.backfill = (watermark = Never)
    BY DEF IsBackfill
  <2> HIDE DEF new
  <2>3. \A m \in queue' : ~m.backfill => watermark # Never
    BY <2>1, <2>2 DEF RouteInv
  <2> QED
    BY <2>1, <2>3 DEF RouteInv
<1>3. ASSUME NEW w \in Workers, WorkerStep(w) PROVE RouteInv'
  <2>a. Routed(task[w], watermark) /\ task[w] \in Task
    BY DEF RouteInv, Routed, TypeOK
  <2>1. ASSUME NEW m \in queue, StartTask(w, m) PROVE RouteInv'
    <3>1. Routed([Idle EXCEPT !.pc = "started", !.msg = m, !.fetchEnd = now], watermark)
      BY DEF Routed, Idle, RouteInv
    <3> QED
      BY <1>a, <2>1, <3>1, RouteTask DEF StartTask
  <2>2. ASSUME NEW m \in queue, SkipTask(w, m) PROVE RouteInv'
    BY <1>1, <2>2 DEF SkipTask
  <2>3. CASE BeginSync(w)
    <3>1. Routed([task[w] EXCEPT !.pc = "orgs", !.syncNow = now,
                    !.lastMod = watermark, !.rest = task[w].msg.vendors], watermark)
      BY <2>a DEF Routed, Task
    <3> QED
      BY <1>a, <2>3, <3>1, RouteTask DEF BeginSync
  <2>4. ASSUME NEW t, SetTask(w, t), queue' = queue, t.msg = task[w].msg,
               t.lastMod = task[w].lastMod, task[w].pc \in {"orgs", "vendors"}
        PROVE  RouteInv'
    <3>1. Routed(t, watermark)
      BY <2>4, <2>a DEF Routed
    <3> QED
      BY <1>a, <2>4, <3>1, RouteTask
  <2>5. ASSUME NEW o \in Orgs, NextOrg(w, o) PROVE RouteInv'
    BY <2>4, <2>5, <2>a DEF NextOrg, Task
  <2>6. CASE FetchRecent(w) \/ FetchKev(w) \/ FetchFails(w)
    BY <2>4, <2>6, <2>a DEF FetchRecent, FetchKev, FetchFails, Task
  <2>7. ASSUME NEW v \in Vendors,
               IngestVendor(w, v) \/ KeepVendor(w, v) \/ FinalizeVendor(w, v)
        PROVE  RouteInv'
    BY <2>4, <2>7, <2>a DEF IngestVendor, KeepVendor, FinalizeVendor, Task
  <2>8. CASE AdvanceWatermark(w)
    <3>1. Routed([Idle EXCEPT !.pc = "done", !.msg = task[w].msg], watermark)
      BY <2>a DEF Routed, Idle
    <3> QED
      BY <1>a, <2>8, <3>1, RouteTask DEF AdvanceWatermark
  <2>9. CASE ReleaseLock(w)
    BY <1>a, <1>i, <2>9, RouteTask DEF ReleaseLock, EndTask
  <2>10. CASE VendorGone(w)
    BY <1>a, <1>i, <2>10, RouteTask DEF VendorGone, Retry, EndTask
  <2> QED
    BY <1>3, <2>1, <2>2, <2>3, <2>5, <2>6, <2>7, <2>8, <2>9, <2>10 DEF WorkerStep
<1>4. ASSUME NEW w \in Workers, WorkerFault(w) PROVE RouteInv'
  <2>1. CASE TaskError(w)
    BY <1>a, <1>i, <2>1, RouteTask DEF TaskError, Retry, EndTask
  <2>2. CASE ReleaseFails(w)
    BY <1>a, <1>i, <2>2, RouteTask DEF ReleaseFails, EndTask
  <2>3. CASE WorkerCrash(w)
    <3>1. queue' \subseteq queue \cup {task[w].msg} /\ SetTask(w, Idle)
      BY <2>3 DEF WorkerCrash, EndTask
    <3> QED
      BY <1>a, <1>i, <3>1, RouteTask
  <2> QED
    BY <1>4, <2>1, <2>2, <2>3 DEF WorkerFault
<1>5. CASE World \/ ExpireLock
  BY <1>1, <1>5 DEF World, ExpireLock, Tick, NvdPublish, NvdModify, workVars
<1>6. CASE Click
  BY <1>1, <1>6 DEF Click, ClickSync, ClickRecent, ClickKev, ClickIngest, ClickFinish,
     ClickFails, ClickGone, workVars
<1>7. CASE VendorEdit
  BY <1>1, <1>7 DEF VendorEdit, CreateVendor, UpdateVendor, DeleteVendor, workVars
<1>8. CASE UNCHANGED vars
  BY <1>1, <1>8 DEF vars
<1> QED
  BY <1>2, <1>3, <1>4, <1>5, <1>6, <1>7, <1>8 DEF Next

\* A task of a message that Beat did not route to the backfill queue has a
\* watermark to start from.
THEOREM BackfillRouted == Spec => []OnlyBackfillPullsAll
<1>1. Init => RouteInv
  BY DEF Init, RouteInv, Idle, IdleMessage
<1>2. RouteInv => OnlyBackfillPullsAll
  BY DEF RouteInv, OnlyBackfillPullsAll
<1> QED
  BY <1>1, <1>2, RouteNext, TypeCorrect, PTL DEF Spec

-----------------------------------------------------------------------------
(* What the vendors and the cache hold.                                    *)

\* The steps that write to the cache, the links, the assessments, the
\* snapshots; every other step leaves all of them.
Writes ==
  \/ \E w \in Workers, v \in Vendors : IngestVendor(w, v) \/ FinalizeVendor(w, v)
  \/ \E v \in Vendors : ClickIngest(v) \/ ClickFinish(v) \/ DeleteVendor(v)

NvdStep == \E c \in Cves : NvdPublish(c) \/ NvdModify(c)

\* Which steps a variable can change in.
Frame ==
  /\ Tick \/ UNCHANGED now
  /\ NvdStep \/ UNCHANGED nvd
  /\ VendorEdit \/ UNCHANGED place
  /\ Click \/ UNCHANGED click
  /\ Writes \/ UNCHANGED <<cache, mapped, links, snapAt>>
  /\ UNCHANGED task \/ \E w \in Workers : WorkerStep(w) \/ SetTask(w, Idle)

LEMMA FrameNext == ASSUME [Next]_vars PROVE Frame
<1> USE DEF dbVars, vendorVars, workVars, Writes, Frame
<1>1. ASSUME NEW w \in Workers, WorkerStep(w) PROVE Frame
  BY <1>1 DEF WorkerStep, StartTask, SkipTask, BeginSync, NextOrg, FetchRecent,
     FetchKev, FetchFails, IngestVendor, KeepVendor, FinalizeVendor,
     AdvanceWatermark, ReleaseLock, VendorGone
<1>2. ASSUME NEW w \in Workers, WorkerFault(w) PROVE Frame
  BY <1>2 DEF WorkerFault, TaskError, ReleaseFails, WorkerCrash, Retry, EndTask
<1>3. CASE World
  BY <1>3 DEF World, Tick, NvdPublish, NvdModify, NvdStep
<1>4. CASE DispatchDue \/ ExpireLock
  BY <1>4 DEF DispatchDue, ExpireLock
<1>5. CASE Click
  BY <1>5 DEF Click, ClickSync, ClickRecent, ClickKev, ClickIngest, ClickFinish,
     ClickFails, ClickGone
<1>6. CASE VendorEdit
  BY <1>6 DEF VendorEdit, CreateVendor, UpdateVendor, DeleteVendor
<1>7. CASE UNCHANGED vars
  BY <1>7 DEF vars
<1> QED
  BY <1>1, <1>2, <1>3, <1>4, <1>5, <1>6, <1>7 DEF Next

\* The clock does not go back, what NVD listed as exploited by now is settled,
\* and what the cache and the vendors hold only grows.
Grows ==
  /\ now <= now'
  /\ \A c \in Cves : nvd'[c].kev # Never => nvd'[c].kev = nvd[c].kev \/ nvd'[c].kev = now
  /\ \A c \in Cves : cache[c] # Never => cache'[c] # Never
  /\ \A v \in Vendors : place'[v] # "gone" =>
       /\ place[v] # "gone"
       /\ mapped[v] => mapped'[v]
       /\ links[v] \subseteq links'[v]

LEMMA GrowsNext == ASSUME TypeOK, [Next]_vars PROVE Grows
<1> USE ClockLemma
<1>a. Frame
  BY FrameNext
<1>1. now <= now'
  BY <1>a DEF Frame, Tick, TypeOK
<1>2. ASSUME NEW c \in Cves, nvd'[c].kev # Never
      PROVE  nvd'[c].kev = nvd[c].kev \/ nvd'[c].kev = now
  <2>1. ASSUME NEW d \in Cves, NvdPublish(d) PROVE  nvd'[c].kev = nvd[c].kev \/ nvd'[c].kev = now
    BY <1>2, <2>1 DEF NvdPublish, TypeOK
  <2>2. ASSUME NEW d \in Cves, NvdModify(d) PROVE  nvd'[c].kev = nvd[c].kev \/ nvd'[c].kev = now
    <3>1. PICK k \in {nvd[d].kev, now} :
            nvd' = [nvd EXCEPT ![d] = [nvd[d] EXCEPT !.mod = now, !.kev = k]]
      BY <2>2 DEF NvdModify
    <3>2. nvd[d] \in [pub : Stamps, mod : Stamps, kev : Stamps]
      BY DEF TypeOK
    <3>3. nvd'[d].kev = k
      BY <3>1, <3>2 DEF TypeOK
    <3>4. c # d => nvd'[c] = nvd[c]
      BY <3>1 DEF TypeOK
    <3> QED
      BY <3>3, <3>4
  <2> QED
    BY <1>a, <2>1, <2>2 DEF Frame, NvdStep
<1>3. ASSUME NEW c \in Cves, cache[c] # Never PROVE cache'[c] # Never
  <2>1. ASSUME NEW p, cache' = MergeCves(p) PROVE cache'[c] # Never
    BY <1>3, <2>1 DEF MergeCves
  <2>2. ASSUME NEW w \in Workers, NEW v \in Vendors, IngestVendor(w, v)
        PROVE  cache'[c] # Never
    BY <1>3, <2>1, <2>2 DEF IngestVendor
  <2>3. ASSUME NEW v \in Vendors, ClickIngest(v) PROVE cache'[c] # Never
    BY <2>1, <2>3 DEF ClickIngest
  <2>4. ASSUME NEW w \in Workers, NEW v \in Vendors,
               FinalizeVendor(w, v) \/ ClickFinish(v) \/ DeleteVendor(v)
        PROVE  UNCHANGED cache
    BY <2>4 DEF FinalizeVendor, Snapshot, ClickFinish, DeleteVendor
  <2> QED
    BY <1>3, <1>a, <2>2, <2>3, <2>4 DEF Frame, Writes, ClickFinish, DeleteVendor
<1>4. ASSUME NEW v \in Vendors, place'[v] # "gone"
      PROVE  /\ place[v] # "gone"
             /\ mapped[v] => mapped'[v]
             /\ links[v] \subseteq links'[v]
  <2>1. place[v] # "gone"
    BY <1>4, <1>a DEF Frame, VendorEdit, CreateVendor, UpdateVendor, DeleteVendor,
       Present, TypeOK
  <2>2. (mapped[v] => mapped'[v]) /\ links[v] \subseteq links'[v]
    <3>1. ASSUME NEW u, NEW p, LinkVendor(u, p) PROVE <2>2
      BY <3>1 DEF LinkVendor, TypeOK
    <3>2. ASSUME NEW u \in Vendors, DeleteVendor(u) PROVE <2>2
      BY <1>4, <3>2 DEF DeleteVendor, TypeOK
    <3>3. ASSUME NEW u \in Vendors, ClickIngest(u) PROVE <2>2
      BY <3>1, <3>3 DEF ClickIngest
    <3>4. ASSUME NEW w \in Workers, NEW u \in Vendors, IngestVendor(w, u) PROVE <2>2
      BY <3>1, <3>4 DEF IngestVendor
    <3>5. CASE UNCHANGED <<mapped, links>>
      BY <3>5
    <3> QED
      BY <1>a, <3>2, <3>3, <3>4, <3>5 DEF Frame, Writes, FinalizeVendor, ClickFinish
  <2> QED
    BY <2>1, <2>2
<1> QED
  BY <1>1, <1>2, <1>3, <1>4 DEF Grows

\* What Grows keeps: the known exploited CVEs of a past second, the links of a
\* vendor, and with them the invariant of a task that does not move.
LEMMA KnownKeeps ==
  ASSUME TypeOK, Grows, NEW t \in Seconds, t <= now,
         NEW p, KnownExploited(t) \subseteq Fetched(p)
  PROVE  \A c \in Cves : nvd'[c].kev # Never /\ nvd'[c].kev < t => p[c] # Never
<1> SUFFICES ASSUME NEW c \in Cves, nvd'[c].kev # Never, nvd'[c].kev < t
             PROVE  p[c] # Never
  OBVIOUS
<1>1. nvd'[c].kev = nvd[c].kev
  BY ClockLemma DEF Grows, TypeOK
<1> QED
  BY <1>1 DEF KnownExploited, Fetched

LEMMA TaskKeeps ==
  ASSUME TypeOK, Grows, NEW w \in Workers, TaskInv(task[w]), task[w].syncNow <= now,
         task'[w] = task[w]
  PROVE  TaskInv(task[w])'
<1>1. task[w] \in Task /\ task[w].syncNow \in Seconds
  BY DEF TypeOK, Task
<1>2. ASSUME task[w].pc \in {"orgs", "vendors"}, task[w].fetch = "ok"
      PROVE  (KnownExploited(task[w].syncNow) \subseteq Fetched(task[w].payload))'
  <2>1. KnownExploited(task[w].syncNow) \subseteq Fetched(task[w].payload)
    BY <1>2 DEF TaskInv
  <2>2. \A c \in Cves : nvd'[c].kev # Never /\ nvd'[c].kev < task[w].syncNow
          => task[w].payload[c] # Never
    BY <1>1, <2>1, KnownKeeps
  <2> QED
    BY <2>2 DEF KnownExploited, Fetched
<1>3. ASSUME task[w].pc = "vendors", task[w].fetch = "ok",
             task[w].ingest # task[w].finalize
      PROVE  (Fetched(task[w].payload) \subseteq Fetched(cache))'
  BY <1>3 DEF TaskInv, Fetched, Grows
<1>4. ASSUME task[w].pc = "vendors", task[w].fetch = "ok",
             NEW v \in task[w].finalize \ task[w].ingest
      PROVE  Has(v, task[w].payload)'
  BY <1>1, <1>4 DEF TaskInv, Has, Fetched, Grows, Task
<1> QED
  BY <1>2, <1>3, <1>4 DEF TaskInv

LEMMA ClickKeeps ==
  ASSUME TypeOK, Grows, ClickInv, click.at <= now, UNCHANGED click
  PROVE  ClickInv'
<1>1. ASSUME click.pc \in {"fetched", "ingested"}
      PROVE  (KnownExploited(click.at) \subseteq Fetched(click.payload))'
  <2>1. \A c \in Cves : nvd'[c].kev # Never /\ nvd'[c].kev < click.at
          => click.payload[c] # Never
    BY <1>1, KnownKeeps DEF ClickInv, TypeOK
  <2> QED
    BY <2>1 DEF KnownExploited, Fetched
<1>2. ASSUME click.pc = "ingested", NEW v \in click.vendors
      PROVE  Has(v, click.payload)'
  BY <1>2 DEF ClickInv, Has, Fetched, Grows, TypeOK
<1> QED
  BY <1>1, <1>2 DEF ClickInv

LEMMA ClockKeeps == TypeOK /\ ClockInv /\ [Next]_vars => ClockInv'
<1> SUFFICES ASSUME TypeOK, ClockInv, [Next]_vars PROVE ClockInv'
  OBVIOUS
<1> USE ClockLemma
<1>a. Frame
  BY FrameNext
<1>n. Never = -1
  BY DEF Never
<1>b. now \in Int /\ now' \in Int /\ now <= now' /\ 0 <= now /\ -1 <= now
  BY GrowsNext, TypeNext DEF Grows, TypeOK, Seconds, Never
<1>1. ASSUME NEW c \in Cves
      PROVE  /\ nvd'[c].kev # Never => nvd'[c].pub # Never
             /\ nvd'[c].pub # Never => nvd'[c].mod # Never
  <2>1. ASSUME NEW d \in Cves, NvdPublish(d)
        PROVE  /\ nvd'[c].kev # Never => nvd'[c].pub # Never
               /\ nvd'[c].pub # Never => nvd'[c].mod # Never
    BY <2>1 DEF NvdPublish, TypeOK, ClockInv, Seconds, Never
  <2>2. ASSUME NEW d \in Cves, NvdModify(d)
        PROVE  /\ nvd'[c].kev # Never => nvd'[c].pub # Never
               /\ nvd'[c].pub # Never => nvd'[c].mod # Never
    <3>1. PICK k \in {nvd[d].kev, now} :
            nvd' = [nvd EXCEPT ![d] = [nvd[d] EXCEPT !.mod = now, !.kev = k]]
      BY <2>2 DEF NvdModify
    <3>2. nvd[d] \in [pub : Stamps, mod : Stamps, kev : Stamps] /\ nvd[d].pub # Never
      BY <2>2 DEF TypeOK, NvdModify
    <3>3. nvd'[d].pub # Never /\ nvd'[d].mod = now /\ now # Never
      BY <3>1, <3>2 DEF TypeOK, Seconds, Never
    <3>4. c # d => nvd'[c] = nvd[c]
      BY <3>1 DEF TypeOK
    <3> QED
      BY <3>3, <3>4 DEF ClockInv
  <2> QED
    BY <1>a, <2>1, <2>2 DEF Frame, NvdStep, ClockInv
<1>2. ASSUME NEW w \in Workers PROVE task'[w].syncNow <= now'
  <2>1. task[w].syncNow <= now'
    <3>1. task[w].syncNow \in Int
      BY DEF TypeOK, Task
    <3>2. task[w].syncNow <= now
      BY DEF ClockInv
    <3> QED
      BY <1>b, <3>1, <3>2
  <2>2. ASSUME NEW u \in Workers, NEW t, SetTask(u, t),
               t.syncNow \in {0, now, task[u].syncNow}
        PROVE  task'[w].syncNow <= now'
    BY <1>b, <2>1, <2>2 DEF SetTask, TypeOK, Task, ClockInv
  <2>3. ASSUME NEW u \in Workers, WorkerStep(u) PROVE task'[w].syncNow <= now'
    <3> task[u] \in Task
      BY DEF TypeOK
    <3>1. CASE UNCHANGED task
      BY <2>1, <3>1
    <3>2. CASE (\E m \in queue : StartTask(u, m)) \/ BeginSync(u) \/ AdvanceWatermark(u)
               \/ ReleaseLock(u) \/ VendorGone(u)
      BY <2>2, <3>2 DEF StartTask, BeginSync, AdvanceWatermark, ReleaseLock, VendorGone,
         Retry, EndTask, Idle, Task
    <3>3. CASE (\E o \in Orgs : NextOrg(u, o)) \/ FetchRecent(u) \/ FetchKev(u)
               \/ FetchFails(u)
      BY <2>2, <3>3 DEF NextOrg, FetchRecent, FetchKev, FetchFails, Task
    <3>4. CASE \E v \in Vendors :
                 IngestVendor(u, v) \/ KeepVendor(u, v) \/ FinalizeVendor(u, v)
      BY <2>2, <3>4 DEF IngestVendor, KeepVendor, FinalizeVendor, Task
    <3> QED
      BY <2>3, <3>1, <3>2, <3>3, <3>4 DEF WorkerStep, SkipTask
  <2> QED
    BY <1>a, <2>1, <2>2, <2>3 DEF Frame, Idle
<1>3. ASSUME NEW v \in Vendors PROVE snapAt'[v] <= now'
  <2>1. snapAt[v] <= now'
    <3>1. snapAt[v] \in Int /\ snapAt[v] <= now
      BY DEF ClockInv, TypeOK
    <3> QED
      BY <1>b, <3>1
  <2>2. ASSUME NEW w \in Workers, NEW u \in Vendors, FinalizeVendor(w, u) PROVE snapAt'[v] <= now'
    <3>1. task[w].syncNow \in Seconds /\ task[w].syncNow <= now
      BY DEF TypeOK, Task, ClockInv
    <3> QED
      BY <1>b, <2>1, <2>2, <3>1 DEF FinalizeVendor, Snapshot, TypeOK
  <2>3. ASSUME NEW u \in Vendors, ClickFinish(u) \/ DeleteVendor(u) PROVE snapAt'[v] <= now'
    BY <1>b, <1>n, <2>1, <2>3 DEF ClickFinish, DeleteVendor, ClockInv, TypeOK
  <2> QED
    BY <1>a, <2>1, <2>2, <2>3 DEF Frame, Writes, IngestVendor, ClickIngest
<1>4. click'.at <= now'
  <2>1. click'.at \in {0, now, click.at}
    <3>1. CASE Click
      <4>1. CASE ClickRecent \/ ClickKev \/ ClickGone
        <5>1. click \in [pc : {"idle", "started", "recent", "fetched", "ingested"},
                         vendors : SUBSET Vendors, at : Seconds, payload : Payload]
          BY DEF TypeOK
        <5>2. CASE ClickRecent
          BY <5>1, <5>2 DEF ClickRecent
        <5>3. CASE ClickKev
          BY <5>1, <5>3 DEF ClickKev
        <5>4. CASE ClickGone
          BY <5>4 DEF ClickGone, NoClick
        <5> QED
          BY <4>1, <5>2, <5>3, <5>4
      <4>2. CASE \E v \in Vendors :
                   ClickSync(v) \/ ClickIngest(v) \/ ClickFinish(v) \/ ClickFails(v)
        BY <4>2 DEF ClickSync, ClickIngest, ClickFinish, ClickFails, NoClick, TypeOK
      <4> QED
        BY <3>1, <4>1, <4>2 DEF Click
    <3> QED
      BY <1>a, <3>1 DEF Frame
  <2> QED
    <3>1. click.at \in Int /\ click.at <= now
      BY DEF ClockInv, TypeOK
    <3> QED
      BY <1>b, <2>1, <3>1
<1> QED
  BY <1>1, <1>2, <1>3, <1>4 DEF ClockInv

\* The step of a task keeps the task's own invariant.
LEMMA TaskSteps ==
  ASSUME TypeOK, DataInv, NEW w \in Workers, WorkerStep(w), Grows
  PROVE  UNCHANGED task \/ TaskInv(task[w])'
<1> USE ClockLemma
<1>a. task[w] \in Task /\ TaskInv(task[w])
  BY DEF TypeOK, DataInv
<1>b. ASSUME NEW t, SetTask(w, t) PROVE task'[w] = t
  BY <1>b DEF SetTask, TypeOK
<1>c. ASSUME UNCHANGED nvd, NEW t, NEW p, KnownExploited(t) \subseteq Fetched(p)
      PROVE  (KnownExploited(t) \subseteq Fetched(p))'
  BY <1>c DEF KnownExploited, Fetched
<1>1. ASSUME NEW m \in queue, StartTask(w, m) PROVE TaskInv(task[w])'
  BY <1>1, <1>b DEF StartTask, TaskInv, Idle
<1>2. CASE BeginSync(w)
  <2>1. task'[w] = [task[w] EXCEPT !.pc = "orgs", !.syncNow = now,
                      !.lastMod = watermark, !.rest = task[w].msg.vendors]
    BY <1>2, <1>b DEF BeginSync
  <2>2. task'[w].pc = "orgs" /\ task'[w].fetch = "none"
    BY <1>2, <2>1, <1>a DEF BeginSync, TaskInv, Task
  <2> QED
    BY <2>2 DEF TaskInv
<1>3. ASSUME NEW o \in Orgs, NextOrg(w, o) PROVE TaskInv(task[w])'
  <2> DEFINE group == {v \in task[w].rest : OrgOf[v] = o}
             found == {v \in group : Present(v)}
  <2>1. task'[w] = [task[w] EXCEPT !.pc = IF found = {} THEN "orgs" ELSE "vendors",
                      !.ingest = found, !.finalize = found, !.rest = @ \ group]
    BY <1>3, <1>b DEF NextOrg
  <2> HIDE DEF group, found
  <2>2. /\ task'[w].pc \in {"orgs", "vendors"} /\ task'[w].ingest = task'[w].finalize
        /\ task'[w].fetch = task[w].fetch /\ task'[w].payload = task[w].payload
        /\ task'[w].syncNow = task[w].syncNow
    BY <2>1, <1>a DEF Task
  <2>3. task[w].pc = "orgs" /\ UNCHANGED nvd
    BY <1>3 DEF NextOrg
  <2> QED
    BY <2>2, <2>3, <1>a, <1>c DEF TaskInv
<1>4. CASE FetchRecent(w) \/ FetchFails(w)
  <2> DEFINE Set(f, p) == task'[w] = [task[w] EXCEPT !.fetch = f, !.payload = p]
  <2>1. \/ Set("recent", Recent(task[w].lastMod, task[w].fetchEnd))
        \/ Set("failed", NoCves)
    <3>1. CASE FetchRecent(w)
      BY <3>1, <1>b DEF FetchRecent
    <3>2. CASE FetchFails(w)
      BY <3>2, <1>b DEF FetchFails
    <3> QED
      BY <1>4, <3>1, <3>2
  <2>2. task[w].pc = "vendors" /\ task[w].ingest = task[w].finalize
    BY <1>4, <1>a DEF FetchRecent, FetchFails, TaskInv
  <2>3. /\ task'[w].pc = "vendors" /\ task'[w].ingest = task'[w].finalize
        /\ task'[w].fetch # "ok"
    BY <2>1, <2>2, <1>a DEF Task
  <2> QED
    BY <2>3 DEF TaskInv
<1>5. CASE FetchKev(w)
  <2> DEFINE p == WithKev(task[w].payload)
  <2>1. task'[w] = [task[w] EXCEPT !.fetch = "ok", !.payload = p]
    BY <1>5, <1>b DEF FetchKev
  <2>2. task[w].pc = "vendors" /\ task[w].ingest = task[w].finalize /\ UNCHANGED nvd
    BY <1>5, <1>a DEF FetchKev, TaskInv
  <2>3. KnownExploited(task[w].syncNow) \subseteq Fetched(p)
    BY DEF KnownExploited, Fetched, WithKev, DataInv, ClockInv
  <2>4. /\ task'[w].pc = "vendors" /\ task'[w].ingest = task'[w].finalize
        /\ task'[w].payload = p /\ task'[w].syncNow = task[w].syncNow
    BY <2>1, <2>2, <1>a DEF Task
  <2> HIDE DEF p
  <2> QED
    BY <2>2, <2>3, <2>4, <1>c DEF TaskInv
<1>6. ASSUME NEW v \in Vendors, IngestVendor(w, v) PROVE TaskInv(task[w])'
  <2>1. task'[w] = [task[w] EXCEPT !.ingest = @ \ {v}]
    BY <1>6, <1>b DEF IngestVendor
  <2>2. /\ task[w].pc = "vendors" /\ task[w].fetch = "ok" /\ v \in task[w].ingest
        /\ UNCHANGED <<nvd, place>> /\ LinkVendor(v, task[w].payload)
        /\ cache' = IF task[w].ingest = task[w].finalize
                    THEN MergeCves(task[w].payload) ELSE cache
    BY <1>6 DEF IngestVendor
  <2>3. /\ task'[w].pc = "vendors" /\ task'[w].fetch = "ok"
        /\ task'[w].ingest = task[w].ingest \ {v}
        /\ task'[w].finalize = task[w].finalize
        /\ task'[w].payload = task[w].payload
        /\ task'[w].syncNow = task[w].syncNow
    BY <2>1, <2>2, <1>a DEF Task
  <2>4. (KnownExploited(task[w].syncNow) \subseteq Fetched(task[w].payload))
    BY <2>2, <1>a DEF TaskInv
  <2>5. \A c \in Fetched(task[w].payload) : cache'[c] # Never
    BY <2>2, <1>a DEF TaskInv, MergeCves, Fetched
  <2>6. ASSUME NEW u \in task[w].finalize \ (task[w].ingest \ {v})
        PROVE  place'[u] # "gone" =>
                 mapped'[u] /\ Fetched(task[w].payload) \subseteq links'[u]
    <3>1. u \in Vendors
      BY <1>a DEF Task
    <3>2. CASE u = v
      BY <2>2, <3>2 DEF LinkVendor, TypeOK
    <3>3. CASE u # v
      BY <2>2, <1>a, <3>1, <3>3 DEF TaskInv, Has, Grows
    <3> QED
      BY <3>2, <3>3
  <2>7. KnownExploited(task[w].syncNow)' \subseteq Fetched(task'[w].payload)
    BY <2>2, <2>3, <2>4 DEF KnownExploited
  <2>8. task[w].ingest \subseteq task[w].finalize
    BY <2>2, <1>a DEF TaskInv
  <2> QED
    BY <2>3, <2>5, <2>6, <2>7, <2>8 DEF TaskInv, Has, Fetched
<1>7. ASSUME NEW v \in Vendors, KeepVendor(w, v) PROVE TaskInv(task[w])'
  <2>1. task'[w] = [task[w] EXCEPT !.ingest = @ \ {v}]
    BY <1>7, <1>b DEF KeepVendor
  <2>2. task[w].pc = "vendors" /\ task[w].fetch = "failed"
    BY <1>7 DEF KeepVendor
  <2> QED
    BY <2>1, <2>2, <1>a DEF TaskInv, Task
<1>8. ASSUME NEW v \in Vendors, FinalizeVendor(w, v) PROVE TaskInv(task[w])'
  <2>1. PICK pc \in {"orgs", "vendors"} :
          task'[w] = [task[w] EXCEPT !.finalize = @ \ {v}, !.pc = pc]
    BY <1>8, <1>b DEF FinalizeVendor, Snapshot
  <2>2. /\ task[w].pc = "vendors" /\ task[w].fetch \in {"ok", "failed"}
        /\ task[w].ingest = {} /\ v \in task[w].finalize
        /\ UNCHANGED <<nvd, cache, place, mapped, links>>
    BY <1>8 DEF FinalizeVendor, Snapshot
  <2>3. /\ task'[w].pc \in {"orgs", "vendors"} /\ task'[w].fetch = task[w].fetch
        /\ task'[w].ingest = {} /\ task'[w].finalize = task[w].finalize \ {v}
        /\ task'[w].payload = task[w].payload
        /\ task'[w].syncNow = task[w].syncNow
    BY <2>1, <2>2, <1>a DEF Task
  <2>4. task[w].fetch = "ok" =>
          /\ KnownExploited(task[w].syncNow) \subseteq Fetched(task[w].payload)
          /\ Fetched(task[w].payload) \subseteq Fetched(cache)
          /\ \A u \in task[w].finalize : Has(u, task[w].payload)
    BY <2>2, <1>a DEF TaskInv
  <2>5. task[w].fetch = "ok" =>
          KnownExploited(task[w].syncNow)' \subseteq Fetched(task'[w].payload)
    BY <2>2, <2>3, <2>4 DEF KnownExploited
  <2> QED
    BY <2>2, <2>3, <2>4, <2>5 DEF TaskInv, Has, Fetched
<1>9. CASE AdvanceWatermark(w) \/ ReleaseLock(w) \/ VendorGone(w)
  <2>1. task'[w].pc \in {"done", "idle"}
    <3>1. CASE AdvanceWatermark(w)
      <4>1. task'[w] = [Idle EXCEPT !.pc = "done", !.msg = task[w].msg]
        BY <3>1, <1>b DEF AdvanceWatermark
      <4> QED
        BY <4>1 DEF Idle
    <3>2. CASE ReleaseLock(w) \/ VendorGone(w)
      <4>1. task'[w] = Idle
        BY <3>2, <1>b DEF ReleaseLock, VendorGone, Retry, EndTask
      <4> QED
        BY <4>1 DEF Idle
    <3> QED
      BY <1>9, <3>1, <3>2
  <2> QED
    BY <2>1 DEF TaskInv
<1> QED
  BY <1>1, <1>2, <1>3, <1>4, <1>5, <1>6, <1>7, <1>8, <1>9 DEF WorkerStep, SkipTask

\* A step of one worker leaves the tasks of the others.
LEMMA OthersStand ==
  ASSUME TypeOK, NEW w \in Workers, WorkerStep(w), NEW u \in Workers, u # w
  PROVE  task'[u] = task[u]
<1>1. ASSUME NEW t, SetTask(w, t) PROVE task'[u] = task[u]
  BY <1>1 DEF SetTask, TypeOK
<1>2. CASE \E v \in Vendors : IngestVendor(w, v) \/ KeepVendor(w, v) \/ FinalizeVendor(w, v)
  BY <1>1, <1>2 DEF IngestVendor, KeepVendor, FinalizeVendor
<1>3. CASE (\E m \in queue : StartTask(w, m) \/ SkipTask(w, m))
           \/ (\E o \in Orgs : NextOrg(w, o))
  BY <1>1, <1>3 DEF StartTask, SkipTask, NextOrg
<1>4. CASE \/ BeginSync(w) \/ FetchRecent(w) \/ FetchKev(w) \/ FetchFails(w)
           \/ AdvanceWatermark(w) \/ ReleaseLock(w) \/ VendorGone(w)
  BY <1>1, <1>4 DEF BeginSync, FetchRecent, FetchKev, FetchFails, AdvanceWatermark,
     ReleaseLock, VendorGone, Retry, EndTask
<1> QED
  BY <1>2, <1>3, <1>4 DEF WorkerStep

LEMMA TasksNext ==
  ASSUME TypeOK, DataInv, [Next]_vars, NEW w \in Workers PROVE TaskInv(task[w])'
<1>a. Grows /\ Frame
  BY GrowsNext, FrameNext
<1>1. CASE task'[w] = task[w]
  BY <1>a, <1>1, TaskKeeps DEF DataInv, ClockInv
<1>2. CASE WorkerStep(w)
  BY <1>a, <1>1, <1>2, TaskSteps
<1>3. ASSUME NEW u \in Workers, u # w, WorkerStep(u) PROVE TaskInv(task[w])'
  BY <1>1, <1>3, OthersStand
<1>4. ASSUME NEW u \in Workers, SetTask(u, Idle) PROVE TaskInv(task[w])'
  <2>1. CASE u = w
    <3>1. task'[w].pc = "idle"
      BY <1>4, <2>1 DEF SetTask, TypeOK, Idle
    <3> QED
      BY <3>1 DEF TaskInv
  <2>2. CASE u # w
    BY <1>1, <1>4, <2>2 DEF SetTask, TypeOK
  <2> QED
    BY <2>1, <2>2
<1> QED
  BY <1>a, <1>1, <1>2, <1>3, <1>4 DEF Frame

LEMMA ClickNext == ASSUME TypeOK, DataInv, [Next]_vars PROVE ClickInv'
<1>a. Grows /\ Frame /\ ClickInv /\ click.at <= now
  BY GrowsNext, FrameNext DEF DataInv, ClockInv
<1>b. click \in [pc : {"idle", "started", "recent", "fetched", "ingested"},
                 vendors : SUBSET Vendors, at : Seconds, payload : Payload]
  BY DEF TypeOK
<1>1. CASE UNCHANGED click
  BY <1>a, <1>1, ClickKeeps
<1>2. ASSUME NEW v \in Vendors, ClickSync(v) PROVE ClickInv'
  BY <1>2 DEF ClickSync, ClickInv
<1>3. CASE ClickRecent
  <2>1. click'.pc = "recent" /\ click'.vendors = click.vendors
    BY <1>3, <1>b DEF ClickRecent
  <2> QED
    BY <1>a, <2>1 DEF ClickInv
<1>4. CASE ClickKev
  <2>1. /\ click'.pc = "fetched" /\ click'.at = click.at
        /\ click'.payload = WithKev(click.payload) /\ UNCHANGED nvd
        /\ click'.vendors = click.vendors
    BY <1>4, <1>b DEF ClickKev
  <2>2. KnownExploited(click.at) \subseteq Fetched(WithKev(click.payload))
    BY DEF KnownExploited, Fetched, WithKev, DataInv, ClockInv
  <2>3. KnownExploited(click.at)' \subseteq Fetched(click'.payload)
    BY <2>1, <2>2 DEF KnownExploited
  <2> QED
    BY <1>a, <2>1, <2>3 DEF ClickInv, Fetched
<1>5. ASSUME NEW v \in Vendors, ClickIngest(v) PROVE ClickInv'
  <2>1. /\ click.pc = "fetched" /\ v \in click.vendors
        /\ click'.pc = "ingested" /\ click'.at = click.at
        /\ click'.payload = click.payload /\ click'.vendors = click.vendors
        /\ UNCHANGED <<nvd, place>> /\ LinkVendor(v, click.payload)
    BY <1>5, <1>b DEF ClickIngest
  <2>2. KnownExploited(click.at)' \subseteq Fetched(click'.payload)
    BY <1>a, <2>1 DEF ClickInv, KnownExploited
  <2>3. \A u \in click.vendors : u = v
    BY <1>a, <2>1 DEF ClickInv
  <2> QED
    BY <2>1, <2>2, <2>3 DEF ClickInv, Has, Fetched, LinkVendor, TypeOK
<1>6. ASSUME NEW v \in Vendors, ClickFinish(v) \/ ClickFails(v) PROVE ClickInv'
  BY <1>6 DEF ClickFinish, ClickFails, NoClick, ClickInv
<1>7. CASE ClickGone
  BY <1>7 DEF ClickGone, NoClick, ClickInv
<1> QED
  BY <1>a, <1>1, <1>2, <1>3, <1>4, <1>5, <1>6, <1>7 DEF Frame, Click

LEMMA DataNext == TypeOK /\ DataInv /\ [Next]_vars => DataInv'
<1> SUFFICES ASSUME TypeOK, DataInv, [Next]_vars PROVE DataInv'
  OBVIOUS
<1> USE ClockLemma
<1>a. Grows /\ Frame
  BY GrowsNext, FrameNext
<1>b. ClockInv' /\ ClickInv' /\ (\A w \in Workers : TaskInv(task[w]))'
  BY ClockKeeps, ClickNext, TasksNext DEF DataInv
<1>c. ASSUME NEW w \in Workers, NEW v \in Vendors, IngestVendor(w, v)
      PROVE  /\ LinkVendor(v, task[w].payload) /\ UNCHANGED <<nvd, place, snapAt>>
             /\ \A c \in Fetched(task[w].payload) : cache'[c] # Never
  <2>1. TaskInv(task[w]) /\ task[w].pc = "vendors" /\ task[w].fetch = "ok"
    BY <1>c DEF IngestVendor, DataInv
  <2>2. cache' = IF task[w].ingest = task[w].finalize
                 THEN MergeCves(task[w].payload) ELSE cache
    BY <1>c DEF IngestVendor
  <2>3. \A c \in Fetched(task[w].payload) : cache'[c] # Never
    BY <2>1, <2>2 DEF TaskInv, MergeCves, Fetched
  <2> QED
    BY <1>c, <2>3 DEF IngestVendor
<1>d. ASSUME NEW v \in Vendors, ClickIngest(v)
      PROVE  /\ LinkVendor(v, click.payload) /\ UNCHANGED <<nvd, place, snapAt>>
             /\ \A c \in Fetched(click.payload) : cache'[c] # Never
  BY <1>d DEF ClickIngest, MergeCves, Fetched
<1>e. ASSUME NEW w \in Workers, NEW v \in Vendors, FinalizeVendor(w, v)
      PROVE  /\ UNCHANGED <<nvd, cache, mapped, links>>
             /\ \/ UNCHANGED snapAt
                \/ /\ snapAt' = [snapAt EXCEPT ![v] = task[w].syncNow]
                   /\ mapped[v] /\ KnownExploited(task[w].syncNow) \subseteq links[v]
  <2>1. TaskInv(task[w]) /\ task[w].pc = "vendors" /\ task[w].ingest = {}
        /\ v \in task[w].finalize /\ place[v] # "gone"
    BY <1>e DEF FinalizeVendor, Present, DataInv
  <2>2. CASE task[w].fetch = "ok"
    <3>1. mapped[v] /\ Fetched(task[w].payload) \subseteq links[v]
      BY <2>1, <2>2 DEF TaskInv, Has
    <3>2. KnownExploited(task[w].syncNow) \subseteq Fetched(task[w].payload)
      BY <2>1, <2>2 DEF TaskInv
    <3> QED
      BY <1>e, <2>2, <3>1, <3>2 DEF FinalizeVendor, Snapshot
  <2>3. CASE task[w].fetch # "ok"
    BY <1>e, <2>3 DEF FinalizeVendor, Snapshot
  <2> QED
    BY <2>2, <2>3
<1>f. ASSUME NEW v \in Vendors, ClickFinish(v)
      PROVE  /\ UNCHANGED <<nvd, cache, mapped, links>>
             /\ snapAt' = [snapAt EXCEPT ![v] = click.at]
             /\ mapped[v] /\ KnownExploited(click.at) \subseteq links[v]
  BY <1>f DEF ClickFinish, Present, DataInv, ClickInv, Has
<1>1. LinksAreCached'
  <2> SUFFICES ASSUME NEW v \in Vendors, NEW c \in links'[v] PROVE cache'[c] # Never
    BY DEF LinksAreCached
  <2>1. c \in Cves
    BY TypeNext DEF TypeOK
  <2>2. CASE c \in links[v]
    BY <1>a, <2>1, <2>2 DEF DataInv, LinksAreCached, Grows
  <2>3. ASSUME NEW u, NEW p, LinkVendor(u, p), c \notin links[v] PROVE c \in Fetched(p)
    BY <2>3 DEF LinkVendor, TypeOK
  <2>4. CASE UNCHANGED links
    BY <2>2, <2>4
  <2>5. ASSUME NEW u \in Vendors, DeleteVendor(u) PROVE c \in links[v]
    BY <2>5 DEF DeleteVendor, TypeOK
  <2> QED
    BY <1>a, <1>c, <1>d, <1>e, <1>f, <2>2, <2>3, <2>4, <2>5 DEF Frame, Writes
<1>2. SnapshotIsAssessed'
  <2> SUFFICES ASSUME NEW v \in Vendors, snapAt'[v] # Never PROVE mapped'[v]
    BY DEF SnapshotIsAssessed
  <2>1. snapAt[v] # Never => mapped[v]
    BY DEF DataInv, SnapshotIsAssessed
  <2>2. ASSUME NEW u, NEW p, LinkVendor(u, p), UNCHANGED snapAt PROVE mapped'[v]
    BY <2>1, <2>2 DEF LinkVendor, TypeOK
  <2>3. ASSUME NEW u \in Vendors, DeleteVendor(u) PROVE mapped'[v]
    BY <2>1, <2>3 DEF DeleteVendor, TypeOK
  <2>4. ASSUME NEW u \in Vendors, NEW t, mapped[u], UNCHANGED mapped,
               snapAt' = [snapAt EXCEPT ![u] = t]
        PROVE  mapped'[v]
    BY <2>1, <2>4 DEF TypeOK
  <2>5. CASE UNCHANGED <<mapped, snapAt>>
    BY <2>1, <2>5
  <2> QED
    BY <1>a, <1>c, <1>d, <1>e, <1>f, <2>2, <2>3, <2>4, <2>5 DEF Frame, Writes
<1>3. KevIsLinked'
  <2> SUFFICES ASSUME NEW v \in Vendors, NEW c \in Cves,
                      nvd'[c].kev # Never, nvd'[c].kev < snapAt'[v]
               PROVE  c \in links'[v]
    BY DEF KevIsLinked
  <2>1. ASSUME nvd[c].kev # Never, nvd[c].kev < snapAt[v] PROVE c \in links[v]
    BY <2>1 DEF DataInv, KevIsLinked
  <2>2. nvd'[c].kev = nvd[c].kev \/ nvd'[c].kev = now
    BY <1>a DEF Grows
  <2>3. snapAt[v] <= now /\ snapAt[v] \in Int /\ now \in Int
    BY DEF DataInv, ClockInv, TypeOK
  <2>4. CASE UNCHANGED <<links, snapAt>>
    BY <2>1, <2>2, <2>3, <2>4
  <2>5. ASSUME NEW u, NEW p, LinkVendor(u, p), UNCHANGED <<nvd, snapAt>>
        PROVE  c \in links'[v]
    BY <2>1, <2>5 DEF LinkVendor, TypeOK
  <2>6. ASSUME NEW u \in Vendors, DeleteVendor(u) PROVE c \in links'[v]
    <3>1. UNCHANGED nvd /\ v # u
      <4>1. UNCHANGED nvd /\ snapAt' = [snapAt EXCEPT ![u] = -1]
        BY <2>6 DEF DeleteVendor, Never
      <4>2. nvd[c].kev \in Int /\ nvd[c].kev >= -1
        BY TimeAssumption DEF TypeOK, Stamps, Seconds, Never
      <4> QED
        BY <4>1, <4>2 DEF TypeOK
    <3> QED
      BY <2>1, <2>6, <3>1 DEF DeleteVendor, TypeOK
  <2>7. ASSUME NEW u \in Vendors, NEW t, KnownExploited(t) \subseteq links[u],
               UNCHANGED <<nvd, links>>, snapAt' = [snapAt EXCEPT ![u] = t]
        PROVE  c \in links'[v]
    BY <2>1, <2>7 DEF KnownExploited, TypeOK
  <2> QED
    BY <1>a, <1>c, <1>d, <1>e, <1>f, <2>4, <2>5, <2>6, <2>7 DEF Frame, Writes
<1> QED
  BY <1>b, <1>1, <1>2, <1>3 DEF DataInv

LEMMA DataHolds == Spec => []DataInv
<1>1. Init => DataInv
  <2> SUFFICES ASSUME Init PROVE DataInv
    OBVIOUS
  <2> USE DEF Init
  <2>1. ClockInv
    BY DEF ClockInv, Idle, NoClick, Never
  <2>2. (\A w \in Workers : TaskInv(task[w])) /\ ClickInv
    BY DEF TaskInv, ClickInv, Idle, NoClick
  <2>3. LinksAreCached /\ SnapshotIsAssessed /\ KevIsLinked
    BY DEF LinksAreCached, SnapshotIsAssessed, KevIsLinked
  <2> QED
    BY <2>1, <2>2, <2>3 DEF DataInv
<1> QED
  BY <1>1, DataNext, TypeCorrect, PTL DEF Spec

\* Links point at rows of the cache.
THEOREM LinksCached == Spec => []LinksAreCached
  BY DataHolds, PTL DEF DataInv

\* A snapshot means an assessed vendor.
THEOREM SnapshotsAssessed == Spec => []SnapshotIsAssessed
  BY DataHolds, PTL DEF DataInv

\* The rows of a vendor fit those they depend on.
THEOREM RowsFitTogether == Spec => []RowsFit
  BY LinksCached, SnapshotsAssessed, PTL DEF RowsFit

\* A vendor's snapshot stands on every known exploited CVE listed before it.
THEOREM KevLinked == Spec => []KevIsLinked
  BY DataHolds, PTL DEF DataInv

\* No step takes an assessment, a link or a snapshot from a vendor that stays.
THEOREM AssessmentKept == Spec => NeverDowngraded
<1> DEFINE Kept == \A v \in Vendors : place'[v] # "gone" =>
                     /\ mapped[v] => mapped'[v]
                     /\ links[v] \subseteq links'[v]
                     /\ snapAt[v] # Never => snapAt'[v] # Never
<1>1. ASSUME TypeOK, [Next]_vars PROVE Kept
  <2>a. Frame /\ Grows
    BY <1>1, FrameNext, GrowsNext
  <2>1. ASSUME NEW v \in Vendors, place'[v] # "gone", snapAt[v] # Never
        PROVE  snapAt'[v] # Never
    <3>1. ASSUME NEW u \in Vendors, NEW t \in Seconds, snapAt' = [snapAt EXCEPT ![u] = t]
          PROVE  snapAt'[v] # Never
      BY <1>1, <2>1, <3>1 DEF TypeOK, Seconds, Never
    <3>2. ASSUME NEW w \in Workers, NEW u \in Vendors, FinalizeVendor(w, u)
          PROVE  snapAt'[v] # Never
      <4>1. task[w].syncNow \in Seconds
        BY <1>1 DEF TypeOK, Task
      <4> QED
        BY <2>1, <3>1, <3>2, <4>1 DEF FinalizeVendor, Snapshot
    <3>3. ASSUME NEW u \in Vendors, ClickFinish(u) PROVE snapAt'[v] # Never
      BY <1>1, <3>1, <3>3 DEF ClickFinish, TypeOK
    <3>4. ASSUME NEW u \in Vendors, DeleteVendor(u) PROVE snapAt'[v] # Never
      BY <1>1, <2>1, <3>4 DEF DeleteVendor, TypeOK
    <3>5. CASE UNCHANGED snapAt
      BY <2>1, <3>5
    <3> QED
      BY <2>a, <3>2, <3>3, <3>4, <3>5 DEF Frame, Writes, IngestVendor, ClickIngest
  <2> QED
    BY <2>a, <2>1 DEF Grows
<1>2. TypeOK /\ [Next]_vars => [Kept]_vars
  BY <1>1
<1> QED
  BY <1>2, TypeCorrect, PTL DEF Spec, NeverDowngraded
-----------------------------------------------------------------------------
(* What a completed fetch has asked for is in the cache.                   *)

\* What a change at NVD does: it is made now.
Revised == \A c \in Cves : nvd'[c].mod = nvd[c].mod \/ nvd'[c].mod = now

LEMMA TypedRows ==
  ASSUME TypeOK
  PROVE  /\ now \in Nat /\ now >= 0 /\ Never = -1
         /\ \A c \in Cves : /\ nvd[c].mod \in Int /\ nvd[c].mod >= -1
                            /\ nvd[c].pub \in Int /\ nvd[c].pub >= -1
                            /\ cache[c] \in Int /\ cache[c] >= -1
         /\ \A w \in Workers : /\ task[w] \in Task /\ task[w].fetchEnd \in Nat
                               /\ task[w].lastMod \in Int /\ task[w].lastMod >= -1
                               /\ \A c \in Cves : task[w].payload[c] \in Int
<1> USE TimeAssumption DEF Seconds, Stamps, Never
<1>1. now \in Nat /\ now >= 0 /\ Never = -1
  BY DEF TypeOK
<1>2. ASSUME NEW c \in Cves
      PROVE  /\ nvd[c].mod \in Int /\ nvd[c].mod >= -1
             /\ nvd[c].pub \in Int /\ nvd[c].pub >= -1
             /\ cache[c] \in Int /\ cache[c] >= -1
  BY DEF TypeOK, Payload
<1>3. ASSUME NEW w \in Workers
      PROVE  /\ task[w] \in Task /\ task[w].fetchEnd \in Nat
             /\ task[w].lastMod \in Int /\ task[w].lastMod >= -1
             /\ \A c \in Cves : task[w].payload[c] \in Int
  <2>1. task[w] \in Task
    BY DEF TypeOK
  <2>2. task[w].fetchEnd \in Seconds /\ task[w].lastMod \in Stamps /\ task[w].payload \in Payload
    BY <2>1 DEF Task
  <2> QED
    BY <2>1, <2>2 DEF Payload
<1> QED
  BY <1>1, <1>2, <1>3

\* Nothing comes back to being undisturbed.
LEMMA CalmBefore ==
  ASSUME TypeOK, FreshInv, [Next]_vars, Undisturbed'
  PROVE  /\ Undisturbed /\ click'.pc = "idle" /\ lapsed' = {}
         /\ \A v \in Vendors : ~ClickIngest(v)
<1>a. spent \in [faults : Nat, edits : Nat, clicks : Nat, lapses : Nat]
  BY DEF TypeOK
<1>b. spent'.lapses = 0 /\ spent'.clicks = 0
  BY DEF Undisturbed
<1>c. Undisturbed => click.pc = "idle" /\ lapsed = {}
  BY DEF FreshInv
<1>1. CASE UNCHANGED <<spent, click, lapsed>>
  BY <1>1, <1>b, <1>c DEF Undisturbed, ClickIngest
<1>2. ASSUME NEW w \in Workers, WorkerStep(w) PROVE UNCHANGED <<spent, click>> /\ lapsed' \subseteq lapsed
  BY <1>2 DEF WorkerStep, StartTask, SkipTask, BeginSync, NextOrg, FetchRecent,
     FetchKev, FetchFails, IngestVendor, KeepVendor, FinalizeVendor,
     AdvanceWatermark, ReleaseLock, VendorGone, Retry, EndTask
<1>3. ASSUME NEW w \in Workers, WorkerFault(w)
      PROVE  /\ UNCHANGED click /\ lapsed' \subseteq lapsed
             /\ spent' = [spent EXCEPT !.faults = @ + 1]
  BY <1>3 DEF WorkerFault, TaskError, ReleaseFails, WorkerCrash, Retry, EndTask, Fault
<1>4. CASE ExpireLock
  <2>1. UNCHANGED <<spent, lapsed>> \/ spent' = [spent EXCEPT !.lapses = @ + 1]
    BY <1>4 DEF ExpireLock
  <2>2. UNCHANGED click
    BY <1>4 DEF ExpireLock
  <2> QED
    BY <1>1, <1>a, <1>b, <2>1, <2>2
<1>5. CASE World \/ DispatchDue
  BY <1>1, <1>5 DEF World, Tick, NvdPublish, NvdModify, DispatchDue, workVars
<1>6. CASE Click
  <2>1. CASE \E v \in Vendors : ClickSync(v)
    BY <2>1, <1>a, <1>b DEF ClickSync
  <2>2. CASE ~\E v \in Vendors : ClickSync(v)
    <3>1. UNCHANGED spent /\ click.pc # "idle"
      BY <1>6, <2>2 DEF Click, ClickRecent, ClickKev, ClickIngest, ClickFinish, ClickFails, ClickGone
    <3> QED
      BY <3>1, <1>b, <1>c DEF Undisturbed
  <2> QED
    BY <2>1, <2>2
<1>7. CASE VendorEdit
  <2>1. UNCHANGED <<click, lapsed>> /\ spent' = [spent EXCEPT !.edits = @ + 1]
    BY <1>7 DEF VendorEdit, CreateVendor, UpdateVendor, DeleteVendor, Edit, workVars
  <2> QED
    BY <2>1, <1>a, <1>b, <1>c DEF Undisturbed, ClickIngest
<1>8. CASE UNCHANGED vars
  BY <1>1, <1>8 DEF vars
<1>9. ASSUME spent' = [spent EXCEPT !.faults = @ + 1] PROVE UNCHANGED spent.lapses /\ UNCHANGED spent.clicks
  BY <1>9, <1>a
<1> QED
  BY <1>2, <1>3, <1>4, <1>5, <1>6, <1>7, <1>8, <1>9, <1>b, <1>c DEF Next, Undisturbed, ClickIngest

\* A worker that is in the middle of its task is the only one.
LEMMA Alone ==
  ASSUME LockInv, lapsed = {}, NEW u \in Running, NEW w \in Running PROVE u = w
  BY DEF LockInv

LEMMA RevisedNext == ASSUME TypeOK, [Next]_vars PROVE Revised
<1>1. ASSUME NEW c \in Cves, NvdPublish(c) PROVE Revised
  BY <1>1 DEF NvdPublish, TypeOK, Revised
<1>2. ASSUME NEW c \in Cves, NvdModify(c) PROVE Revised
  <2>1. PICK k \in {nvd[c].kev, now} :
          nvd' = [nvd EXCEPT ![c] = [nvd[c] EXCEPT !.mod = now, !.kev = k]]
    BY <1>2 DEF NvdModify
  <2>2. nvd[c] \in [pub : Stamps, mod : Stamps, kev : Stamps]
    BY DEF TypeOK
  <2>3. nvd'[c].mod = now
    BY <2>1, <2>2 DEF TypeOK
  <2> QED
    BY <2>1, <2>3 DEF Revised, TypeOK
<1> QED
  BY <1>1, <1>2, FrameNext DEF Frame, NvdStep, Revised

\* A task that does not move keeps FreshTask while nobody writes to the cache.
LEMMA FreshKeeps ==
  ASSUME TypeOK, TypeOK', Revised, Dated, NEW w \in Workers, FreshTask(task[w]),
         task'[w] = task[w], UNCHANGED cache
  PROVE  FreshTask(task[w])'
<1> DEFINE t == task[w]
<1>a. t.fetchEnd <= now /\ \A c \in Cves : nvd[c].mod <= now
  BY DEF Dated
<1>b. /\ now \in Nat /\ Never = -1 /\ t.fetchEnd \in Nat
      /\ \A c \in Cves : nvd[c].mod \in Int /\ t.payload[c] \in Int
  BY TypedRows
<1>1. ASSUME t.pc \in {"orgs", "vendors"}, t.fetch \in {"recent", "ok"}, NEW c \in Cves
      PROVE  /\ t.payload[c] # Never => cache'[c] <= t.payload[c] /\ t.payload[c] <= nvd'[c].mod
             /\ nvd'[c].mod # Never /\ t.lastMod <= nvd'[c].mod /\ nvd'[c].mod < t.fetchEnd
                  => t.payload[c] = nvd'[c].mod
  <2>1. /\ t.payload[c] # Never => cache[c] <= t.payload[c] /\ t.payload[c] <= nvd[c].mod
        /\ nvd[c].mod # Never /\ t.lastMod <= nvd[c].mod /\ nvd[c].mod < t.fetchEnd
             => t.payload[c] = nvd[c].mod
    BY <1>1 DEF FreshTask
  <2>2. nvd'[c].mod = nvd[c].mod \/ nvd'[c].mod = now
    BY DEF Revised
  <2> HIDE DEF t
  <2> QED
    BY <1>a, <1>b, <2>1, <2>2
<1>2. ASSUME t.pc \in {"orgs", "vendors"}, t.fetch = "ok", t.pc = "orgs" \/ t.ingest # t.finalize,
             NEW c \in Fetched(t.payload)
      PROVE  cache'[c] = t.payload[c]
  BY <1>2 DEF FreshTask
<1> QED
  BY <1>1, <1>2 DEF FreshTask, Fetched

\* What NVD answers is no older than the cache and complete for its window.
LEMMA FetchFresh ==
  ASSUME TypeOK, Dated, NEW lastMod \in Stamps, NEW end \in Seconds, end <= now,
         NEW c \in Cves, NEW p, p = Recent(lastMod, end)
  PROVE  /\ p[c] # Never => cache[c] <= p[c] /\ p[c] <= nvd[c].mod
         /\ nvd[c].mod # Never /\ lastMod <= nvd[c].mod /\ nvd[c].mod < end
              => p[c] = nvd[c].mod
<1>1. p[c] = IF /\ nvd[c].pub # Never
                /\ IF lastMod = Never THEN nvd[c].pub < end
                                      ELSE lastMod <= nvd[c].mod /\ nvd[c].mod < end
             THEN nvd[c].mod ELSE Never
  BY DEF Recent
<1>2. /\ cache[c] <= nvd[c].mod /\ nvd[c].pub <= nvd[c].mod
      /\ nvd[c].pub = Never => nvd[c].mod = Never
  BY DEF Dated
<1>3. /\ nvd[c].mod \in Int /\ nvd[c].pub \in Int /\ end \in Int /\ lastMod \in Int /\ cache[c] \in Int
  BY TypedRows, ClockLemma
<1> QED
  BY <1>1, <1>2, <1>3

\* The step of the one running task, from facts about it.
LEMMA FreshSteps ==
  ASSUME TypeOK, Dated, NEW w \in Workers, WorkerStep(w), TaskInv(task[w]), FreshTask(task[w])
  PROVE  UNCHANGED task \/ FreshTask(task[w])'
<1>a. task[w] \in Task
  BY DEF TypeOK
<1>b. ASSUME NEW t, SetTask(w, t) PROVE task'[w] = t
  BY <1>b DEF SetTask, TypeOK
<1>1. ASSUME NEW m \in queue, StartTask(w, m) PROVE FreshTask(task[w])'
  BY <1>1, <1>b DEF StartTask, FreshTask, Idle
<1>2. CASE BeginSync(w)
  <2>1. task'[w] = [task[w] EXCEPT !.pc = "orgs", !.syncNow = now,
                      !.lastMod = watermark, !.rest = task[w].msg.vendors]
    BY <1>2, <1>b DEF BeginSync
  <2>2. task'[w].pc = "orgs" /\ task'[w].fetch = "none"
    BY <1>2, <2>1, <1>a DEF BeginSync, TaskInv, Task
  <2> QED
    BY <2>2 DEF FreshTask
<1>3. ASSUME NEW o \in Orgs, NextOrg(w, o) PROVE FreshTask(task[w])'
  <2> DEFINE group == {v \in task[w].rest : OrgOf[v] = o}
             found == {v \in group : Present(v)}
  <2>1. task'[w] = [task[w] EXCEPT !.pc = IF found = {} THEN "orgs" ELSE "vendors",
                      !.ingest = found, !.finalize = found, !.rest = @ \ group]
    BY <1>3, <1>b DEF NextOrg
  <2> HIDE DEF group, found
  <2>2. /\ task'[w].pc \in {"orgs", "vendors"} /\ task'[w].ingest = task'[w].finalize
        /\ task'[w].fetch = task[w].fetch /\ task'[w].payload = task[w].payload
        /\ task'[w].lastMod = task[w].lastMod /\ task'[w].fetchEnd = task[w].fetchEnd
    BY <2>1, <1>a DEF Task
  <2>3. task[w].pc = "orgs" /\ UNCHANGED <<nvd, cache>>
    BY <1>3 DEF NextOrg, dbVars
  <2> QED
    BY <2>2, <2>3 DEF FreshTask, Fetched
<1>4. CASE FetchRecent(w)
  <2>1. task'[w] = [task[w] EXCEPT !.fetch = "recent",
                      !.payload = Recent(task[w].lastMod, task[w].fetchEnd)]
    BY <1>4, <1>b DEF FetchRecent
  <2>2. task[w].lastMod \in Stamps /\ task[w].fetchEnd \in Seconds /\ task[w].fetchEnd <= now
    BY <1>a DEF Task, Dated
  <2>3. /\ task'[w].fetch = "recent" /\ task'[w].lastMod = task[w].lastMod
        /\ task'[w].fetchEnd = task[w].fetchEnd
        /\ task'[w].payload = Recent(task[w].lastMod, task[w].fetchEnd)
    BY <2>1, <1>a DEF Task
  <2>4. UNCHANGED <<nvd, cache>>
    BY <1>4 DEF FetchRecent, dbVars
  <2> QED
    BY <2>2, <2>3, <2>4, FetchFresh DEF FreshTask
<1>5. CASE FetchKev(w)
  <2> DEFINE p == WithKev(task[w].payload)
  <2>1. task'[w] = [task[w] EXCEPT !.fetch = "ok", !.payload = p]
    BY <1>5, <1>b DEF FetchKev
  <2>2. /\ task[w].pc = "vendors" /\ task[w].fetch = "recent"
        /\ task[w].ingest = task[w].finalize /\ UNCHANGED <<nvd, cache>>
    BY <1>5 DEF FetchKev, TaskInv, dbVars
  <2>3. ASSUME NEW c \in Cves
        PROVE  /\ p[c] # Never => cache[c] <= p[c] /\ p[c] <= nvd[c].mod
               /\ nvd[c].mod # Never /\ task[w].lastMod <= nvd[c].mod
                  /\ nvd[c].mod < task[w].fetchEnd => p[c] = nvd[c].mod
    <3>1. /\ task[w].payload[c] # Never =>
               cache[c] <= task[w].payload[c] /\ task[w].payload[c] <= nvd[c].mod
          /\ nvd[c].mod # Never /\ task[w].lastMod <= nvd[c].mod
             /\ nvd[c].mod < task[w].fetchEnd => task[w].payload[c] = nvd[c].mod
      BY <2>2 DEF FreshTask
    <3>2. cache[c] <= nvd[c].mod /\ nvd[c].mod \in Int
      BY TypedRows DEF Dated
    <3>3. p[c] = IF task[w].payload[c] = Never /\ nvd[c].kev # Never
                 THEN nvd[c].mod ELSE task[w].payload[c]
      BY DEF WithKev
    <3> HIDE DEF p
    <3> QED
      BY <3>1, <3>2, <3>3
  <2>4. /\ task'[w].pc = "vendors" /\ task'[w].ingest = task'[w].finalize
        /\ task'[w].payload = p /\ task'[w].fetch = "ok"
        /\ task'[w].lastMod = task[w].lastMod /\ task'[w].fetchEnd = task[w].fetchEnd
    BY <2>1, <2>2, <1>a DEF Task
  <2> HIDE DEF p
  <2> QED
    BY <2>2, <2>3, <2>4 DEF FreshTask
<1>6. CASE FetchFails(w)
  <2>1. task'[w] = [task[w] EXCEPT !.fetch = "failed", !.payload = NoCves]
    BY <1>6, <1>b DEF FetchFails
  <2>2. task'[w].fetch = "failed"
    BY <2>1, <1>a DEF Task
  <2> QED
    BY <2>2 DEF FreshTask
<1>7. ASSUME NEW v \in Vendors, IngestVendor(w, v) PROVE FreshTask(task[w])'
  <2> DEFINE t == task[w]
  <2>1. task'[w] = [task[w] EXCEPT !.ingest = @ \ {v}]
    BY <1>7, <1>b DEF IngestVendor
  <2>2. /\ t.pc = "vendors" /\ t.fetch = "ok" /\ UNCHANGED nvd
        /\ cache' = IF t.ingest = t.finalize THEN MergeCves(t.payload) ELSE cache
    BY <1>7 DEF IngestVendor
  <2>3. /\ task'[w].pc = "vendors" /\ task'[w].fetch = "ok"
        /\ task'[w].payload = t.payload
        /\ task'[w].lastMod = t.lastMod /\ task'[w].fetchEnd = t.fetchEnd
    BY <2>1, <2>2, <1>a DEF Task
  <2>4. \A c \in Fetched(t.payload) : c \in Cves /\ cache'[c] = t.payload[c]
    BY <2>2 DEF FreshTask, MergeCves, Fetched
  <2>5. ASSUME NEW c \in Cves, t.payload[c] # Never
        PROVE  cache'[c] <= t.payload[c] /\ t.payload[c] <= nvd'[c].mod
    <3>1. t.payload[c] <= nvd[c].mod /\ t.payload[c] \in Int
      BY <2>2, <2>5, TypedRows DEF FreshTask
    <3> QED
      BY <2>2, <2>4, <2>5, <3>1 DEF Fetched
  <2>6. \A c \in Cves : nvd[c].mod # Never /\ t.lastMod <= nvd[c].mod /\ nvd[c].mod < t.fetchEnd
          => t.payload[c] = nvd[c].mod
    BY <2>2 DEF FreshTask
  <2> HIDE DEF t
  <2> QED
    BY <2>2, <2>3, <2>4, <2>5, <2>6 DEF FreshTask
<1>8. ASSUME NEW v \in Vendors, KeepVendor(w, v) PROVE FreshTask(task[w])'
  <2>1. task'[w] = [task[w] EXCEPT !.ingest = @ \ {v}]
    BY <1>8, <1>b DEF KeepVendor
  <2>2. task'[w].fetch = "failed"
    BY <1>8, <2>1, <1>a DEF Task, KeepVendor
  <2> QED
    BY <2>2 DEF FreshTask
<1>9. ASSUME NEW v \in Vendors, FinalizeVendor(w, v) PROVE FreshTask(task[w])'
  <2>1. PICK pc \in {"orgs", "vendors"} :
          task'[w] = [task[w] EXCEPT !.finalize = @ \ {v}, !.pc = pc]
    BY <1>9, <1>b DEF FinalizeVendor, Snapshot
  <2>2. /\ task[w].pc = "vendors" /\ task[w].ingest = {} /\ v \in task[w].finalize
        /\ UNCHANGED <<nvd, cache>>
    BY <1>9 DEF FinalizeVendor, Snapshot
  <2>3. /\ task'[w].fetch = task[w].fetch /\ task'[w].payload = task[w].payload
        /\ task'[w].lastMod = task[w].lastMod /\ task'[w].fetchEnd = task[w].fetchEnd
    BY <2>1, <1>a DEF Task
  <2>4. task[w].ingest # task[w].finalize
    BY <2>2
  <2> QED
    BY <2>2, <2>3, <2>4 DEF FreshTask, Fetched
<1>10. CASE AdvanceWatermark(w) \/ ReleaseLock(w) \/ VendorGone(w)
  <2>1. CASE AdvanceWatermark(w)
    <3>1. task'[w] = [Idle EXCEPT !.pc = "done", !.msg = task[w].msg]
      BY <2>1, <1>b DEF AdvanceWatermark
    <3> QED
      BY <3>1 DEF Idle, FreshTask
  <2>2. CASE ReleaseLock(w) \/ VendorGone(w)
    <3>1. task'[w] = Idle
      BY <2>2, <1>b DEF ReleaseLock, VendorGone, Retry, EndTask
    <3> QED
      BY <3>1 DEF Idle, FreshTask
  <2> QED
    BY <1>10, <2>1, <2>2
<1> QED
  BY <1>1, <1>2, <1>3, <1>4, <1>5, <1>6, <1>7, <1>8, <1>9, <1>10 DEF WorkerStep, SkipTask

\* Which steps write to the cache, and which complete a fetch.
LEMMA CacheSteps ==
  ASSUME TypeOK, FreshInv, [Next]_vars, Undisturbed'
  PROVE  UNCHANGED cache \/ \E w \in Workers, v \in Vendors : IngestVendor(w, v)
BY CalmBefore, FrameNext DEF Frame, Writes, FinalizeVendor, ClickFinish, DeleteVendor

LEMMA CoveredSteps ==
  ASSUME [Next]_vars
  PROVE  UNCHANGED covered \/ \E w \in Workers : AdvanceWatermark(w)
<1>1. ASSUME NEW w \in Workers, WorkerStep(w) PROVE UNCHANGED covered \/ AdvanceWatermark(w)
  BY <1>1 DEF WorkerStep, StartTask, SkipTask, BeginSync, NextOrg, FetchRecent,
     FetchKev, FetchFails, IngestVendor, KeepVendor, FinalizeVendor,
     ReleaseLock, VendorGone
<1>2. CASE \E w \in Workers : WorkerFault(w)
  BY <1>2 DEF WorkerFault, TaskError, ReleaseFails, WorkerCrash
<1>3. CASE World \/ DispatchDue \/ ExpireLock
  BY <1>3 DEF World, Tick, NvdPublish, NvdModify, DispatchDue, ExpireLock
<1>4. CASE Click
  BY <1>4 DEF Click, ClickSync, ClickRecent, ClickKev, ClickIngest, ClickFinish, ClickFails, ClickGone
<1>5. CASE VendorEdit
  BY <1>5 DEF VendorEdit, CreateVendor, UpdateVendor, DeleteVendor
<1> QED
  BY <1>1, <1>2, <1>3, <1>4, <1>5 DEF Next, vars

\* What the one writer puts into the cache.
LEMMA Ingested ==
  ASSUME TypeOK, NEW w \in Workers, FreshTask(task[w]), NEW v \in Vendors, IngestVendor(w, v),
         NEW c \in Cves
  PROVE  /\ UNCHANGED nvd
         /\ cache'[c] = cache[c] \/ (cache[c] <= cache'[c] /\ cache'[c] <= nvd[c].mod)
<1>1. /\ UNCHANGED nvd /\ task[w].pc = "vendors" /\ task[w].fetch = "ok"
      /\ cache' = IF task[w].ingest = task[w].finalize THEN MergeCves(task[w].payload) ELSE cache
  BY DEF IngestVendor
<1>2. cache'[c] = cache[c] \/ (task[w].payload[c] # Never /\ cache'[c] = task[w].payload[c])
  <2>1. CASE task[w].ingest = task[w].finalize
    BY <1>1, <2>1 DEF MergeCves
  <2>2. CASE task[w].ingest # task[w].finalize
    BY <1>1, <2>2
  <2> QED
    BY <2>1, <2>2
<1>3. task[w].payload[c] # Never =>
        cache[c] <= task[w].payload[c] /\ task[w].payload[c] <= nvd[c].mod
  BY <1>1 DEF FreshTask
<1> QED
  BY <1>1, <1>2, <1>3

LEMMA StartsInThePast ==
  ASSUME TypeOK, [Next]_vars, NEW w \in Workers, task[w].fetchEnd <= now
  PROVE  task'[w].fetchEnd <= now
<1>a. task[w] \in Task /\ now \in Nat /\ now >= 0 /\ Frame
  BY TypedRows, FrameNext
<1>b. ASSUME NEW t, NEW u \in Workers, SetTask(u, t) PROVE task'[w] = task[w] \/ (u = w /\ task'[w] = t)
  BY <1>b DEF SetTask, TypeOK
<1>1. ASSUME NEW m \in queue, StartTask(w, m) PROVE task'[w].fetchEnd <= now
  <2>1. task'[w] = task[w] \/ task'[w] = [Idle EXCEPT !.pc = "started", !.msg = m, !.fetchEnd = now]
    BY <1>1, <1>b DEF StartTask
  <2>2. [Idle EXCEPT !.pc = "started", !.msg = m, !.fetchEnd = now].fetchEnd = now
    BY DEF Idle
  <2>3. task'[w].fetchEnd = task[w].fetchEnd \/ task'[w].fetchEnd = now
    BY <2>1, <2>2
  <2> QED
    BY <2>3, <1>a
<1>2. task'[w] = Idle => task'[w].fetchEnd <= now
  BY <1>a DEF Idle
<1>3. ASSUME \/ BeginSync(w) \/ FetchRecent(w) \/ FetchKev(w) \/ FetchFails(w)
             \/ \E o \in Orgs : NextOrg(w, o)
             \/ \E v \in Vendors : IngestVendor(w, v) \/ KeepVendor(w, v) \/ FinalizeVendor(w, v)
      PROVE  task'[w].fetchEnd = task[w].fetchEnd
  <2>1. CASE BeginSync(w)
    <3>1. task'[w] = [task[w] EXCEPT !.pc = "orgs", !.syncNow = now,
                        !.lastMod = watermark, !.rest = task[w].msg.vendors]
      BY <2>1 DEF BeginSync, SetTask, TypeOK
    <3> QED
      BY <3>1, <1>a DEF Task
  <2>2. ASSUME NEW o \in Orgs, NextOrg(w, o) PROVE task'[w].fetchEnd = task[w].fetchEnd
    <3> DEFINE group == {v \in task[w].rest : OrgOf[v] = o}
               found == {v \in group : Present(v)}
    <3>1. task'[w] = [task[w] EXCEPT !.pc = IF found = {} THEN "orgs" ELSE "vendors",
                        !.ingest = found, !.finalize = found, !.rest = @ \ group]
      BY <2>2 DEF NextOrg, SetTask, TypeOK
    <3> HIDE DEF group, found
    <3> QED
      BY <3>1, <1>a DEF Task
  <2>3. CASE FetchRecent(w) \/ FetchKev(w) \/ FetchFails(w)
    <3> DEFINE Set(f, p) == task'[w] = [task[w] EXCEPT !.fetch = f, !.payload = p]
    <3>1. CASE FetchRecent(w)
      <4>1. Set("recent", Recent(task[w].lastMod, task[w].fetchEnd))
        BY <3>1 DEF FetchRecent, SetTask, TypeOK
      <4> QED
        BY <4>1, <1>a DEF Task
    <3>2. CASE FetchKev(w)
      <4>1. Set("ok", WithKev(task[w].payload))
        BY <3>2 DEF FetchKev, SetTask, TypeOK
      <4> QED
        BY <4>1, <1>a DEF Task
    <3>3. CASE FetchFails(w)
      <4>1. Set("failed", NoCves)
        BY <3>3 DEF FetchFails, SetTask, TypeOK
      <4> QED
        BY <4>1, <1>a DEF Task
    <3> QED
      BY <2>3, <3>1, <3>2, <3>3
  <2>4. ASSUME NEW v \in Vendors, IngestVendor(w, v) \/ KeepVendor(w, v)
        PROVE  task'[w].fetchEnd = task[w].fetchEnd
    <3>1. task'[w] = [task[w] EXCEPT !.ingest = @ \ {v}]
      BY <2>4 DEF IngestVendor, KeepVendor, SetTask, TypeOK
    <3> QED
      BY <3>1, <1>a DEF Task
  <2>5. ASSUME NEW v \in Vendors, FinalizeVendor(w, v) PROVE task'[w].fetchEnd = task[w].fetchEnd
    <3>1. PICK pc \in {"orgs", "vendors"} :
            task'[w] = [task[w] EXCEPT !.finalize = @ \ {v}, !.pc = pc]
      BY <2>5 DEF FinalizeVendor, Snapshot, SetTask, TypeOK
    <3> QED
      BY <3>1, <1>a DEF Task
  <2> QED
    BY <1>3, <2>1, <2>2, <2>3, <2>4, <2>5
<1>4. CASE AdvanceWatermark(w)
  <2>1. task'[w] = task[w] \/ task'[w] = [Idle EXCEPT !.pc = "done", !.msg = task[w].msg]
    BY <1>4, <1>b DEF AdvanceWatermark
  <2>2. [Idle EXCEPT !.pc = "done", !.msg = task[w].msg].fetchEnd = 0
    BY DEF Idle
  <2> QED
    BY <2>1, <2>2, <1>a
<1>5. CASE ReleaseLock(w) \/ VendorGone(w)
  BY <1>5, <1>b, <1>2 DEF ReleaseLock, VendorGone, Retry, EndTask
<1>6. CASE UNCHANGED task
  BY <1>6
<1>7. CASE WorkerStep(w)
  BY <1>7, <1>1, <1>3, <1>4, <1>5, <1>6 DEF WorkerStep, SkipTask
<1>8. ASSUME NEW u \in Workers, u # w, WorkerStep(u) PROVE task'[w].fetchEnd <= now
  BY <1>8, OthersStand
<1>9. ASSUME NEW u \in Workers, SetTask(u, Idle) PROVE task'[w].fetchEnd <= now
  BY <1>9, <1>b, <1>2
<1> QED
  BY <1>a, <1>6, <1>7, <1>8, <1>9 DEF Frame

LEMMA DatedNext ==
  ASSUME TypeOK, TypeOK', FreshInv, [Next]_vars, Undisturbed', Undisturbed
  PROVE  Dated'
<1>a. Dated /\ \A w \in Workers : FreshTask(task[w])
  BY DEF FreshInv
<1>b. now \in Nat /\ now' \in Nat /\ now <= now' /\ Never = -1
  BY GrowsNext, TypedRows DEF Grows, TypeOK, Seconds
<1>1. ASSUME NEW c \in Cves
      PROVE  /\ cache'[c] <= nvd'[c].mod /\ nvd'[c].mod <= now'
             /\ nvd'[c].pub <= nvd'[c].mod
             /\ nvd'[c].pub = Never => nvd'[c].mod = Never
  <2>a. /\ cache[c] <= nvd[c].mod /\ nvd[c].mod <= now
        /\ nvd[c].pub <= nvd[c].mod
        /\ nvd[c].pub = Never => nvd[c].mod = Never
        /\ nvd[c].mod \in Int /\ nvd[c].pub \in Int /\ cache[c] \in Int /\ cache'[c] \in Int
        /\ nvd[c].mod >= -1
    BY <1>a, TypedRows DEF Dated, TypeOK, Payload, Stamps, Seconds, Never
  <2> DEFINE Renewed ==
        \/ nvd'[c] = nvd[c]
        \/ nvd'[c].mod = now /\ nvd'[c].pub \in {now, nvd[c].pub} /\ nvd'[c].pub # Never
  <2>1. CASE UNCHANGED <<nvd, cache>>
    BY <2>1, <2>a, <1>b
  <2>2. ASSUME NEW w \in Workers, NEW v \in Vendors, IngestVendor(w, v)
        PROVE  cache'[c] <= nvd[c].mod /\ UNCHANGED nvd
    BY <2>2, <2>a, <1>a, Ingested
  <2>3. ASSUME NvdStep, UNCHANGED cache
        PROVE  Renewed
    <3>1. ASSUME NEW d \in Cves, NvdPublish(d) PROVE Renewed
      BY <3>1, <1>b DEF NvdPublish, TypeOK
    <3>2. ASSUME NEW d \in Cves, NvdModify(d) PROVE Renewed
      <4>1. PICK k \in {nvd[d].kev, now} :
              nvd' = [nvd EXCEPT ![d] = [nvd[d] EXCEPT !.mod = now, !.kev = k]]
        BY <3>2 DEF NvdModify
      <4>2. nvd[d] \in [pub : Stamps, mod : Stamps, kev : Stamps] /\ nvd[d].pub # Never
        BY <3>2 DEF TypeOK, NvdModify
      <4>3. nvd'[d].mod = now /\ nvd'[d].pub = nvd[d].pub
        BY <4>1, <4>2 DEF TypeOK
      <4> QED
        BY <4>1, <4>2, <4>3 DEF TypeOK
    <3> QED
      BY <2>3, <3>1, <3>2 DEF NvdStep
  <2>4. CASE NvdStep /\ UNCHANGED cache
    BY <2>3, <2>4, <2>a, <1>b
  <2> QED
    BY <1>b, <2>1, <2>2, <2>4, <2>a, FrameNext, CacheSteps DEF Frame
<1>2. ASSUME NEW s \in covered' PROVE s < now'
  <2>1. CASE UNCHANGED covered
    BY <1>a, <1>b, <1>2, <2>1 DEF Dated, TypeOK, Seconds
  <2>2. ASSUME NEW w \in Workers, AdvanceWatermark(w) PROVE s < now'
    <3>1. s \in covered \/ (s \in Seconds /\ s < task[w].fetchEnd)
      BY <1>2, <2>2 DEF AdvanceWatermark
    <3>2. task[w].fetchEnd <= now /\ task[w].fetchEnd \in Nat
      BY <1>a, TypedRows DEF Dated
    <3> QED
      BY <1>a, <1>b, <3>1, <3>2 DEF Dated, TypeOK, Seconds
  <2> QED
    BY <2>1, <2>2, CoveredSteps
<1>3. ASSUME NEW w \in Workers PROVE task'[w].fetchEnd <= now'
  <2>1. task[w].fetchEnd <= now
    BY <1>a DEF Dated
  <2>2. task'[w].fetchEnd <= now
    BY <2>1, StartsInThePast
  <2>3. task'[w].fetchEnd \in Nat
    BY ClockLemma DEF TypeOK, Task
  <2> QED
    BY <1>b, <2>2, <2>3
<1> QED
  BY <1>1, <1>2, <1>3 DEF Dated

LEMMA FreshTasksNext ==
  ASSUME TypeOK, TypeOK', LockInv, DataInv, FreshInv, [Next]_vars, Undisturbed', Undisturbed,
         NEW w \in Workers
  PROVE  FreshTask(task[w])'
<1>a. Dated /\ lapsed = {} /\ \A u \in Workers : FreshTask(task[u])
  BY DEF FreshInv
<1>b. Revised /\ Frame
  BY RevisedNext, FrameNext
<1>1. CASE task'[w].pc \notin {"orgs", "vendors"}
  BY <1>1 DEF FreshTask
<1>2. CASE WorkerStep(w) /\ task'[w] # task[w]
  <2>1. TaskInv(task[w]) /\ FreshTask(task[w])
    BY <1>a DEF DataInv
  <2> QED
    BY <1>a, <1>2, <2>1, FreshSteps
<1>3. CASE task'[w] = task[w] /\ UNCHANGED cache
  BY <1>a, <1>b, <1>3, FreshKeeps
<1>4. ASSUME NEW u \in Workers, NEW v \in Vendors, IngestVendor(u, v),
             task'[w] = task[w], task[w].pc \in {"orgs", "vendors"}
      PROVE  FALSE
  <2>1. u \in Running /\ w \in Running /\ v \in task[u].ingest
    BY <1>4 DEF IngestVendor, Running
  <2>2. u = w
    BY <1>a, <2>1, Alone
  <2>3. task'[u] = [task[u] EXCEPT !.ingest = @ \ {v}] /\ task[u] \in Task
    BY <1>4 DEF IngestVendor, SetTask, TypeOK
  <2>4. v \notin task'[u].ingest
    BY <2>3 DEF Task
  <2> QED
    BY <1>4, <2>1, <2>2, <2>4
<1>5. ASSUME NEW u \in Workers, u # w, WorkerStep(u) PROVE task'[w] = task[w]
  BY <1>5, OthersStand
<1>6. ASSUME NEW u \in Workers, SetTask(u, Idle)
      PROVE  task'[w] = task[w] \/ task'[w].pc = "idle"
  BY <1>6 DEF SetTask, TypeOK, Idle
<1>7. CASE task'[w] = task[w]
  BY <1>1, <1>3, <1>4, <1>7, CacheSteps
<1> QED
  BY <1>b, <1>1, <1>2, <1>5, <1>6, <1>7 DEF Frame

LEMMA CachedNext ==
  ASSUME TypeOK, TypeOK', FreshInv, [Next]_vars, Undisturbed', Undisturbed
  PROVE  FetchedIsCached'
<1>a. /\ Dated /\ (\A w \in Workers : FreshTask(task[w]))
      /\ \A c \in Cves : nvd[c].mod \in covered => cache[c] = nvd[c].mod
  BY DEF FreshInv, FetchedIsCached
<1>b. Revised /\ Frame /\ now \in Nat
  BY RevisedNext, FrameNext, TypedRows
<1> SUFFICES ASSUME NEW c \in Cves, nvd'[c].mod \in covered' PROVE cache'[c] = nvd'[c].mod
  BY DEF FetchedIsCached
<1>c. /\ cache[c] \in Int /\ cache'[c] \in Int /\ nvd[c].mod \in Int /\ cache[c] <= nvd[c].mod
  BY <1>a, TypedRows DEF Dated, TypeOK, Payload, Stamps, Seconds, Never
<1>1. ASSUME NEW w \in Workers, AdvanceWatermark(w) PROVE cache'[c] = nvd'[c].mod
  <2>1. /\ UNCHANGED <<nvd, cache>> /\ task[w].pc = "orgs"
        /\ covered' = IF task[w].fetch = "ok"
                      THEN covered \cup {s \in Seconds : task[w].lastMod <= s /\ s < task[w].fetchEnd}
                      ELSE covered
    BY <1>1 DEF AdvanceWatermark
  <2>2. CASE nvd[c].mod \in covered
    BY <1>a, <2>1, <2>2
  <2>3. CASE nvd[c].mod \notin covered
    <3>1. /\ task[w].fetch = "ok" /\ nvd[c].mod \in Seconds
          /\ task[w].lastMod <= nvd[c].mod /\ nvd[c].mod < task[w].fetchEnd
      BY <2>1, <2>3
    <3>2. nvd[c].mod # Never
      BY <3>1 DEF Seconds, Never
    <3>3. task[w].payload[c] = nvd[c].mod
      BY <1>a, <2>1, <3>1, <3>2 DEF FreshTask
    <3>4. c \in Fetched(task[w].payload)
      BY <3>2, <3>3 DEF Fetched
    <3>5. cache[c] = task[w].payload[c]
      BY <1>a, <2>1, <3>1, <3>4 DEF FreshTask
    <3> QED
      BY <2>1, <3>3, <3>5
  <2> QED
    BY <2>2, <2>3
<1>2. CASE UNCHANGED covered
  <2>1. nvd'[c].mod # now
    BY <1>a, <1>b, <1>2 DEF Dated
  <2>2. nvd'[c].mod = nvd[c].mod
    BY <1>b, <2>1 DEF Revised
  <2>3. cache[c] = nvd[c].mod
    BY <1>a, <1>2, <2>2
  <2>4. ASSUME NEW w \in Workers, NEW v \in Vendors, IngestVendor(w, v) PROVE cache'[c] = cache[c]
    <3>1. cache'[c] = cache[c] \/ (cache[c] <= cache'[c] /\ cache'[c] <= nvd[c].mod)
      BY <1>a, <2>4, Ingested
    <3> QED
      BY <1>c, <2>3, <3>1
  <2>5. cache'[c] = cache[c]
    BY <2>4, CacheSteps
  <2> QED
    BY <2>2, <2>3, <2>5
<1> QED
  BY <1>1, <1>2, CoveredSteps

LEMMA FreshHolds == Spec => [](TypeOK /\ FreshInv)
<1>1. Init => FreshInv
  BY TimeAssumption DEF Init, FreshInv, NoClick, Dated, NoCves, Never, Idle, FreshTask, FetchedIsCached
<1>2. TypeOK /\ LockInv /\ DataInv /\ FreshInv /\ [Next]_vars => FreshInv'
  <2> SUFFICES ASSUME TypeOK, LockInv, DataInv, FreshInv, [Next]_vars, Undisturbed'
               PROVE  /\ click'.pc = "idle" /\ lapsed' = {} /\ Dated'
                      /\ (\A w \in Workers : FreshTask(task[w]))' /\ FetchedIsCached'
    BY DEF FreshInv
  <2>1. TypeOK'
    BY TypeNext
  <2>2. Undisturbed /\ click'.pc = "idle" /\ lapsed' = {}
    BY CalmBefore
  <2> QED
    BY <2>1, <2>2, DatedNext, FreshTasksNext, CachedNext
<1>3. Init => LockInv
  BY DEF Init, LockInv, Running, Idle
<1> QED
  BY <1>1, <1>2, <1>3, LockNext, DataHolds, TypeCorrect, PTL DEF Spec

\* Undisturbed, the cache has every change that a completed fetch has asked for.
THEOREM FetchedStays == Spec => []FetchedIsCached
<1>1. FreshInv => FetchedIsCached
  BY DEF FreshInv, FetchedIsCached
<1> QED
  BY <1>1, FreshHolds, PTL

\* Undisturbed, no step takes the cache back to an older version.
THEOREM NothingRegresses == Spec => CacheNeverRegresses
<1> DEFINE Newer == Undisturbed' => \A c \in Cves : cache'[c] >= cache[c]
<1>1. ASSUME TypeOK, FreshInv, [Next]_vars PROVE Newer
  <2> SUFFICES ASSUME Undisturbed', NEW c \in Cves PROVE cache'[c] >= cache[c]
    OBVIOUS
  <2>1. TypeOK' /\ Undisturbed
    BY <1>1, TypeNext, CalmBefore
  <2>2. cache[c] \in Int /\ cache'[c] \in Int
    BY <1>1, <2>1, ClockLemma DEF TypeOK, Payload
  <2>3. \A w \in Workers : FreshTask(task[w])
    BY <1>1, <2>1 DEF FreshInv
  <2>4. ASSUME NEW w \in Workers, NEW v \in Vendors, IngestVendor(w, v) PROVE cache[c] <= cache'[c]
    BY <1>1, <2>2, <2>3, <2>4, Ingested
  <2> QED
    BY <1>1, <2>2, <2>4, CacheSteps
<1>2. TypeOK /\ FreshInv /\ [Next]_vars => [Newer]_vars
  BY <1>1
<1> QED
  BY <1>2, FreshHolds, PTL DEF Spec, CacheNeverRegresses
=============================================================================
