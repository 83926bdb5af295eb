-------------------------- MODULE ExportJobs_proof --------------------------
(* Theorems about ExportJobs, for every value of its constants.             *)
EXTENDS ExportJobs, FiniteSetTheorems, TLAPS

LEMMA ConstantFacts ==
  /\ OrgOf \in [Jobs -> Orgs] /\ NoJob \notin Jobs
  /\ Timely \in BOOLEAN /\ Cap \in Nat \ {0}
  BY OwnerAssumption, TimelyAssumption, CapAssumption

-----------------------------------------------------------------------------
(* Types.                                                                  *)

Requests == [pc : {"idle", "counted", "inserted", "undelivered"},
             org : Orgs \cup {NoJob}, job : Jobs \cup {NoJob}]
Works == [pc : {"idle", "claimed", "loaded", "noOrg", "rendering", "stored", "failing"},
          job : Jobs \cup {NoJob}]
Purges == [pc : {"idle", "deleting"}, todo : SUBSET Keys, done : SUBSET Keys,
           stuck : SUBSET Jobs]

LEMMA Blank == NoRequest \in Requests /\ NoWork \in Works /\ NoPurge \in Purges
  BY DEF NoRequest, NoWork, NoPurge, Requests, Works, Purges

LEMMA RequestType ==
  ASSUME TypeOK, NEW c \in Clients, NEW r \in Requests, SetRequest(c, r)
  PROVE  request' \in [Clients -> Requests]
  BY DEF TypeOK, SetRequest, Requests

LEMMA WorkType ==
  ASSUME TypeOK, NEW w \in Workers, NEW t \in Works, SetWork(w, t)
  PROVE  work' \in [Workers -> Works]
  BY DEF TypeOK, SetWork, Works

LEMMA PurgeType ==
  ASSUME TypeOK, NEW p \in Purgers, NEW r \in Purges, SetPurge(p, r)
  PROVE  purge' \in [Purgers -> Purges]
  BY DEF TypeOK, SetPurge, Purges

LEMMA Members ==
  ASSUME TypeOK
  PROVE  /\ \A c \in Clients : request[c] \in Requests
         /\ \A w \in Workers : work[w] \in Works
         /\ \A p \in Purgers : purge[p] \in Purges
  BY DEF TypeOK, Requests, Works, Purges

LEMMA FailType ==
  ASSUME TypeOK, NEW J, FailActive(J)
  PROVE  /\ status' \in [Jobs -> Statuses] /\ error' \in [Jobs -> BOOLEAN]
         /\ \A j \in Jobs : status'[j] = "succeeded" => status[j] = "succeeded"
  BY DEF TypeOK, FailActive, Statuses

LEMMA KeyType == ASSUME TypeOK, NEW j \in Jobs PROVE KeyOf(j) \in Keys
  BY DEF TypeOK, KeyOf, Keys

\* What moves jobs and keys between the variables moves no NoJob and no NoKey:
\* whoever is in a task or a request has a job, and a file that is ready a key.
JobInHand == /\ \A w \in Workers : work[w].pc # "idle" => work[w].job \in Jobs
             /\ \A c \in Clients : request[c].pc \in {"inserted", "undelivered"} =>
                                     request[c].job \in Jobs
             /\ \A j \in Jobs : status[j] = "succeeded" => objectKey[j] \in Keys

TypeInv == TypeOK /\ JobInHand

LEMMA TypeInit == Init => TypeInv
<1> SUFFICES ASSUME Init PROVE TypeInv
  OBVIOUS
<1>1. /\ request \in [Clients -> Requests] /\ work \in [Workers -> Works]
      /\ purge \in [Purgers -> Purges]
  BY Blank DEF Init
<1>2. JobInHand
  BY DEF Init, JobInHand, NoWork, NoRequest
<1> QED
  BY <1>1, <1>2 DEF Init, TypeInv, TypeOK, Statuses, Requests, Works, Purges

LEMMA RequestStepType ==
  ASSUME TypeInv, NEW c \in Clients,
         RequestStep(c) \/ (\E o \in Orgs : CountActive(c, o))
           \/ DispatchFails(c) \/ RequestDies(c)
  PROVE  TypeInv'
<1> USE Members, Blank DEF TypeInv
<1>1. ASSUME NEW o \in Orgs, CountActive(c, o) PROVE TypeInv'
  <2>1. [pc |-> "counted", org |-> o, job |-> NoJob] \in Requests
    BY DEF Requests
  <2>2. request' \in [Clients -> Requests]
    BY <1>1, <2>1, RequestType DEF CountActive
  <2> QED
    BY <1>1, <2>2 DEF CountActive, SetRequest, TypeOK, JobInHand, rows, Requests
<1>2. ASSUME NEW j \in Jobs, InsertJob(c, j) PROVE TypeInv'
  <2>1. [request[c] EXCEPT !.pc = "inserted", !.job = j] \in Requests
    BY DEF Requests
  <2>2. request' \in [Clients -> Requests]
    BY <1>2, <2>1, RequestType DEF InsertJob
  <2>3. status' \in [Jobs -> Statuses]
    BY <1>2 DEF InsertJob, TypeOK, Statuses
  <2> QED
    BY <1>2, <2>2, <2>3 DEF InsertJob, SetRequest, TypeOK, JobInHand, Requests
<1>3. CASE RequestRefused(c)
  <2>1. request' \in [Clients -> Requests]
    BY <1>3, RequestType DEF RequestRefused
  <2> QED
    BY <1>3, <2>1 DEF RequestRefused, SetRequest, NoRequest, TypeOK, JobInHand, rows, Requests
<1>4. CASE Dispatch(c)
  <2>1. request' \in [Clients -> Requests]
    BY <1>4, RequestType DEF Dispatch
  <2> QED
    BY <1>4, <2>1 DEF Dispatch, SetRequest, NoRequest, TypeOK, JobInHand, rows, Requests
<1>5. CASE MarkUndelivered(c)
  <2>1. request' \in [Clients -> Requests]
    BY <1>5, RequestType DEF MarkUndelivered
  <2>2. /\ status' \in [Jobs -> Statuses] /\ error' \in [Jobs -> BOOLEAN]
        /\ \A j \in Jobs : status'[j] = "succeeded" => status[j] = "succeeded"
    BY <1>5, FailType DEF MarkUndelivered
  <2> QED
    BY <1>5, <2>1, <2>2
       DEF MarkUndelivered, SetRequest, NoRequest, TypeOK, JobInHand, Requests
<1>6. CASE DispatchFails(c)
  <2>1. [request[c] EXCEPT !.pc = "undelivered"] \in Requests
    BY DEF Requests
  <2>2. request' \in [Clients -> Requests]
    BY <1>6, <2>1, RequestType DEF DispatchFails
  <2> QED
    BY <1>6, <2>2 DEF DispatchFails, SetRequest, Fault, TypeOK, JobInHand, rows, Requests
<1>7. CASE RequestDies(c)
  <2>1. request' \in [Clients -> Requests]
    BY <1>7, RequestType DEF RequestDies
  <2> QED
    BY <1>7, <2>1
       DEF RequestDies, SetRequest, NoRequest, Fault, TypeOK, JobInHand, rows, Requests
<1> QED
  BY <1>1, <1>2, <1>3, <1>4, <1>5, <1>6, <1>7 DEF RequestStep

LEMMA WorkerStepType ==
  ASSUME TypeInv, NEW w \in Workers,
         WorkerStep(w) \/ PutUnsure(w) \/ WorkerCrash(w) \/ Redeliver(w)
  PROVE  TypeInv'
<1> USE Members, Blank DEF TypeInv
<1>a. \A t \in Works : /\ [t EXCEPT !.pc = "loaded"] \in Works
                       /\ [t EXCEPT !.pc = "rendering"] \in Works
                       /\ [t EXCEPT !.pc = "noOrg"] \in Works
                       /\ [t EXCEPT !.pc = "stored"] \in Works
                       /\ [t EXCEPT !.pc = "failing"] \in Works
  BY DEF Works
<1>1. ASSUME NEW j \in broker, Claim(w, j) PROVE TypeInv'
  <2>1. j \in Jobs
    BY DEF TypeOK
  <2>2. [pc |-> "claimed", job |-> j] \in Works
    BY <2>1 DEF Works
  <2>3. work' \in [Workers -> Works]
    BY <1>1, <2>2, WorkType DEF Claim
  <2>4. claims' \in [Jobs -> Nat] /\ status' \in [Jobs -> Statuses]
    BY <1>1, <2>1 DEF Claim, TypeOK, Statuses
  <2> QED
    BY <1>1, <2>1, <2>3, <2>4 DEF Claim, SetWork, TypeOK, JobInHand, Works
<1>2. ASSUME NEW j \in broker, Discard(w, j) PROVE TypeInv'
  BY <1>2 DEF Discard, TypeOK, JobInHand, rows
<1>3. CASE LoadJob(w)
  <2>1. work' \in [Workers -> Works]
    BY <1>3, <1>a, WorkType DEF LoadJob
  <2> QED
    BY <1>3, <2>1 DEF LoadJob, SetWork, NoWork, TypeOK, JobInHand, rows, Works
<1>4. CASE LoadOrg(w)
  <2>1. work' \in [Workers -> Works]
    BY <1>4, <1>a, WorkType DEF LoadOrg
  <2> QED
    BY <1>4, <2>1 DEF LoadOrg, SetWork, TypeOK, JobInHand, rows, Works
<1>5. CASE AssertFails(w)
  <2>1. work' \in [Workers -> Works]
    BY <1>5, WorkType DEF AssertFails
  <2> QED
    BY <1>5, <2>1 DEF AssertFails, SetWork, NoWork, TypeOK, JobInHand, rows, Works
<1>6. CASE Put(w)
  <2>1. work' \in [Workers -> Works]
    BY <1>6, <1>a, WorkType DEF Put
  <2>2. KeyOf(work[w].job) \in Keys
    BY <1>6, KeyType DEF Put, JobInHand
  <2> QED
    BY <1>6, <2>1, <2>2 DEF Put, SetWork, TypeOK, JobInHand, rows, Works
<1>7. CASE RenderFails(w)
  <2>1. work' \in [Workers -> Works]
    BY <1>7, <1>a, WorkType DEF RenderFails
  <2> QED
    BY <1>7, <2>1 DEF RenderFails, SetWork, TypeOK, JobInHand, rows, Works
<1>8. CASE MarkFailed(w)
  <2>1. work' \in [Workers -> Works]
    BY <1>8, WorkType DEF MarkFailed
  <2>2. /\ status' \in [Jobs -> Statuses] /\ error' \in [Jobs -> BOOLEAN]
        /\ \A j \in Jobs : status'[j] = "succeeded" => status[j] = "succeeded"
    BY <1>8, FailType DEF MarkFailed
  <2> QED
    BY <1>8, <2>1, <2>2 DEF MarkFailed, SetWork, NoWork, TypeOK, JobInHand, Works
<1>9. CASE Complete(w)
  <2>1. work' \in [Workers -> Works]
    BY <1>9, WorkType DEF Complete
  <2>2. work[w].job \in Jobs /\ KeyOf(work[w].job) \in Keys
    BY <1>9, KeyType DEF Complete, JobInHand
  <2>3. /\ status' \in [Jobs -> Statuses]
        /\ objectKey' \in [Jobs -> Keys \cup {NoKey}]
        /\ past' \in [Jobs -> BOOLEAN]
        /\ \A j \in Jobs : status'[j] = "succeeded" => objectKey'[j] \in Keys
    <3>1. CASE status[work[w].job] = "deleted"
      BY <1>9, <3>1 DEF Complete, TypeOK, JobInHand
    <3>2. CASE status[work[w].job] # "deleted"
      <4>1. /\ status' = [status EXCEPT ![work[w].job] = "succeeded"]
            /\ objectKey' = [objectKey EXCEPT ![work[w].job] = KeyOf(work[w].job)]
            /\ past' = [past EXCEPT ![work[w].job] = FALSE]
        BY <1>9, <3>2 DEF Complete
      <4>2. status' \in [Jobs -> Statuses] /\ past' \in [Jobs -> BOOLEAN]
        BY <4>1 DEF TypeOK, Statuses
      <4>3. objectKey' \in [Jobs -> Keys \cup {NoKey}]
        BY <2>2, <4>1 DEF TypeOK
      <4> QED
        BY <2>2, <4>1, <4>2, <4>3 DEF TypeOK, JobInHand
    <3> QED
      BY <3>1, <3>2
  <2>4. JobInHand'
    BY <1>9, <2>1, <2>3 DEF Complete, SetWork, NoWork, TypeOK, JobInHand, Works
  <2> QED
    BY <1>9, <2>1, <2>3, <2>4 DEF Complete, TypeOK, Works
<1>10. CASE PutUnsure(w)
  <2>1. work' \in [Workers -> Works]
    BY <1>10, <1>a, WorkType DEF PutUnsure
  <2>2. KeyOf(work[w].job) \in Keys
    BY <1>10, KeyType DEF PutUnsure, JobInHand
  <2> QED
    BY <1>10, <2>1, <2>2 DEF PutUnsure, Fault, SetWork, TypeOK, JobInHand, rows, Works
<1>11. CASE WorkerCrash(w)
  <2>1. work' \in [Workers -> Works]
    BY <1>11, WorkType DEF WorkerCrash
  <2>2. broker' \subseteq Jobs
    BY <1>11 DEF WorkerCrash, JobInHand, TypeOK
  <2> QED
    BY <1>11, <2>1, <2>2 DEF WorkerCrash, Fault, SetWork, NoWork, TypeOK, JobInHand, rows, Works
<1>12. CASE Redeliver(w)
  BY <1>12 DEF Redeliver, Fault, TypeOK, JobInHand, rows
<1> QED
  BY <1>1, <1>2, <1>3, <1>4, <1>5, <1>6, <1>7, <1>8, <1>9, <1>10, <1>11, <1>12
     DEF WorkerStep

LEMMA PurgeStepType ==
  ASSUME TypeInv, NEW p \in Purgers,
         \/ PurgeStep(p) \/ PurgeCrash(p)
         \/ \E k \in purge[p].todo : PurgeDeleteFails(p, k)
  PROVE  TypeInv'
<1> USE Members, Blank DEF TypeInv
<1>1. CASE PurgeStart(p)
  <2>1. {objectKey[j] : j \in Overdue} \subseteq Keys
    BY DEF Overdue, JobInHand
  <2>2. [pc |-> "deleting", todo |-> {objectKey[j] : j \in Overdue}, done |-> {},
         stuck |-> {j \in Jobs : stale[j]}] \in Purges
    BY <2>1 DEF Purges
  <2>3. purge' \in [Purgers -> Purges]
    BY <1>1, <2>2, PurgeType DEF PurgeStart
  <2> QED
    BY <1>1, <2>3 DEF PurgeStart, TypeOK, JobInHand, rows, Purges
<1>2. ASSUME NEW k \in purge[p].todo, PurgeDelete(p, k) PROVE TypeInv'
  <2>1. [purge[p] EXCEPT !.todo = @ \ {k}, !.done = @ \cup {k}] \in Purges
    BY DEF Purges
  <2>2. purge' \in [Purgers -> Purges]
    BY <1>2, <2>1, PurgeType DEF PurgeDelete
  <2> QED
    BY <1>2, <2>2 DEF PurgeDelete, TypeOK, JobInHand, rows, Purges
<1>3. ASSUME NEW k \in purge[p].todo, PurgeDeleteFails(p, k) PROVE TypeInv'
  <2>1. [purge[p] EXCEPT !.todo = @ \ {k}] \in Purges
    BY DEF Purges
  <2>2. purge' \in [Purgers -> Purges]
    BY <1>3, <2>1, PurgeType DEF PurgeDeleteFails
  <2> QED
    BY <1>3, <2>2 DEF PurgeDeleteFails, Fault, TypeOK, JobInHand, rows, Purges
<1>4. CASE PurgeCommit(p)
  <2>1. purge' \in [Purgers -> Purges]
    BY <1>4, PurgeType DEF PurgeCommit
  <2>2. /\ status' \in [Jobs -> Statuses]
        /\ error' \in [Jobs -> BOOLEAN]
        /\ objectKey' \in [Jobs -> Keys \cup {NoKey}]
    BY <1>4 DEF PurgeCommit, TypeOK, Statuses
  <2>3. \A j \in Jobs : status'[j] = "succeeded" => objectKey'[j] \in Keys
    BY <1>4 DEF PurgeCommit, TypeOK, JobInHand
  <2> QED
    BY <1>4, <2>1, <2>2, <2>3 DEF PurgeCommit, TypeOK, JobInHand, Purges
<1>5. CASE PurgeAborts(p)
  <2>1. purge' \in [Purgers -> Purges]
    BY <1>5, PurgeType DEF PurgeAborts
  <2> QED
    BY <1>5, <2>1 DEF PurgeAborts, TypeOK, JobInHand, rows, Purges
<1>6. CASE PurgeCrash(p)
  <2>1. purge' \in [Purgers -> Purges]
    BY <1>6, PurgeType DEF PurgeCrash
  <2> QED
    BY <1>6, <2>1 DEF PurgeCrash, Fault, TypeOK, JobInHand, rows, Purges
<1> QED
  BY <1>1, <1>2, <1>3, <1>4, <1>5, <1>6 DEF PurgeStep

LEMMA OtherStepType ==
  ASSUME TypeInv, Time \/ (\E o \in Orgs : DeleteOrg(o)) \/ UNCHANGED vars
  PROVE  TypeInv'
<1> USE DEF TypeInv
<1>1. ASSUME NEW j \in Jobs, GrowStale(j) PROVE TypeInv'
  BY <1>1 DEF GrowStale, TypeOK, JobInHand
<1>2. ASSUME NEW j \in Jobs, OutlastRetention(j) PROVE TypeInv'
  BY <1>2 DEF OutlastRetention, TypeOK, JobInHand
<1>3. ASSUME NEW o \in Orgs, DeleteOrg(o) PROVE TypeInv'
  <2>1. /\ status' \in [Jobs -> Statuses]
        /\ objectKey' \in [Jobs -> Keys \cup {NoKey}]
        /\ orgs' \subseteq Orgs
    BY <1>3 DEF DeleteOrg, TypeOK, Statuses
  <2>2. \A j \in Jobs : status'[j] = "succeeded" => objectKey'[j] \in Keys
    BY <1>3 DEF DeleteOrg, TypeOK, JobInHand
  <2> QED
    BY <1>3, <2>1, <2>2 DEF DeleteOrg, TypeOK, JobInHand
<1>4. CASE UNCHANGED vars
  BY <1>4 DEF vars, rows, TypeOK, JobInHand
<1> QED
  BY <1>1, <1>2, <1>3, <1>4 DEF Time

LEMMA TypeNext == TypeInv /\ [Next]_vars => TypeInv'
  BY RequestStepType, WorkerStepType, PurgeStepType, OtherStepType DEF Next, Faults

\* Every variable has its type, in every reachable state.
THEOREM TypeCorrect == Spec => []TypeOK
<1>1. Spec => []TypeInv
  BY TypeInit, TypeNext, PTL DEF Spec
<1>2. TypeInv => TypeOK
  BY DEF TypeInv
<1> QED
  BY <1>1, <1>2, PTL

-----------------------------------------------------------------------------
(* Safety.  ClaimInv and FileInv are inductive together: a purge only has    *)
(* the keys of jobs in hand that no worker will touch again.                *)

LEMMA KeyFacts ==
  /\ \A j \in Jobs : KeyOf(j)[1] = j
  /\ \A k \in Keys : k[1] \in Jobs
  BY DEF KeyOf, Keys

\* Steps that neither claim, store, complete nor delete a file.
WorkQuiet ==
  \A w \in Workers :
    \/ work'[w] = work[w]
    \/ work'[w] = NoWork
    \/ /\ work[w].pc # "idle" /\ work'[w].pc # "idle"
       /\ work'[w].job = work[w].job
       /\ work'[w].pc # "stored"

StatusQuiet ==
  \A j \in Jobs :
    \/ status'[j] = status[j] /\ objectKey'[j] = objectKey[j]
    \/ status[j] = "none" /\ status'[j] = "queued"
    \/ status[j] \in ACTIVE /\ status'[j] = "failed"
    \/ status[j] # "none" /\ status'[j] = "deleted"

LEMMA QuietClaims ==
  ASSUME TypeInv, SafeInv, WorkQuiet, StatusQuiet, UNCHANGED <<objects, claims>>
  PROVE  ClaimInv' /\ \A j \in Jobs : ~Held(j) => ~Held(j)'
<1> USE ConstantFacts, Members
<1>1. \A w \in Workers : work'[w].job \in {work[w].job, NoJob}
  BY DEF WorkQuiet, NoWork
<1>2. \A j \in Jobs : Held(j)' => Held(j)
  BY <1>1 DEF Held
<1>3. \A w \in Workers : (work'[w].pc = "idle") <=> (work'[w].job = NoJob)
  BY DEF WorkQuiet, NoWork, SafeInv, ClaimInv
<1>4. \A v, w \in Workers : work'[v].job = work'[w].job /\ work'[v].job # NoJob => v = w
  BY <1>1 DEF SafeInv, ClaimInv
<1>5. \A j \in Jobs : Held(j)' => claims'[j] = 1 /\ status'[j] \in {"running", "failed", "deleted"}
  BY <1>2 DEF SafeInv, ClaimInv, StatusQuiet
<1>6. \A j \in Jobs : claims'[j] <= 1 /\ (status'[j] \in {"none", "queued"} => claims'[j] = 0)
  BY DEF SafeInv, ClaimInv, StatusQuiet
<1>7. \A k \in objects' : claims'[k[1]] = 1 /\ k = KeyOf(k[1])'
  BY DEF SafeInv, ClaimInv, KeyOf
<1> QED
  BY <1>2, <1>3, <1>4, <1>5, <1>6, <1>7 DEF ClaimInv

LEMMA Quiet ==
  ASSUME TypeInv, SafeInv, WorkQuiet, StatusQuiet, UNCHANGED <<objects, claims, past, purge>>
  PROVE  SafeInv'
<1> USE ConstantFacts, Members, KeyFacts
<1>1. ClaimInv' /\ \A j \in Jobs : ~Held(j) => ~Held(j)'
  BY QuietClaims
<1>2. \A w \in Workers : work'[w].pc = "stored" => KeyOf(work[w].job)' \in objects'
  BY DEF WorkQuiet, NoWork, SafeInv, FileInv, KeyOf
<1>3. \A j \in Jobs : status'[j] \in {"succeeded", "expired"} =>
                        status'[j] = status[j] /\ objectKey'[j] = objectKey[j]
  BY DEF StatusQuiet
<1>4. \A j \in Jobs : status'[j] = "succeeded" => objectKey'[j] = KeyOf(j)' /\ claims'[j] = 1
  BY <1>3 DEF SafeInv, FileInv, KeyOf
<1>5. \A k : Retired(k) => Retired(k)'
  <2> SUFFICES ASSUME NEW k, Retired(k) PROVE Retired(k)'
    OBVIOUS
  <2>1. k[1] \in Jobs /\ k \in Keys
    BY DEF Retired
  <2>2. status'[k[1]] \in {"succeeded", "expired", "deleted"}
    BY <2>1 DEF Retired, StatusQuiet, ACTIVE
  <2>3. KeyOf(k[1])' = KeyOf(k[1])
    BY DEF KeyOf
  <2> QED
    BY <1>1, <2>1, <2>2, <2>3 DEF Retired
<1>6. \A p \in Purgers : /\ \A k \in purge'[p].todo \cup purge'[p].done : Retired(k)'
                          /\ purge'[p].done \cap objects' = {}
  BY <1>5 DEF SafeInv, FileInv
<1>7. ReadyHasFile'
  BY <1>3 DEF SafeInv, FileInv, ReadyHasFile, Downloadable
<1>8. ExpiredIsGone'
  BY <1>3 DEF SafeInv, FileInv, ExpiredIsGone
<1> QED
  BY <1>1, <1>2, <1>4, <1>6, <1>7, <1>8 DEF SafeInv, FileInv

LEMMA QuietSteps ==
  ASSUME TypeInv, SafeInv,
         \/ \E c \in Clients : RequestStep(c) \/ DispatchFails(c) \/ RequestDies(c)
                                 \/ \E o \in Orgs : CountActive(c, o)
         \/ \E w \in Workers :
               \/ \E j \in broker : Discard(w, j)
               \/ LoadJob(w) \/ LoadOrg(w) \/ AssertFails(w) \/ RenderFails(w)
               \/ MarkFailed(w) \/ WorkerCrash(w) \/ Redeliver(w)
         \/ \E j \in Jobs : GrowStale(j)
         \/ \E o \in Orgs : DeleteOrg(o)
         \/ UNCHANGED vars
  PROVE  SafeInv'
<1> USE Members, ConstantFacts DEF TypeInv
<1>a. UNCHANGED work => WorkQuiet
  BY DEF WorkQuiet
<1>b. UNCHANGED <<status, objectKey>> => StatusQuiet
  BY DEF StatusQuiet
<1>c. ASSUME NEW J, FailActive(J), UNCHANGED objectKey PROVE StatusQuiet
  BY <1>c DEF FailActive, StatusQuiet
<1>d. ASSUME NEW w \in Workers, NEW t \in Works, SetWork(w, t),
             t = NoWork \/ (work[w].pc # "idle" /\ t.job = work[w].job
                              /\ t.pc \notin {"idle", "stored"})
      PROVE  WorkQuiet
  BY <1>d DEF WorkQuiet, SetWork, TypeOK
<1>e. \A t \in Works : /\ [t EXCEPT !.pc = "loaded"] \in Works
                       /\ [t EXCEPT !.pc = "rendering"] \in Works
                       /\ [t EXCEPT !.pc = "noOrg"] \in Works
                       /\ [t EXCEPT !.pc = "failing"] \in Works
  BY DEF Works
<1>1. ASSUME NEW c \in Clients, NEW o \in Orgs, CountActive(c, o) PROVE SafeInv'
  BY <1>1, <1>a, <1>b, Quiet DEF CountActive, rows
<1>2. ASSUME NEW c \in Clients, NEW j \in Jobs, InsertJob(c, j) PROVE SafeInv'
  <2>1. StatusQuiet
    BY <1>2 DEF InsertJob, StatusQuiet, TypeOK
  <2> QED
    BY <1>2, <1>a, <2>1, Quiet DEF InsertJob
<1>3. ASSUME NEW c \in Clients, RequestRefused(c) PROVE SafeInv'
  BY <1>3, <1>a, <1>b, Quiet DEF RequestRefused, rows
<1>4. ASSUME NEW c \in Clients, Dispatch(c) PROVE SafeInv'
  BY <1>4, <1>a, <1>b, Quiet DEF Dispatch, rows
<1>5. ASSUME NEW c \in Clients, MarkUndelivered(c) PROVE SafeInv'
  BY <1>5, <1>a, <1>c, Quiet DEF MarkUndelivered
<1>6. ASSUME NEW c \in Clients, DispatchFails(c) PROVE SafeInv'
  BY <1>6, <1>a, <1>b, Quiet DEF DispatchFails, rows
<1>7. ASSUME NEW c \in Clients, RequestDies(c) PROVE SafeInv'
  BY <1>7, <1>a, <1>b, Quiet DEF RequestDies, rows
<1>8. ASSUME NEW w \in Workers, NEW j \in broker, Discard(w, j) PROVE SafeInv'
  BY <1>8, <1>a, <1>b, Quiet DEF Discard, rows
<1>9. ASSUME NEW w \in Workers, LoadJob(w) PROVE SafeInv'
  <2>1. WorkQuiet
    BY <1>9, <1>d, <1>e, Blank DEF LoadJob, Works
  <2> QED
    BY <1>9, <1>b, <2>1, Quiet DEF LoadJob, rows
<1>10. ASSUME NEW w \in Workers, LoadOrg(w) PROVE SafeInv'
  <2>1. WorkQuiet
    BY <1>10, <1>d, <1>e DEF LoadOrg, Works
  <2> QED
    BY <1>10, <1>b, <2>1, Quiet DEF LoadOrg, rows
<1>11. ASSUME NEW w \in Workers, AssertFails(w) PROVE SafeInv'
  <2>1. WorkQuiet
    BY <1>11, <1>d, Blank DEF AssertFails
  <2> QED
    BY <1>11, <1>b, <2>1, Quiet DEF AssertFails, rows
<1>12. ASSUME NEW w \in Workers, RenderFails(w) PROVE SafeInv'
  <2>1. WorkQuiet
    BY <1>12, <1>d, <1>e DEF RenderFails, Works
  <2> QED
    BY <1>12, <1>b, <2>1, Quiet DEF RenderFails, rows
<1>13. ASSUME NEW w \in Workers, MarkFailed(w) PROVE SafeInv'
  <2>1. WorkQuiet
    BY <1>13, <1>d, Blank DEF MarkFailed
  <2> QED
    BY <1>13, <1>c, <2>1, Quiet DEF MarkFailed
<1>14. ASSUME NEW w \in Workers, WorkerCrash(w) PROVE SafeInv'
  <2>1. WorkQuiet
    BY <1>14, <1>d, Blank DEF WorkerCrash
  <2> QED
    BY <1>14, <1>b, <2>1, Quiet DEF WorkerCrash, rows
<1>15. ASSUME NEW w \in Workers, Redeliver(w) PROVE SafeInv'
  BY <1>15, <1>a, <1>b, Quiet DEF Redeliver, rows
<1>16. ASSUME NEW j \in Jobs, GrowStale(j) PROVE SafeInv'
  BY <1>16, <1>a, <1>b, Quiet DEF GrowStale
<1>17. ASSUME NEW o \in Orgs, DeleteOrg(o) PROVE SafeInv'
  <2>1. StatusQuiet
    BY <1>17 DEF DeleteOrg, StatusQuiet
  <2> QED
    BY <1>17, <1>a, <2>1, Quiet DEF DeleteOrg
<1>18. CASE UNCHANGED vars
  BY <1>18, <1>a, <1>b, Quiet DEF vars, rows
<1> QED
  BY <1>1, <1>2, <1>3, <1>4, <1>5, <1>6, <1>7, <1>8, <1>9, <1>10, <1>11, <1>12,
     <1>13, <1>14, <1>15, <1>16, <1>17, <1>18 DEF RequestStep

LEMMA ClaimSafe ==
  ASSUME TypeInv, SafeInv, NEW w \in Workers, NEW j \in broker, Claim(w, j)
  PROVE  SafeInv'
<1> USE ConstantFacts, Members, KeyFacts DEF TypeInv
<1>0. /\ j \in Jobs /\ status[j] = "queued" /\ claims[j] = 0
      /\ ~Held(j) /\ \A k \in objects : k[1] # j
  BY DEF Claim, Claimable, TypeOK, SafeInv, ClaimInv
<1>1. /\ work'[w] = [pc |-> "claimed", job |-> j]
      /\ \A v \in Workers \ {w} : work'[v] = work[v]
  BY DEF Claim, SetWork, TypeOK
<1>2. \A i \in Jobs \ {j} : /\ status'[i] = status[i] /\ claims'[i] = claims[i]
                             /\ KeyOf(i)' = KeyOf(i) /\ (Held(i)' => Held(i))
  BY <1>0, <1>1 DEF Claim, TypeOK, KeyOf, Held
<1>3. status'[j] = "running" /\ claims'[j] = 1
  BY <1>0 DEF Claim, TypeOK
<1>4. UNCHANGED <<objects, objectKey, past, purge>>
  BY DEF Claim
<1>5. ClaimInv'
  <2>1. \A v \in Workers : (work'[v].pc = "idle") <=> (work'[v].job = NoJob)
    BY <1>0, <1>1 DEF SafeInv, ClaimInv
  <2>2. \A u, v \in Workers : work'[u].job = work'[v].job /\ work'[u].job # NoJob => u = v
    BY <1>0, <1>1 DEF SafeInv, ClaimInv, Held
  <2>3. \A i \in Jobs : Held(i)' => claims'[i] = 1 /\ status'[i] \in {"running", "failed", "deleted"}
    BY <1>2, <1>3 DEF SafeInv, ClaimInv
  <2>4. \A i \in Jobs : claims'[i] <= 1 /\ (status'[i] \in {"none", "queued"} => claims'[i] = 0)
    BY <1>2, <1>3 DEF SafeInv, ClaimInv
  <2>5. \A k \in objects' : claims'[k[1]] = 1 /\ k = KeyOf(k[1])'
    BY <1>0, <1>2, <1>4 DEF SafeInv, ClaimInv, TypeOK
  <2> QED
    BY <2>1, <2>2, <2>3, <2>4, <2>5 DEF ClaimInv
<1>6. \A v \in Workers : work'[v].pc = "stored" => KeyOf(work[v].job)' \in objects'
  <2> SUFFICES ASSUME NEW v \in Workers, work'[v].pc = "stored"
               PROVE  KeyOf(work[v].job)' \in objects'
    OBVIOUS
  <2>1. v # w /\ work'[v] = work[v]
    BY <1>1
  <2>2. work[v].job \in Jobs /\ work[v].job # j
    BY <1>0, <2>1 DEF JobInHand, Held
  <2>3. KeyOf(work[v].job)' = KeyOf(work[v].job)
    BY <1>2, <2>1, <2>2 DEF KeyOf
  <2> QED
    BY <1>4, <2>1, <2>3 DEF SafeInv, FileInv
<1>7. \A k : Retired(k) => Retired(k)'
  <2> SUFFICES ASSUME NEW k, Retired(k) PROVE Retired(k)'
    OBVIOUS
  <2>1. k[1] \in Jobs \ {j} /\ k \in Keys
    BY <1>0 DEF Retired
  <2> QED
    BY <1>2, <1>4, <2>1 DEF Retired
<1>8. FileInv'
  <2>1. \A i \in Jobs : status'[i] = "succeeded" => objectKey'[i] = KeyOf(i)' /\ claims'[i] = 1
    BY <1>2, <1>3, <1>4 DEF SafeInv, FileInv
  <2>2. \A p \in Purgers : /\ \A k \in purge'[p].todo \cup purge'[p].done : Retired(k)'
                            /\ purge'[p].done \cap objects' = {}
    BY <1>4, <1>7 DEF SafeInv, FileInv
  <2>3. ReadyHasFile'
    BY <1>2, <1>3, <1>4 DEF SafeInv, FileInv, ReadyHasFile, Downloadable
  <2>4. ExpiredIsGone'
    BY <1>2, <1>3, <1>4 DEF SafeInv, FileInv, ExpiredIsGone
  <2> QED
    BY <1>6, <2>1, <2>2, <2>3, <2>4 DEF FileInv
<1> QED
  BY <1>5, <1>8 DEF SafeInv

\* The file of a job that a worker has is in the hands of no purge.
LEMMA PutSafe ==
  ASSUME TypeInv, SafeInv, NEW w \in Workers, Put(w) \/ PutUnsure(w)
  PROVE  SafeInv'
<1> USE ConstantFacts, Members, KeyFacts DEF TypeInv
<1> DEFINE j == work[w].job
<1>0. /\ j \in Jobs /\ Held(j) /\ claims[j] = 1
      /\ status[j] \in {"running", "failed", "deleted"}
  BY DEF Put, PutUnsure, JobInHand, SafeInv, ClaimInv, Held
<1>1. /\ work'[w].pc \in {"stored", "failing"} /\ work'[w].job = j
      /\ \A v \in Workers \ {w} : work'[v] = work[v]
  BY DEF Put, PutUnsure, SetWork, TypeOK
<1>2. UNCHANGED <<status, claims, objectKey, past, purge>>
  BY DEF Put, PutUnsure, rows
<1>3. objects' = objects \cup {KeyOf(j)}
  BY DEF Put, PutUnsure
<1>4. \A i \in Jobs : (Held(i)' <=> Held(i)) /\ KeyOf(i)' = KeyOf(i)
  BY <1>1, <1>2 DEF Held, KeyOf
<1> HIDE DEF j
<1>5. ClaimInv'
  <2>1. \A v \in Workers : (work'[v].pc = "idle") <=> (work'[v].job = NoJob)
    BY <1>0, <1>1 DEF SafeInv, ClaimInv
  <2>2. \A u, v \in Workers : work'[u].job = work'[v].job /\ work'[u].job # NoJob => u = v
    BY <1>1 DEF SafeInv, ClaimInv, j
  <2>3. \A k \in objects' : claims'[k[1]] = 1 /\ k = KeyOf(k[1])'
    <3>1. \A k \in objects : k[1] \in Jobs
      BY DEF TypeOK
    <3> QED
      BY <1>0, <1>2, <1>3, <1>4, <3>1 DEF SafeInv, ClaimInv
  <2> QED
    BY <1>2, <1>4, <2>1, <2>2, <2>3 DEF SafeInv, ClaimInv
<1>6. \A v \in Workers : work'[v].pc = "stored" => KeyOf(work[v].job)' \in objects'
  <2> SUFFICES ASSUME NEW v \in Workers, work'[v].pc = "stored"
               PROVE  KeyOf(work[v].job)' \in objects'
    OBVIOUS
  <2>1. KeyOf(work[v].job)' = KeyOf(work[v].job)
    BY <1>1, <1>2 DEF KeyOf, j
  <2> QED
    BY <1>1, <1>3, <2>1 DEF SafeInv, FileInv, j
<1>7. \A k : Retired(k) => Retired(k)' /\ k # KeyOf(j)
  BY <1>0, <1>2, <1>4 DEF Retired
<1>8. \A p \in Purgers : /\ \A k \in purge'[p].todo \cup purge'[p].done : Retired(k)'
                          /\ purge'[p].done \cap objects' = {}
  BY <1>2, <1>3, <1>7 DEF SafeInv, FileInv
<1>9. ReadyHasFile'
  BY <1>2, <1>3 DEF SafeInv, FileInv, ReadyHasFile, Downloadable
<1>10. ExpiredIsGone'
  BY <1>0, <1>2, <1>3 DEF SafeInv, FileInv, ExpiredIsGone
<1>11. \A i \in Jobs : status'[i] = "succeeded" => objectKey'[i] = KeyOf(i)' /\ claims'[i] = 1
  BY <1>2, <1>4 DEF SafeInv, FileInv
<1> QED
  BY <1>5, <1>6, <1>8, <1>9, <1>10, <1>11 DEF SafeInv, FileInv

LEMMA CompleteSafe ==
  ASSUME TypeInv, SafeInv, NEW w \in Workers, Complete(w)
  PROVE  SafeInv'
<1> USE ConstantFacts, Members, KeyFacts, Blank DEF TypeInv
<1> DEFINE j == work[w].job
<1>0. /\ j \in Jobs /\ Held(j) /\ claims[j] = 1 /\ KeyOf(j) \in objects
  BY DEF Complete, JobInHand, SafeInv, ClaimInv, FileInv, Held
<1>1. /\ work'[w] = NoWork
      /\ \A v \in Workers \ {w} : work'[v] = work[v]
  BY DEF Complete, SetWork, TypeOK
<1>2. UNCHANGED <<claims, objects, purge>>
  BY DEF Complete
<1>3. CASE status[j] = "deleted"
  <2>1. WorkQuiet /\ StatusQuiet /\ UNCHANGED past
    BY <1>1, <1>3 DEF Complete, WorkQuiet, StatusQuiet
  <2> QED
    BY <1>2, <2>1, Quiet
<1>4. CASE status[j] # "deleted"
  <2>1. /\ status' = [status EXCEPT ![j] = "succeeded"]
        /\ objectKey' = [objectKey EXCEPT ![j] = KeyOf(j)]
        /\ past' = [past EXCEPT ![j] = FALSE]
    BY <1>4 DEF Complete
  <2>2. status'[j] = "succeeded" /\ objectKey'[j] = KeyOf(j) /\ past'[j] = FALSE
    BY <1>0, <2>1 DEF TypeOK
  <2>3. \A i \in Jobs \ {j} :
          status'[i] = status[i] /\ objectKey'[i] = objectKey[i] /\ past'[i] = past[i]
    BY <2>1 DEF TypeOK
  <2>4. \A i \in Jobs : Held(i)' => Held(i) /\ i # j
    BY <1>0, <1>1 DEF SafeInv, ClaimInv, Held, NoWork
  <2>5. \A i \in Jobs : (Held(i)' => Held(i) /\ i # j) /\ KeyOf(i)' = KeyOf(i)
    BY <1>2, <2>4 DEF KeyOf
  <2> HIDE DEF j
  <2>6. ClaimInv'
    <3>1. \A v \in Workers : (work'[v].pc = "idle") <=> (work'[v].job = NoJob)
      BY <1>1 DEF SafeInv, ClaimInv, NoWork
    <3>2. \A u, v \in Workers : work'[u].job = work'[v].job /\ work'[u].job # NoJob => u = v
      BY <1>1 DEF SafeInv, ClaimInv, NoWork
    <3>3. \A i \in Jobs : Held(i)' => claims'[i] = 1 /\ status'[i] \in {"running", "failed", "deleted"}
      BY <1>2, <2>3, <2>5 DEF SafeInv, ClaimInv
    <3>4. \A i \in Jobs : claims'[i] <= 1 /\ (status'[i] \in {"none", "queued"} => claims'[i] = 0)
      BY <1>2, <2>2, <2>3 DEF SafeInv, ClaimInv
    <3>5. \A k \in objects' : claims'[k[1]] = 1 /\ k = KeyOf(k[1])'
      BY <1>2, <2>5 DEF SafeInv, ClaimInv, TypeOK
    <3> QED
      BY <3>1, <3>2, <3>3, <3>4, <3>5 DEF ClaimInv
  <2>7. \A v \in Workers : work'[v].pc = "stored" => KeyOf(work[v].job)' \in objects'
    BY <1>1, <1>2 DEF SafeInv, FileInv, KeyOf, NoWork
  <2>8. \A k : Retired(k) => Retired(k)'
    <3> SUFFICES ASSUME NEW k, Retired(k) PROVE Retired(k)'
      OBVIOUS
    <3>1. k[1] \in Jobs \ {j} /\ k \in Keys
      BY <1>0 DEF Retired
    <3> QED
      BY <1>2, <2>3, <2>5, <3>1 DEF Retired
  <2>9. \A p \in Purgers : /\ \A k \in purge'[p].todo \cup purge'[p].done : Retired(k)'
                            /\ purge'[p].done \cap objects' = {}
    BY <1>2, <2>8 DEF SafeInv, FileInv
  <2>10. \A i \in Jobs : status'[i] = "succeeded" => objectKey'[i] = KeyOf(i)' /\ claims'[i] = 1
    BY <1>0, <1>2, <2>2, <2>3, <2>5 DEF SafeInv, FileInv
  <2>11. ReadyHasFile'
    BY <1>0, <1>2, <2>2, <2>3 DEF SafeInv, FileInv, ReadyHasFile, Downloadable
  <2>12. ExpiredIsGone'
    BY <1>2, <2>2, <2>3 DEF SafeInv, FileInv, ExpiredIsGone
  <2> QED
    BY <2>6, <2>7, <2>9, <2>10, <2>11, <2>12 DEF SafeInv, FileInv
<1> QED
  BY <1>3, <1>4

\* What a purge step keeps of ClaimInv: it moves no worker, and a job that has
\* one is not among those that expire.
LEMMA PurgeClaims ==
  ASSUME TypeInv, SafeInv, UNCHANGED <<work, claims>>, objects' \subseteq objects,
         \A j \in Jobs : \/ status'[j] = status[j]
                         \/ status[j] \in ACTIVE /\ status'[j] = "failed"
                         \/ ~Held(j) /\ claims[j] = 1 /\ status'[j] = "expired"
  PROVE  ClaimInv' /\ \A j \in Jobs : (Held(j)' <=> Held(j)) /\ KeyOf(j)' = KeyOf(j)
<1>1. \A j \in Jobs : (Held(j)' <=> Held(j)) /\ KeyOf(j)' = KeyOf(j)
  BY DEF Held, KeyOf
<1>2. \A j \in Jobs : Held(j)' => claims'[j] = 1 /\ status'[j] \in {"running", "failed", "deleted"}
  BY <1>1 DEF SafeInv, ClaimInv
<1>3. \A j \in Jobs : claims'[j] <= 1 /\ (status'[j] \in {"none", "queued"} => claims'[j] = 0)
  BY DEF SafeInv, ClaimInv
<1>4. \A k \in objects' : claims'[k[1]] = 1 /\ k = KeyOf(k[1])'
  BY DEF SafeInv, ClaimInv, KeyOf
<1> QED
  BY <1>1, <1>2, <1>3, <1>4 DEF SafeInv, ClaimInv

LEMMA PurgeStartSafe ==
  ASSUME TypeInv, SafeInv, NEW p \in Purgers, PurgeStart(p)
  PROVE  SafeInv'
<1> USE ConstantFacts, KeyFacts DEF TypeInv
<1>1. UNCHANGED <<work, claims, objects, status, objectKey, past>>
  BY DEF PurgeStart, rows
<1>2. ClaimInv' /\ \A j \in Jobs : (Held(j)' <=> Held(j)) /\ KeyOf(j)' = KeyOf(j)
  BY <1>1, PurgeClaims
<1>3. \A k : Retired(k) => Retired(k)'
  BY <1>1, <1>2, KeyFacts DEF Retired
<1>4. \A j \in Overdue : Retired(objectKey[j])
  <2> SUFFICES ASSUME NEW j \in Jobs, status[j] = "succeeded", past[j]
               PROVE  Retired(objectKey[j])
    BY DEF Overdue
  <2>1. objectKey[j] = KeyOf(j) /\ claims[j] = 1 /\ ~Held(j)
    BY DEF SafeInv, FileInv, ClaimInv
  <2>2. KeyOf(j) \in Keys /\ KeyOf(j)[1] = j
    BY KeyType
  <2> QED
    BY <2>1, <2>2 DEF Retired
<1>5. /\ purge'[p].todo = {objectKey[j] : j \in Overdue} /\ purge'[p].done = {}
      /\ \A q \in Purgers \ {p} : purge'[q] = purge[q]
  BY DEF PurgeStart, SetPurge, TypeOK
<1>6. \A q \in Purgers : /\ \A k \in purge'[q].todo \cup purge'[q].done : Retired(k)'
                          /\ purge'[q].done \cap objects' = {}
  BY <1>1, <1>3, <1>4, <1>5 DEF SafeInv, FileInv
<1>7. \A w \in Workers : work'[w].pc = "stored" => KeyOf(work[w].job)' \in objects'
  BY <1>1 DEF SafeInv, FileInv, KeyOf
<1>8. \A i \in Jobs : status'[i] = "succeeded" => objectKey'[i] = KeyOf(i)' /\ claims'[i] = 1
  BY <1>1, <1>2 DEF SafeInv, FileInv
<1>9. ReadyHasFile' /\ ExpiredIsGone'
  BY <1>1 DEF SafeInv, FileInv, ReadyHasFile, ExpiredIsGone, Downloadable
<1> QED
  BY <1>2, <1>6, <1>7, <1>8, <1>9 DEF SafeInv, FileInv

LEMMA PurgeDeleteSafe ==
  ASSUME TypeInv, SafeInv, NEW p \in Purgers, NEW k \in purge[p].todo, PurgeDelete(p, k)
  PROVE  SafeInv'
<1> USE ConstantFacts, Members, KeyFacts DEF TypeInv
<1>1. UNCHANGED <<work, claims, status, objectKey, past>> /\ objects' = objects \ {k}
  BY DEF PurgeDelete, rows
<1>2. ClaimInv' /\ \A j \in Jobs : (Held(j)' <=> Held(j)) /\ KeyOf(j)' = KeyOf(j)
  BY <1>1, PurgeClaims
<1>3. \A l : Retired(l) => Retired(l)'
  BY <1>1, <1>2 DEF Retired
<1>4. Retired(k)
  BY DEF SafeInv, FileInv
<1>5. /\ purge'[p].todo \subseteq purge[p].todo
      /\ purge'[p].done = purge[p].done \cup {k}
      /\ \A q \in Purgers \ {p} : purge'[q] = purge[q]
  <2>1. purge'[p] = [purge[p] EXCEPT !.todo = @ \ {k}, !.done = @ \cup {k}]
    BY DEF PurgeDelete, SetPurge, TypeOK
  <2> QED
    BY <2>1 DEF PurgeDelete, SetPurge, TypeOK, Purges
<1>6. \A q \in Purgers : /\ \A l \in purge'[q].todo \cup purge'[q].done : Retired(l)'
                          /\ purge'[q].done \cap objects' = {}
  BY <1>1, <1>3, <1>4, <1>5 DEF SafeInv, FileInv
<1>7. \A w \in Workers : work'[w].pc = "stored" => KeyOf(work[w].job)' \in objects'
  <2> SUFFICES ASSUME NEW w \in Workers, work[w].pc = "stored"
               PROVE  KeyOf(work[w].job) \in objects /\ KeyOf(work[w].job) # k
    BY <1>1 DEF KeyOf
  <2>1. work[w].job \in Jobs /\ Held(work[w].job)
    BY DEF JobInHand, Held
  <2>2. k[1] # work[w].job
    BY <1>4, <2>1 DEF Retired
  <2> QED
    BY <2>1, <2>2 DEF SafeInv, FileInv
<1>8. \A i \in Jobs : status'[i] = "succeeded" => objectKey'[i] = KeyOf(i)' /\ claims'[i] = 1
  BY <1>1, <1>2 DEF SafeInv, FileInv
<1>9. ReadyHasFile'
  <2> SUFFICES ASSUME NEW j \in Jobs, Downloadable(j) PROVE objectKey[j] \in objects /\ objectKey[j] # k
    BY <1>1 DEF ReadyHasFile, Downloadable
  <2>1. objectKey[j] = KeyOf(j) /\ ~past[j]
    BY DEF SafeInv, FileInv, Downloadable
  <2>2. k[1] # j
    BY <1>4, <2>1 DEF Retired
  <2> QED
    BY <2>1, <2>2 DEF SafeInv, FileInv, ReadyHasFile
<1>10. ExpiredIsGone'
  BY <1>1 DEF SafeInv, FileInv, ExpiredIsGone
<1> QED
  BY <1>2, <1>6, <1>7, <1>8, <1>9, <1>10 DEF SafeInv, FileInv

\* A purge that ends, or that gives a file up, forgets keys and does no more.
LEMMA PurgeForgetsSafe ==
  ASSUME TypeInv, SafeInv, NEW p \in Purgers,
         \/ PurgeAborts(p) \/ PurgeCrash(p)
         \/ \E k \in purge[p].todo : PurgeDeleteFails(p, k)
  PROVE  SafeInv'
<1> USE ConstantFacts, Members, KeyFacts DEF TypeInv
<1>1. UNCHANGED <<work, claims, objects, status, objectKey, past>>
  BY DEF PurgeAborts, PurgeCrash, PurgeDeleteFails, rows
<1>2. ClaimInv' /\ \A j \in Jobs : (Held(j)' <=> Held(j)) /\ KeyOf(j)' = KeyOf(j)
  BY <1>1, PurgeClaims
<1>3. \A l : Retired(l) => Retired(l)'
  BY <1>1, <1>2 DEF Retired
<1>4. /\ purge'[p].todo \subseteq purge[p].todo /\ purge'[p].done \subseteq purge[p].done
      /\ \A q \in Purgers \ {p} : purge'[q] = purge[q]
  <2>1. CASE purge' = [purge EXCEPT ![p] = NoPurge]
    BY <2>1 DEF NoPurge, TypeOK
  <2>2. ASSUME NEW k \in purge[p].todo, PurgeDeleteFails(p, k)
        PROVE  /\ purge'[p].todo \subseteq purge[p].todo /\ purge'[p].done \subseteq purge[p].done
               /\ \A q \in Purgers \ {p} : purge'[q] = purge[q]
    <3>1. purge'[p] = [purge[p] EXCEPT !.todo = @ \ {k}]
      BY <2>2 DEF PurgeDeleteFails, SetPurge, TypeOK
    <3> QED
      BY <2>2, <3>1 DEF PurgeDeleteFails, SetPurge, TypeOK, Purges
  <2> QED
    BY <2>1, <2>2 DEF PurgeAborts, PurgeCrash, SetPurge
<1>5. \A q \in Purgers : /\ \A l \in purge'[q].todo \cup purge'[q].done : Retired(l)'
                          /\ purge'[q].done \cap objects' = {}
  BY <1>1, <1>3, <1>4 DEF SafeInv, FileInv
<1>6. \A w \in Workers : work'[w].pc = "stored" => KeyOf(work[w].job)' \in objects'
  BY <1>1 DEF SafeInv, FileInv, KeyOf
<1>7. \A i \in Jobs : status'[i] = "succeeded" => objectKey'[i] = KeyOf(i)' /\ claims'[i] = 1
  BY <1>1, <1>2 DEF SafeInv, FileInv
<1>8. ReadyHasFile' /\ ExpiredIsGone'
  BY <1>1 DEF SafeInv, FileInv, ReadyHasFile, ExpiredIsGone, Downloadable
<1> QED
  BY <1>2, <1>5, <1>6, <1>7, <1>8 DEF SafeInv, FileInv

LEMMA PurgeCommitSafe ==
  ASSUME TypeInv, SafeInv, NEW p \in Purgers, PurgeCommit(p)
  PROVE  SafeInv'
<1> USE ConstantFacts, Members, KeyFacts DEF TypeInv
<1> DEFINE expired == {j \in Purged(p) : status[j] # "deleted"}
<1>1. UNCHANGED <<work, claims, objects, past>>
  BY DEF PurgeCommit
<1>2. \A j \in expired : /\ j \in Jobs /\ ~Held(j) /\ claims[j] = 1 /\ past[j]
                         /\ KeyOf(j) \notin objects
                         /\ status[j] \in {"succeeded", "expired"}
  <2> SUFFICES ASSUME NEW j \in Jobs, NEW k \in purge[p].done, k[1] = j, status[j] # "deleted"
               PROVE  /\ ~Held(j) /\ claims[j] = 1 /\ past[j] /\ KeyOf(j) \notin objects
                      /\ status[j] \in {"succeeded", "expired"}
    BY DEF Purged
  <2>1. Retired(k) /\ k \notin objects
    BY DEF SafeInv, FileInv
  <2> QED
    BY <2>1 DEF Retired
<1>3. \A j \in Jobs : /\ j \in expired => status'[j] = "expired"
                      /\ j \notin expired =>
                           \/ status'[j] = status[j] /\ objectKey'[j] = objectKey[j]
                           \/ status[j] \in ACTIVE /\ status'[j] = "failed"
  BY DEF PurgeCommit, LeftBehind
<1> HIDE DEF expired
<1>4. ClaimInv' /\ \A j \in Jobs : (Held(j)' <=> Held(j)) /\ KeyOf(j)' = KeyOf(j)
  BY <1>1, <1>2, <1>3, PurgeClaims
<1>5. \A l : Retired(l) => Retired(l)'
  <2> SUFFICES ASSUME NEW l, Retired(l) PROVE Retired(l)'
    OBVIOUS
  <2>1. l \in Keys /\ l[1] \in Jobs
    BY DEF Retired
  <2>2. status'[l[1]] \in {"succeeded", "expired", "deleted"}
    BY <1>3, <2>1 DEF Retired, ACTIVE
  <2> QED
    BY <1>1, <1>4, <2>1, <2>2 DEF Retired
<1>6. \A q \in Purgers : /\ purge'[q].todo \subseteq purge[q].todo
                          /\ purge'[q].done \subseteq purge[q].done
  BY DEF PurgeCommit, SetPurge, NoPurge, TypeOK
<1>7. \A q \in Purgers : /\ \A l \in purge'[q].todo \cup purge'[q].done : Retired(l)'
                          /\ purge'[q].done \cap objects' = {}
  BY <1>1, <1>5, <1>6 DEF SafeInv, FileInv
<1>8. \A w \in Workers : work'[w].pc = "stored" => KeyOf(work[w].job)' \in objects'
  BY <1>1 DEF SafeInv, FileInv, KeyOf
<1>9. \A j \in Jobs : status'[j] = "succeeded" => status[j] = "succeeded" /\ objectKey'[j] = objectKey[j]
  BY <1>3
<1>10. \A i \in Jobs : status'[i] = "succeeded" => objectKey'[i] = KeyOf(i)' /\ claims'[i] = 1
  BY <1>1, <1>4, <1>9 DEF SafeInv, FileInv
<1>11. ReadyHasFile'
  BY <1>1, <1>9 DEF SafeInv, FileInv, ReadyHasFile, Downloadable
<1>12. ExpiredIsGone'
  <2> SUFFICES ASSUME NEW j \in Jobs, NEW k \in objects, k[1] = j PROVE status'[j] # "expired"
    BY <1>1 DEF ExpiredIsGone
  <2>1. k = KeyOf(j) /\ status[j] # "expired"
    BY DEF SafeInv, ClaimInv, FileInv, ExpiredIsGone
  <2>2. j \notin expired
    BY <1>2, <2>1
  <2> QED
    BY <1>3, <2>1, <2>2
<1> QED
  BY <1>4, <1>7, <1>8, <1>10, <1>11, <1>12 DEF SafeInv, FileInv

LEMMA OutlastSafe ==
  ASSUME TypeInv, SafeInv, NEW j \in Jobs, OutlastRetention(j)
  PROVE  SafeInv'
<1> USE ConstantFacts, KeyFacts DEF TypeInv
<1>1. UNCHANGED <<work, claims, objects, status, objectKey, purge>>
  BY DEF OutlastRetention
<1>2. ClaimInv' /\ \A i \in Jobs : (Held(i)' <=> Held(i)) /\ KeyOf(i)' = KeyOf(i)
  BY <1>1, PurgeClaims
<1>3. \A i \in Jobs : past[i] => past'[i]
  BY DEF OutlastRetention, TypeOK
<1>4. \A l : Retired(l) => Retired(l)'
  BY <1>1, <1>2, <1>3 DEF Retired
<1>5. \A p \in Purgers : /\ \A l \in purge'[p].todo \cup purge'[p].done : Retired(l)'
                          /\ purge'[p].done \cap objects' = {}
  BY <1>1, <1>4 DEF SafeInv, FileInv
<1>6. \A w \in Workers : work'[w].pc = "stored" => KeyOf(work[w].job)' \in objects'
  BY <1>1 DEF SafeInv, FileInv, KeyOf
<1>7. \A i \in Jobs : status'[i] = "succeeded" => objectKey'[i] = KeyOf(i)' /\ claims'[i] = 1
  BY <1>1, <1>2 DEF SafeInv, FileInv
<1>8. ReadyHasFile' /\ ExpiredIsGone'
  BY <1>1, <1>3 DEF SafeInv, FileInv, ReadyHasFile, ExpiredIsGone, Downloadable
<1> QED
  BY <1>2, <1>5, <1>6, <1>7, <1>8 DEF SafeInv, FileInv

LEMMA SafeInit == Init => SafeInv
  BY ConstantFacts
     DEF Init, SafeInv, ClaimInv, FileInv, NoWork, NoPurge, Held, ReadyHasFile,
         ExpiredIsGone, Downloadable

LEMMA SafeNext == TypeInv /\ SafeInv /\ [Next]_vars => SafeInv'
<1> SUFFICES ASSUME TypeInv, SafeInv, [Next]_vars PROVE SafeInv'
  OBVIOUS
<1>1. ASSUME NEW c \in Clients,
             \/ RequestStep(c) \/ DispatchFails(c) \/ RequestDies(c)
             \/ \E o \in Orgs : CountActive(c, o)
      PROVE  SafeInv'
  BY <1>1, QuietSteps
<1>2. ASSUME NEW w \in Workers,
             WorkerStep(w) \/ PutUnsure(w) \/ WorkerCrash(w) \/ Redeliver(w)
      PROVE  SafeInv'
  BY <1>2, QuietSteps, ClaimSafe, PutSafe, CompleteSafe DEF WorkerStep
<1>3. ASSUME NEW p \in Purgers,
             \/ PurgeStep(p) \/ PurgeCrash(p)
             \/ \E k \in purge[p].todo : PurgeDeleteFails(p, k)
      PROVE  SafeInv'
  BY <1>3, PurgeStartSafe, PurgeDeleteSafe, PurgeCommitSafe, PurgeForgetsSafe DEF PurgeStep
<1>4. CASE Time
  BY <1>4, QuietSteps, OutlastSafe DEF Time
<1>5. CASE (\E o \in Orgs : DeleteOrg(o)) \/ UNCHANGED vars
  BY <1>5, QuietSteps
<1> QED
  BY <1>1, <1>2, <1>3, <1>4, <1>5 DEF Next, Faults

LEMMA Safe == Spec => [](TypeInv /\ SafeInv)
<1>1. Init => TypeInv /\ SafeInv
  BY TypeInit, SafeInit
<1>2. TypeInv /\ SafeInv /\ [Next]_vars => (TypeInv /\ SafeInv)'
  BY TypeNext, SafeNext
<1> QED
  BY <1>1, <1>2, PTL DEF Spec

\* However often a message is delivered and whatever is lost on the way, a job
\* has one worker and one file at most.
THEOREM OneRendering == Spec => []RenderedOnce
<1>1. TypeInv /\ SafeInv => RenderedOnce
  BY KeyFacts DEF SafeInv, ClaimInv, RenderedOnce
<1> QED
  BY <1>1, Safe, PTL

\* No link is signed for a file that is not there.
THEOREM LinksWork == Spec => []ReadyHasFile
<1>1. SafeInv => ReadyHasFile
  BY DEF SafeInv, FileInv
<1> QED
  BY <1>1, Safe, PTL

\* The file of an expired export is deleted, with any number of purges at once.
THEOREM ExpiryDeletes == Spec => []ExpiredIsGone
<1>1. SafeInv => ExpiredIsGone
  BY DEF SafeInv, FileInv
<1> QED
  BY <1>1, Safe, PTL

-----------------------------------------------------------------------------
(* While deliveries are timely.                                            *)

\* What is in hand only shrinks, nothing gets stale, and only a job that no
\* worker has is given up.
LEMMA TimelyKept ==
  ASSUME TypeInv, TimelyInv, broker' \subseteq broker, UNCHANGED stale,
         \A j \in Jobs : Held(j)' => Held(j),
         \A c \in Clients :
           \/ request'[c] = request[c]
           \/ request'[c].job = NoJob /\ request'[c].pc \in {"idle", "counted"}
           \/ /\ request'[c].job = request[c].job
              /\ request[c].pc \notin {"idle", "counted"}
              /\ request'[c].pc \notin {"idle", "counted"},
         \A j \in Jobs : status'[j] = "none" => status[j] = "none",
         \A j \in Jobs : status'[j] = "failed" => status[j] = "failed" \/ ~Held(j)',
         \A p \in Purgers : \A j \in purge'[p].stuck : stale[j]
  PROVE  TimelyInv'
<1> USE ConstantFacts
<1>1. \A c \in Clients : request'[c].job \in {request[c].job, NoJob}
  OBVIOUS
<1>2. \A c \in Clients : (request'[c].pc \in {"idle", "counted"}) <=> (request'[c].job = NoJob)
  BY DEF TimelyInv
<1>3. \A c \in Clients, j \in Jobs : request'[c].job = j => status'[j] # "none" /\ Undelivered(c, j)'
  BY <1>1 DEF TimelyInv, Undelivered
<1>4. \A j \in Jobs : stale'[j] => ~InHand(j)' /\ status'[j] # "none"
  <2> SUFFICES ASSUME NEW j \in Jobs, stale[j] PROVE ~InHand(j)' /\ status'[j] # "none"
    OBVIOUS
  <2>1. ~InHand(j) /\ status[j] # "none"
    BY DEF TimelyInv
  <2>2. j \notin broker' /\ ~Held(j)' /\ \A c \in Clients : request'[c].job # j
    BY <1>1, <2>1 DEF InHand, Held
  <2> QED
    BY <2>1, <2>2 DEF InHand, Held
<1>5. \A j \in Jobs : status'[j] = "failed" => ~Held(j)'
  BY DEF TimelyInv
<1>6. \A j \in broker' : status'[j] # "none"
  BY DEF TimelyInv, TypeInv, TypeOK
<1>7. \A p \in Purgers : \A j \in purge'[p].stuck : stale'[j]
  OBVIOUS
<1> QED
  BY <1>2, <1>3, <1>4, <1>5, <1>6, <1>7 DEF TimelyInv

LEMMA RequestTimely ==
  ASSUME TypeInv, SafeInv, TimelyInv, Timely, NEW c \in Clients,
         RequestStep(c) \/ (\E o \in Orgs : CountActive(c, o))
           \/ DispatchFails(c) \/ RequestDies(c)
  PROVE  TimelyInv'
<1> USE ConstantFacts, Members DEF TypeInv
<1>a. ASSUME UNCHANGED work PROVE \A j \in Jobs : Held(j)' <=> Held(j)
  BY <1>a DEF Held
<1>b. \A p \in Purgers : \A j \in purge[p].stuck : stale[j]
  BY DEF TimelyInv
<1>1. ASSUME NEW o \in Orgs, CountActive(c, o) PROVE TimelyInv'
  <2>1. /\ request'[c].job = NoJob /\ request'[c].pc = "counted"
        /\ \A d \in Clients \ {c} : request'[d] = request[d]
    BY <1>1 DEF CountActive, SetRequest, TypeOK
  <2> QED
    BY <1>1, <1>a, <1>b, <2>1, TimelyKept DEF CountActive, rows
<1>2. ASSUME NEW j \in Jobs, InsertJob(c, j) PROVE TimelyInv'
  <2>1. /\ status[j] = "none" /\ status'[j] = "queued"
        /\ \A i \in Jobs \ {j} : status'[i] = status[i]
    BY <1>2 DEF InsertJob, TypeOK
  <2>2. /\ request'[c].job = j /\ request'[c].pc = "inserted"
        /\ \A d \in Clients \ {c} : request'[d] = request[d]
    BY <1>2 DEF InsertJob, SetRequest, TypeOK
  <2>3. UNCHANGED <<stale, broker, work, purge>>
    BY <1>2 DEF InsertJob
  <2>4. /\ j \notin broker /\ ~Held(j) /\ ~stale[j]
        /\ \A d \in Clients : request[d].job # j
    BY <2>1 DEF TimelyInv, SafeInv, ClaimInv
  <2>5. \A d \in Clients : (request'[d].pc \in {"idle", "counted"}) <=> (request'[d].job = NoJob)
    BY <2>2 DEF TimelyInv
  <2>6. \A d \in Clients, i \in Jobs : request'[d].job = i => status'[i] # "none" /\ Undelivered(d, i)'
    <3>1. ASSUME NEW d \in Clients, NEW i \in Jobs, request'[d].job = i
          PROVE  status'[i] # "none" /\ i \notin broker /\ ~Held(i)
    BY <2>1, <2>2, <2>4, <3>1 DEF TimelyInv, Undelivered
    <3>2. ASSUME NEW d \in Clients, NEW e \in Clients, NEW i \in Jobs,
                 request'[d].job = i, request'[e].job = i
          PROVE  d = e
      BY <2>2, <2>4, <3>2 DEF TimelyInv, Undelivered
    <3> QED
      BY <1>a, <2>3, <3>1, <3>2 DEF Undelivered
  <2>7. \A i \in Jobs : stale'[i] => ~InHand(i)' /\ status'[i] # "none"
    BY <2>1, <2>2, <2>3, <2>4 DEF TimelyInv, InHand
  <2>8. \A i \in Jobs : status'[i] = "failed" => ~Held(i)'
    BY <1>a, <2>1, <2>3 DEF TimelyInv
  <2>9. \A i \in broker' : status'[i] # "none"
    BY <2>1, <2>3 DEF TimelyInv, TypeOK
  <2> QED
    BY <1>b, <2>3, <2>5, <2>6, <2>7, <2>8, <2>9 DEF TimelyInv
<1>3. CASE RequestRefused(c) \/ RequestDies(c)
  <2>1. /\ request'[c].job = NoJob /\ request'[c].pc = "idle"
        /\ \A d \in Clients \ {c} : request'[d] = request[d]
    BY <1>3 DEF RequestRefused, RequestDies, SetRequest, NoRequest, TypeOK
  <2>2. UNCHANGED <<stale, broker, work, purge, status>>
    BY <1>3 DEF RequestRefused, RequestDies, rows
  <2> QED
    BY <1>a, <1>b, <2>1, <2>2, TimelyKept
<1>4. CASE Dispatch(c)
  <2> DEFINE j == request[c].job
  <2>1. j \in Jobs /\ status[j] # "none" /\ Undelivered(c, j)
    BY <1>4 DEF Dispatch, JobInHand, TimelyInv
  <2>2. /\ request'[c].job = NoJob /\ request'[c].pc = "idle"
        /\ \A d \in Clients \ {c} : request'[d] = request[d]
    BY <1>4 DEF Dispatch, SetRequest, NoRequest, TypeOK
  <2>3. UNCHANGED <<stale, work, purge, status>> /\ broker' = broker \cup {j}
    BY <1>4 DEF Dispatch, rows
  <2>a. ~stale[j]
    BY <2>1 DEF TimelyInv, InHand
  <2> HIDE DEF j
  <2>4. \A d \in Clients : (request'[d].pc \in {"idle", "counted"}) <=> (request'[d].job = NoJob)
    BY <2>2 DEF TimelyInv
  <2>5. \A d \in Clients, i \in Jobs : request'[d].job = i => status'[i] # "none" /\ Undelivered(d, i)'
    <3>1. ASSUME NEW d \in Clients, NEW i \in Jobs, request'[d].job = i
          PROVE  status'[i] # "none" /\ i # j /\ i \notin broker /\ ~Held(i)
      BY <2>1, <2>2, <2>3, <3>1 DEF TimelyInv, Undelivered
    <3>2. ASSUME NEW d \in Clients, NEW e \in Clients, NEW i \in Jobs,
                 request'[d].job = i, request'[e].job = i
          PROVE  d = e
      BY <2>2, <3>2 DEF TimelyInv, Undelivered
    <3> QED
      BY <1>a, <2>3, <3>1, <3>2 DEF Undelivered
  <2>6. \A i \in Jobs : stale'[i] => ~InHand(i)' /\ status'[i] # "none"
    BY <2>2, <2>3, <2>a DEF TimelyInv, InHand
  <2>7. \A i \in Jobs : status'[i] = "failed" => ~Held(i)'
    BY <1>a, <2>3 DEF TimelyInv
  <2>8. \A i \in broker' : status'[i] # "none"
    BY <2>1, <2>3 DEF TimelyInv
  <2> QED
    BY <1>b, <2>3, <2>4, <2>5, <2>6, <2>7, <2>8 DEF TimelyInv
<1>5. CASE MarkUndelivered(c)
  <2>1. /\ request'[c].job = NoJob /\ request'[c].pc = "idle"
        /\ \A d \in Clients \ {c} : request'[d] = request[d]
    BY <1>5 DEF MarkUndelivered, SetRequest, NoRequest, TypeOK
  <2>2. ~Held(request[c].job)
    BY <1>5 DEF MarkUndelivered, JobInHand, TimelyInv, Undelivered
  <2>3. \A j \in Jobs : /\ status'[j] = "none" => status[j] = "none"
                        /\ status'[j] = "failed" => status[j] = "failed" \/ ~Held(j)
    BY <1>5, <2>2 DEF MarkUndelivered, FailActive
  <2> QED
    BY <1>5, <1>a, <1>b, <2>1, <2>3, TimelyKept DEF MarkUndelivered
<1>6. CASE DispatchFails(c)
  <2>1. /\ request'[c].job = request[c].job /\ request'[c].pc = "undelivered"
        /\ \A d \in Clients \ {c} : request'[d] = request[d]
        /\ request[c].pc = "inserted"
    BY <1>6 DEF DispatchFails, SetRequest, TypeOK
  <2>2. UNCHANGED <<stale, broker, work, purge, status>>
    BY <1>6 DEF DispatchFails, rows
  <2> QED
    BY <1>a, <1>b, <2>1, <2>2, TimelyKept
<1> QED
  BY <1>1, <1>2, <1>3, <1>4, <1>5, <1>6 DEF RequestStep

LEMMA WorkerTimely ==
  ASSUME TypeInv, SafeInv, TimelyInv, NEW w \in Workers,
         WorkerStep(w) \/ PutUnsure(w) \/ WorkerCrash(w) \/ Redeliver(w)
  PROVE  TimelyInv'
<1> USE ConstantFacts, Members DEF TypeInv
<1>b. \A p \in Purgers : \A j \in purge[p].stuck : stale[j]
  BY DEF TimelyInv
<1>1. ASSUME NEW j \in broker, Claim(w, j) PROVE TimelyInv'
  <2>1. /\ j \in Jobs /\ ~stale[j] /\ \A c \in Clients : request[c].job # j
    BY DEF TypeOK, TimelyInv, InHand, Undelivered
  <2>2. status'[j] = "running" /\ \A i \in Jobs \ {j} : status'[i] = status[i]
    BY <1>1, <2>1 DEF Claim, TypeOK
  <2>3. UNCHANGED <<stale, request, purge>> /\ broker' = broker \ {j}
    BY <1>1 DEF Claim
  <2>4. \A i \in Jobs \ {j} : Held(i)' => Held(i)
    BY <1>1 DEF Claim, SetWork, Held, TypeOK
  <2>5. \A d \in Clients, i \in Jobs : request'[d].job = i => status'[i] # "none" /\ Undelivered(d, i)'
    BY <2>1, <2>2, <2>3, <2>4 DEF TimelyInv, Undelivered
  <2>6. \A i \in Jobs : stale'[i] => ~InHand(i)' /\ status'[i] # "none"
    BY <2>1, <2>2, <2>3, <2>4 DEF TimelyInv, InHand, Held
  <2>7. \A i \in Jobs : status'[i] = "failed" => ~Held(i)'
    BY <2>2, <2>4 DEF TimelyInv
  <2>8. \A i \in broker' : status'[i] # "none"
    BY <2>2, <2>3 DEF TimelyInv, TypeOK
  <2> QED
    BY <1>b, <2>3, <2>5, <2>6, <2>7, <2>8 DEF TimelyInv
<1>2. ASSUME NEW j \in broker, Discard(w, j) PROVE TimelyInv'
  <2>1. UNCHANGED <<stale, request, purge, status, work>> /\ broker' \subseteq broker
    BY <1>2 DEF Discard, rows
  <2>2. \A i \in Jobs : Held(i)' => Held(i)
    BY <2>1 DEF Held
  <2> QED
    BY <1>b, <2>1, <2>2, TimelyKept
<1>3. CASE LoadJob(w) \/ LoadOrg(w) \/ AssertFails(w) \/ Put(w) \/ RenderFails(w) \/ PutUnsure(w)
  <2>1. UNCHANGED <<stale, request, purge, status, broker>>
    BY <1>3 DEF LoadJob, LoadOrg, AssertFails, Put, RenderFails, PutUnsure, rows
  <2>2. /\ work'[w].job \in {work[w].job, NoJob}
        /\ \A v \in Workers \ {w} : work'[v] = work[v]
    BY <1>3 DEF LoadJob, LoadOrg, AssertFails, Put, RenderFails, PutUnsure, SetWork, NoWork, TypeOK
  <2>3. \A i \in Jobs : Held(i)' => Held(i)
    BY <2>2 DEF Held
  <2> QED
    BY <1>b, <2>1, <2>3, TimelyKept
<1>4. CASE MarkFailed(w) \/ Complete(w)
  <2>1. UNCHANGED <<stale, request, purge, broker>>
    BY <1>4 DEF MarkFailed, Complete
  <2>2. /\ work'[w].job = NoJob
        /\ \A v \in Workers \ {w} : work'[v] = work[v]
    BY <1>4 DEF MarkFailed, Complete, SetWork, NoWork, TypeOK
  <2>3. work[w].job \in Jobs
    BY <1>4 DEF MarkFailed, Complete, JobInHand
  <2>4. \A i \in Jobs : Held(i)' => Held(i) /\ i # work[w].job
    BY <2>2, <2>3 DEF SafeInv, ClaimInv, Held
  <2>5. \A i \in Jobs : /\ status'[i] = "none" => status[i] = "none"
                        /\ status'[i] = "failed" => status[i] = "failed" \/ i = work[w].job
    BY <1>4, <2>3 DEF MarkFailed, FailActive, Complete, TypeOK
  <2> QED
    BY <1>b, <2>1, <2>4, <2>5, TimelyKept
<1>5. CASE WorkerCrash(w) \/ Redeliver(w)
  <2> DEFINE j == work[w].job
  <2>1. j \in Jobs /\ Held(j) /\ status[j] # "none"
    BY <1>5 DEF WorkerCrash, Redeliver, JobInHand, Held, SafeInv, ClaimInv
  <2>2. UNCHANGED <<stale, request, purge, status>> /\ broker' \subseteq broker \cup {j}
    BY <1>5 DEF WorkerCrash, Redeliver, rows
  <2>3. \A v \in Workers : work'[v].job \in {work[v].job, NoJob}
    BY <1>5 DEF WorkerCrash, Redeliver, SetWork, NoWork, TypeOK
  <2>4. \A i \in Jobs : Held(i)' => Held(i)
    BY <2>3 DEF Held
  <2>a. ~stale[j] /\ \A c \in Clients : request[c].job # j
    BY <2>1 DEF TimelyInv, InHand, Held, Undelivered
  <2> HIDE DEF j
  <2>5. \A d \in Clients, i \in Jobs : request'[d].job = i => status'[i] # "none" /\ Undelivered(d, i)'
    BY <2>2, <2>4, <2>a DEF TimelyInv, Undelivered
  <2>6. \A i \in Jobs : stale'[i] => ~InHand(i)' /\ status'[i] # "none"
    BY <2>2, <2>4, <2>a DEF TimelyInv, InHand, Held
  <2>7. \A i \in Jobs : status'[i] = "failed" => ~Held(i)'
    BY <2>2, <2>4 DEF TimelyInv
  <2>8. \A i \in broker' : status'[i] # "none"
    BY <2>1, <2>2 DEF TimelyInv
  <2> QED
    BY <1>b, <2>2, <2>5, <2>6, <2>7, <2>8 DEF TimelyInv
<1> QED
  BY <1>1, <1>2, <1>3, <1>4, <1>5 DEF WorkerStep

LEMMA PurgeTimely ==
  ASSUME TypeInv, TimelyInv, NEW p \in Purgers,
         \/ PurgeStep(p) \/ PurgeCrash(p)
         \/ \E k \in purge[p].todo : PurgeDeleteFails(p, k)
  PROVE  TimelyInv'
<1> USE ConstantFacts, Members DEF TypeInv
<1>1. UNCHANGED <<stale, broker, request, work>>
  BY DEF PurgeStep, PurgeStart, PurgeDelete, PurgeCommit, PurgeAborts, PurgeCrash,
         PurgeDeleteFails, rows
<1>2. \A j \in Jobs : Held(j)' <=> Held(j)
  BY <1>1 DEF Held
<1>b. \A q \in Purgers : \A j \in purge[q].stuck : stale[j]
  BY DEF TimelyInv
<1>3. \A q \in Purgers : \A j \in purge'[q].stuck : stale[j]
  <2>1. CASE PurgeStart(p)
    BY <1>b, <2>1 DEF PurgeStart, SetPurge, TypeOK
  <2>2. ASSUME NEW k \in purge[p].todo, PurgeDelete(p, k) \/ PurgeDeleteFails(p, k)
        PROVE  \A q \in Purgers : purge'[q].stuck = purge[q].stuck
    <3>1. /\ \A q \in Purgers \ {p} : purge'[q] = purge[q]
          /\ \/ purge'[p] = [purge[p] EXCEPT !.todo = @ \ {k}, !.done = @ \cup {k}]
             \/ purge'[p] = [purge[p] EXCEPT !.todo = @ \ {k}]
      BY <2>2 DEF PurgeDelete, PurgeDeleteFails, SetPurge, TypeOK
    <3>2. purge[p] \in Purges
      OBVIOUS
    <3>3. purge'[p].stuck = purge[p].stuck
      BY <3>1, <3>2 DEF Purges
    <3> QED
      BY <3>1, <3>3
  <2>3. CASE PurgeCommit(p) \/ PurgeAborts(p) \/ PurgeCrash(p)
    <3>1. purge' = [purge EXCEPT ![p] = NoPurge]
      BY <2>3 DEF PurgeCommit, PurgeAborts, PurgeCrash, SetPurge
    <3>2. purge'[p].stuck = {} /\ \A q \in Purgers \ {p} : purge'[q] = purge[q]
      BY <3>1 DEF NoPurge, TypeOK
    <3> QED
      BY <1>b, <3>2
  <2> QED
    BY <1>b, <2>1, <2>2, <2>3 DEF PurgeStep
<1>4. \A j \in Jobs : /\ status'[j] = "none" => status[j] = "none"
                      /\ status'[j] = "failed" => status[j] = "failed" \/ ~Held(j)
  <2>1. CASE PurgeCommit(p)
    <3>1. \A j \in LeftBehind(p) : stale[j]
      BY <1>b DEF LeftBehind
    <3>2. \A j \in Jobs : stale[j] => ~Held(j)
      BY DEF TimelyInv, InHand, Held
    <3> QED
      BY <2>1, <3>1, <3>2 DEF PurgeCommit
  <2>2. CASE UNCHANGED status
    BY <2>2
  <2> QED
    BY <2>1, <2>2 DEF PurgeStep, PurgeStart, PurgeDelete, PurgeAborts, PurgeCrash,
         PurgeDeleteFails, rows
<1> QED
  BY <1>1, <1>2, <1>3, <1>4, TimelyKept

LEMMA OtherTimely ==
  ASSUME TypeInv, TimelyInv, Timely, Time \/ (\E o \in Orgs : DeleteOrg(o)) \/ UNCHANGED vars
  PROVE  TimelyInv'
<1> USE ConstantFacts, Members DEF TypeInv
<1>a. ASSUME UNCHANGED work PROVE \A j \in Jobs : Held(j)' <=> Held(j)
  BY <1>a DEF Held
<1>b. \A p \in Purgers : \A j \in purge[p].stuck : stale[j]
  BY DEF TimelyInv
<1>1. ASSUME NEW j \in Jobs, GrowStale(j) PROVE TimelyInv'
  <2>1. UNCHANGED <<status, broker, request, work, purge>> /\ ~InHand(j) /\ status[j] # "none"
    BY <1>1 DEF GrowStale, ACTIVE
  <2>2. \A i \in Jobs : stale'[i] <=> stale[i] \/ i = j
    BY <1>1 DEF GrowStale, TypeOK
  <2>3. \A i \in Jobs : (InHand(i)' <=> InHand(i)) /\ (Held(i)' <=> Held(i))
    BY <2>1 DEF InHand, Held
  <2>4. \A c \in Clients, i \in Jobs : Undelivered(c, i) => Undelivered(c, i)'
    BY <2>1, <2>3 DEF Undelivered
  <2>5. \A p \in Purgers : \A i \in purge'[p].stuck : stale'[i]
    BY <1>b, <2>1, <2>2 DEF TypeOK, Purges
  <2> QED
    BY <2>1, <2>2, <2>3, <2>4, <2>5 DEF TimelyInv
<1>2. CASE \/ \E j \in Jobs : OutlastRetention(j)
           \/ \E o \in Orgs : DeleteOrg(o)
           \/ UNCHANGED vars
  <2>1. UNCHANGED <<stale, broker, request, work, purge>>
    BY <1>2 DEF OutlastRetention, DeleteOrg, vars, rows
  <2>2. \A j \in Jobs : /\ status'[j] = "none" => status[j] = "none"
                        /\ status'[j] = "failed" => status[j] = "failed"
    BY <1>2 DEF OutlastRetention, DeleteOrg, vars, rows
  <2> QED
    BY <1>a, <1>b, <2>1, <2>2, TimelyKept
<1> QED
  BY <1>1, <1>2 DEF Time

LEMMA TimelyNext == Timely /\ TypeInv /\ SafeInv /\ TimelyInv /\ [Next]_vars => TimelyInv'
<1> SUFFICES ASSUME Timely, TypeInv, SafeInv, TimelyInv, [Next]_vars PROVE TimelyInv'
  OBVIOUS
<1> QED
  BY RequestTimely, WorkerTimely, PurgeTimely, OtherTimely DEF Next, Faults

LEMMA TimelyInit == Init => TimelyInv
  BY ConstantFacts DEF Init, TimelyInv, NoRequest, NoWork, NoPurge, Held

IInv == TypeInv /\ SafeInv /\ TimelySafe

LEMMA Inductive == Spec => []IInv
<1>1. Init => IInv
  BY TypeInit, SafeInit, TimelyInit DEF IInv, TimelySafe
<1>2. IInv /\ [Next]_vars => IInv'
  BY TypeNext, SafeNext, TimelyNext DEF IInv, TimelySafe
<1> QED
  BY <1>1, <1>2, PTL DEF Spec

-----------------------------------------------------------------------------
(* What a step does to the jobs, and the life cycle that follows from it.  *)

Requested == \E c \in Clients, j \in Jobs : InsertJob(c, j)
Taken == \E j \in Jobs : /\ status[j] = "queued"
                         /\ status' = [status EXCEPT ![j] = "running"] /\ past' = past
Finished == \E j \in Jobs : /\ status[j] = "running" \/ (~Timely /\ status[j] = "failed")
                            /\ status' = [status EXCEPT ![j] = "succeeded"]
                            /\ past' = [past EXCEPT ![j] = FALSE]
Outlasted == \E j \in Jobs : /\ status[j] = "succeeded" /\ ~past[j]
                             /\ status' = status /\ past' = [past EXCEPT ![j] = TRUE]
Settled ==
  /\ \A j \in Jobs : \/ status'[j] = status[j]
                     \/ status[j] \in ACTIVE /\ status'[j] = "failed"
                     \/ status[j] = "succeeded" /\ past[j] /\ status'[j] = "expired"
  /\ past' = past
Dropped ==
  /\ \A j \in Jobs : \/ status'[j] = status[j]
                     \/ status[j] # "none" /\ status'[j] = "deleted"
  /\ past' = past

LEMMA StatusSteps ==
  ASSUME IInv, [Next]_vars
  PROVE  Requested \/ Taken \/ Finished \/ Outlasted \/ Settled \/ Dropped
<1> USE Members, ConstantFacts DEF TypeInv, IInv
<1>a. UNCHANGED <<status, past>> => Settled
  BY DEF Settled
<1>b. ASSUME NEW J, FailActive(J), UNCHANGED past PROVE Settled
  BY <1>b DEF FailActive, Settled
<1>1. ASSUME NEW c \in Clients,
             \/ RequestStep(c) \/ DispatchFails(c) \/ RequestDies(c)
             \/ \E o \in Orgs : CountActive(c, o)
      PROVE  Requested \/ Settled
  <2>1. ASSUME NEW j \in Jobs, InsertJob(c, j) PROVE Requested
    BY <2>1 DEF Requested
  <2>2. CASE MarkUndelivered(c)
    BY <1>b, <2>2 DEF MarkUndelivered
  <2> QED
    BY <1>1, <1>a, <2>1, <2>2
       DEF RequestStep, RequestRefused, Dispatch, DispatchFails, RequestDies, CountActive, rows
<1>2. ASSUME NEW w \in Workers,
             WorkerStep(w) \/ PutUnsure(w) \/ WorkerCrash(w) \/ Redeliver(w)
      PROVE  Taken \/ Finished \/ Settled
  <2>1. ASSUME NEW j \in broker, Claim(w, j) PROVE Taken
    BY <2>1 DEF Claim, Claimable, Taken, TypeOK
  <2>2. CASE MarkFailed(w)
    BY <1>b, <2>2 DEF MarkFailed
  <2>3. CASE Complete(w)
    <3> DEFINE j == work[w].job
    <3>1. j \in Jobs /\ status[j] \in {"running", "failed", "deleted"} /\ Held(j)
      BY <2>3 DEF Complete, JobInHand, SafeInv, ClaimInv, Held
    <3>2. Timely => status[j] # "failed"
      BY <3>1 DEF TimelySafe, TimelyInv
    <3>3. CASE status[j] = "deleted"
      BY <1>a, <2>3, <3>3 DEF Complete
    <3>4. CASE status[j] # "deleted"
      BY <2>3, <3>1, <3>2, <3>4 DEF Complete, Finished
    <3> QED
      BY <3>3, <3>4
  <2>4. ASSUME NEW j \in broker, Discard(w, j) PROVE Settled
    BY <1>a, <2>4 DEF Discard, rows
  <2>5. CASE \/ LoadJob(w) \/ LoadOrg(w) \/ AssertFails(w) \/ Put(w) \/ RenderFails(w)
             \/ PutUnsure(w) \/ WorkerCrash(w) \/ Redeliver(w)
    BY <1>a, <2>5 DEF LoadJob, LoadOrg, AssertFails, Put, RenderFails, PutUnsure,
                      WorkerCrash, Redeliver, rows
  <2> QED
    BY <1>2, <2>1, <2>2, <2>3, <2>4, <2>5 DEF WorkerStep
<1>3. ASSUME NEW p \in Purgers,
             \/ PurgeStep(p) \/ PurgeCrash(p)
             \/ \E k \in purge[p].todo : PurgeDeleteFails(p, k)
      PROVE  Settled
  <2>1. CASE PurgeCommit(p)
    <3>1. \A j \in Purged(p) : status[j] # "deleted" =>
             status[j] = "expired" \/ (status[j] = "succeeded" /\ past[j])
      BY DEF Purged, SafeInv, FileInv, Retired
    <3> QED
      BY <2>1, <3>1 DEF PurgeCommit, LeftBehind, Settled
  <2>2. CASE UNCHANGED <<status, past>>
    BY <1>a, <2>2
  <2> QED
    BY <1>3, <2>1, <2>2 DEF PurgeStep, PurgeStart, PurgeDelete, PurgeAborts, PurgeCrash,
         PurgeDeleteFails, rows
<1>4. ASSUME NEW j \in Jobs, GrowStale(j) \/ OutlastRetention(j) PROVE Settled \/ Outlasted
  BY <1>4, <1>a DEF GrowStale, OutlastRetention, Outlasted
<1>5. ASSUME NEW o \in Orgs, DeleteOrg(o) PROVE Dropped
  BY <1>5 DEF DeleteOrg, Dropped
<1>6. CASE UNCHANGED vars
  BY <1>6, <1>a DEF vars, rows
<1> QED
  BY <1>1, <1>2, <1>3, <1>4, <1>5, <1>6 DEF Next, Faults, Time

\* While deliveries are timely, a job that was given up stays failed.
THEOREM GivenUpForGood == ASSUME Timely PROVE Spec => FailedIsFinal
<1> DEFINE Final == \A j \in Jobs : status[j] = "failed" => status'[j] \in {"failed", "deleted"}
<1>1. IInv /\ [Next]_vars => [Final]_vars
  <2> SUFFICES ASSUME IInv, [Next]_vars PROVE Final
    OBVIOUS
  <2>1. status \in [Jobs -> Statuses]
    BY DEF IInv, TypeInv, TypeOK
  <2> QED
    BY <2>1, StatusSteps, ConstantFacts
       DEF Requested, InsertJob, Taken, Finished, Outlasted, Settled, Dropped, ACTIVE
<1> QED
  BY <1>1, Inductive, PTL DEF Spec, FailedIsFinal

\* What the organisation sees depends on the status and the retention only: a
\* file that it can download is never missing.
Seen(s, p) == CASE s \in ACTIVE -> "preparing"
                [] s = "succeeded" -> IF p THEN "over" ELSE "ready"
                [] s = "expired" -> "over"
                [] OTHER -> s

LEMMA SeenIsView == IInv => \A j \in Jobs : ViewOf(j) = Seen(status[j], past[j])
  BY DEF IInv, SafeInv, FileInv, ReadyHasFile, Downloadable, ViewOf, Seen, ACTIVE

LEMMA SeenIsViewNext == IInv' => \A j \in Jobs : ViewOf(j)' = Seen(status'[j], past'[j])
<1>1. (IInv => \A j \in Jobs : ViewOf(j) = Seen(status[j], past[j]))'
  BY SeenIsView, PTL
<1> QED
  BY <1>1 DEF Seen

View == [j \in Jobs |-> ViewOf(j)]

LEMMA ViewInit == Init => Lifecycle!Init
  BY DEF Init, Lifecycle!Init, ViewOf, ACTIVE

LEMMA ViewNext == IInv /\ IInv' /\ [Next]_vars => [Lifecycle!Next]_View
<1> SUFFICES ASSUME IInv, IInv', [Next]_vars PROVE Lifecycle!Next \/ UNCHANGED View
  OBVIOUS
<1> USE ConstantFacts
<1>1. /\ \A j \in Jobs : View[j] = Seen(status[j], past[j])
      /\ \A j \in Jobs : View'[j] = Seen(status'[j], past'[j])
  BY SeenIsView, SeenIsViewNext DEF View
<1>2. status \in [Jobs -> Statuses] /\ past \in [Jobs -> BOOLEAN]
  BY DEF IInv, TypeInv, TypeOK
<1>3. View = [j \in Jobs |-> View[j]] /\ View' = [j \in Jobs |-> View'[j]]
  BY DEF View
<1>4. CASE Requested
  <2>1. PICK j \in Jobs : /\ status[j] = "none"
                         /\ status' = [status EXCEPT ![j] = "queued"] /\ past' = past
    BY <1>4 DEF Requested, InsertJob
  <2>2. View[j] = "none" /\ View' = [View EXCEPT ![j] = "preparing"]
    BY <1>1, <1>2, <1>3, <2>1 DEF Seen, ACTIVE
  <2>3. Lifecycle!Request(j)
    BY <2>2 DEF Lifecycle!Request, Lifecycle!Move, View
  <2> QED
    BY <2>3 DEF Lifecycle!Next
<1>5. CASE Taken
  <2>1. \A j \in Jobs : View'[j] = View[j]
    BY <1>1, <1>2, <1>5 DEF Taken, Seen, ACTIVE
  <2> QED
    BY <1>3, <2>1
<1>6. CASE Finished
  <2>1. PICK j \in Jobs : /\ status[j] = "running" \/ (~Timely /\ status[j] = "failed")
                         /\ status' = [status EXCEPT ![j] = "succeeded"]
                         /\ past' = [past EXCEPT ![j] = FALSE]
    BY <1>6 DEF Finished
  <2>2. View[j] = "preparing" \/ (~Timely /\ View[j] = "failed")
    BY <1>1, <2>1 DEF Seen, ACTIVE
  <2>3. View' = [View EXCEPT ![j] = "ready"]
    BY <1>1, <1>2, <1>3, <2>1 DEF Seen, ACTIVE
  <2>4. Lifecycle!Finish(j)
    BY <2>2, <2>3 DEF Lifecycle!Finish, Lifecycle!Move, View
  <2> QED
    BY <2>4 DEF Lifecycle!Next
<1>7. CASE Outlasted
  <2>1. PICK j \in Jobs : /\ status[j] = "succeeded" /\ ~past[j]
                         /\ status' = status /\ past' = [past EXCEPT ![j] = TRUE]
    BY <1>7 DEF Outlasted
  <2>2. View[j] = "ready" /\ View' = [View EXCEPT ![j] = "over"]
    BY <1>1, <1>2, <1>3, <2>1 DEF Seen, ACTIVE
  <2>3. Lifecycle!Expire(j)
    BY <2>2 DEF Lifecycle!Expire, Lifecycle!Move, View
  <2> QED
    BY <2>3 DEF Lifecycle!Next
<1>8. CASE Settled
  <2> DEFINE J == {j \in Jobs : status[j] \in ACTIVE /\ status'[j] = "failed"}
  <2>1. \A j \in J : View[j] = "preparing"
    BY <1>1 DEF Seen, ACTIVE
  <2>2. \A j \in Jobs : View'[j] = IF j \in J THEN "failed" ELSE View[j]
    BY <1>1, <1>8 DEF Settled, Seen, ACTIVE
  <2> HIDE DEF J
  <2>3. View' = [j \in Jobs |-> IF j \in J THEN "failed" ELSE View[j]]
    BY <1>3, <2>2
  <2>4. Lifecycle!GiveUp(J)
    BY <2>1, <2>3 DEF Lifecycle!GiveUp, View
  <2>5. J \in SUBSET Jobs
    BY DEF J
  <2> QED
    BY <2>4, <2>5 DEF Lifecycle!Next
<1>9. CASE Dropped
  <2> DEFINE J == {j \in Jobs : status[j] # "none" /\ status'[j] = "deleted"}
  <2>1. \A j \in J : View[j] # "none"
    BY <1>1, <1>2 DEF Seen, ACTIVE
  <2>2. \A j \in Jobs : View'[j] = IF j \in J THEN "deleted" ELSE View[j]
    BY <1>1, <1>9 DEF Dropped, Seen, ACTIVE
  <2> HIDE DEF J
  <2>3. View' = [j \in Jobs |-> IF j \in J THEN "deleted" ELSE View[j]]
    BY <1>3, <2>2
  <2>4. Lifecycle!Delete(J)
    BY <2>1, <2>3 DEF Lifecycle!Delete, View
  <2>5. J \in SUBSET Jobs
    BY DEF J
  <2> QED
    BY <2>4, <2>5 DEF Lifecycle!Next
<1> QED
  BY <1>4, <1>5, <1>6, <1>7, <1>8, <1>9, StatusSteps

\* The jobs, workers, redeliveries and purges implement the life cycle that an
\* organisation is promised; a late finish of a job that was given up is the
\* one concession, and none while deliveries are timely.
THEOREM Refines == Spec => LifecycleRefined
<1>1. Init => Lifecycle!Init
  BY ViewInit
<1>2. IInv /\ IInv' /\ [Next]_vars => [Lifecycle!Next]_View
  BY ViewNext
<1> QED
  BY <1>1, <1>2, Inductive, PTL DEF Spec, LifecycleRefined, Lifecycle!Spec, View

-----------------------------------------------------------------------------
(* The soft cap: a request that has counted is one that may still insert.  *)

LEMMA CountedShrinks ==
  ASSUME TypeInv, [Next]_vars
  PROVE  \/ \E c \in Clients, o \in Orgs : CountActive(c, o)
         \/ Requested
         \/ \A o \in Orgs : Counted(o)' \subseteq Counted(o)
<1> DEFINE Shrinks == \A o \in Orgs : Counted(o)' \subseteq Counted(o)
<1>1. UNCHANGED request => Shrinks
  BY DEF Counted
<1>2. ASSUME NEW c \in Clients,
             \/ RequestRefused(c) \/ Dispatch(c) \/ MarkUndelivered(c)
             \/ DispatchFails(c) \/ RequestDies(c)
      PROVE  Shrinks
  <2>1. request'[c].pc # "counted" /\ \A d \in Clients \ {c} : request'[d] = request[d]
    BY <1>2 DEF RequestRefused, Dispatch, MarkUndelivered, DispatchFails, RequestDies,
                SetRequest, NoRequest, TypeInv, TypeOK
  <2> QED
    BY <2>1 DEF Counted
<1>3. ASSUME NEW w \in Workers,
             WorkerStep(w) \/ PutUnsure(w) \/ WorkerCrash(w) \/ Redeliver(w)
      PROVE  UNCHANGED request
  BY <1>3 DEF WorkerStep, Claim, Discard, LoadJob, LoadOrg, AssertFails, Put, RenderFails,
              MarkFailed, Complete, PutUnsure, WorkerCrash, Redeliver
<1>4. ASSUME NEW p \in Purgers,
             \/ PurgeStep(p) \/ PurgeCrash(p)
             \/ \E k \in purge[p].todo : PurgeDeleteFails(p, k)
      PROVE  UNCHANGED request
  BY <1>4 DEF PurgeStep, PurgeStart, PurgeDelete, PurgeCommit, PurgeAborts, PurgeCrash,
              PurgeDeleteFails
<1>5. CASE Time \/ (\E o \in Orgs : DeleteOrg(o)) \/ UNCHANGED vars
  <2>1. UNCHANGED request
    BY <1>5 DEF Time, GrowStale, OutlastRetention, DeleteOrg, vars
  <2> QED
    BY <1>1, <2>1
<1>6. CASE \E c \in Clients : \/ RequestStep(c) \/ DispatchFails(c) \/ RequestDies(c)
                             \/ \E o \in Orgs : CountActive(c, o)
  BY <1>2, <1>6 DEF RequestStep, Requested, Shrinks
<1> QED
  BY <1>1, <1>3, <1>4, <1>5, <1>6 DEF Next, Faults

LEMMA Finite ==
  ASSUME NEW o \in Orgs
  PROVE  /\ IsFiniteSet(Active(o)) /\ Cardinality(Active(o)) \in Nat
         /\ IsFiniteSet(Counted(o)) /\ Cardinality(Counted(o)) \in Nat
         /\ Cardinality(Counted(o)) <= Cardinality(Clients)
         /\ Cardinality(Clients) \in Nat
<1>1. Active(o) \subseteq Jobs /\ Counted(o) \subseteq Clients
  BY DEF Active, Counted
<1> QED
  BY <1>1, FiniteAssumption, FS_Subset, FS_CardinalityType

LEMMA FiniteNext ==
  ASSUME NEW o \in Orgs
  PROVE  /\ IsFiniteSet(Active(o)') /\ Cardinality(Active(o)') \in Nat
         /\ IsFiniteSet(Counted(o)') /\ Cardinality(Counted(o)') \in Nat
         /\ Cardinality(Counted(o)') <= Cardinality(Clients)
<1>1. Active(o)' \subseteq Jobs /\ Counted(o)' \subseteq Clients
  BY DEF Active, Counted
<1> QED
  BY <1>1, FiniteAssumption, FS_Subset, FS_CardinalityType

LEMMA CapNext == IInv /\ CapInv /\ [Next]_vars => CapInv'
<1> SUFFICES ASSUME IInv, CapInv, [Next]_vars, NEW o \in Orgs
             PROVE  Cardinality(Active(o)') + Cardinality(Counted(o)') < Cap + Cardinality(Clients)
  BY DEF CapInv
<1> USE ConstantFacts
<1>1. status \in [Jobs -> Statuses] /\ TypeInv /\ TypeOK
  BY DEF IInv, TypeInv, TypeOK
<1>2. Cardinality(Active(o)) + Cardinality(Counted(o)) < Cap + Cardinality(Clients)
  BY DEF CapInv
<1>3. ~Requested => Active(o)' \subseteq Active(o)
  BY <1>1, StatusSteps DEF Taken, Finished, Outlasted, Settled, Dropped, Active, ACTIVE
<1>4. CASE Requested
  <2>1. PICK c \in Clients, j \in Jobs : InsertJob(c, j)
    BY <1>4 DEF Requested
  <2>2. CASE o = OrgOf[j]
    <3>1. Active(o)' = Active(o) \cup {j} /\ j \notin Active(o)
      BY <1>1, <2>1, <2>2 DEF InsertJob, Active, ACTIVE
    <3>2. Counted(o)' = Counted(o) \ {c} /\ c \in Counted(o)
      BY <1>1, <2>1, <2>2 DEF InsertJob, SetRequest, Counted, TypeOK
    <3>3. Cardinality(Active(o)') = Cardinality(Active(o)) + 1
      BY <3>1, Finite, FS_AddElement
    <3>4. Cardinality(Counted(o)') = Cardinality(Counted(o)) - 1
      BY <3>2, Finite, FS_RemoveElement
    <3> QED
      BY <1>2, <3>3, <3>4, Finite
  <2>3. CASE o # OrgOf[j]
    <3>1. Active(o)' = Active(o)
      BY <1>1, <2>1, <2>3 DEF InsertJob, Active, ACTIVE
    <3>2. Counted(o)' = Counted(o)
      BY <1>1, <2>1, <2>3 DEF InsertJob, SetRequest, Counted, TypeOK
    <3> QED
      BY <1>2, <3>1, <3>2
  <2> QED
    BY <2>2, <2>3
<1>5. CASE (\A u \in Orgs : Counted(u)' \subseteq Counted(u)) /\ ~Requested
  <2>1. Cardinality(Active(o)') <= Cardinality(Active(o))
    BY <1>3, <1>5, Finite, FS_Subset
  <2>2. Cardinality(Counted(o)') <= Cardinality(Counted(o))
    BY <1>5, Finite, FS_Subset
  <2> QED
    BY <1>2, <2>1, <2>2, Finite, FiniteNext
<1>6. ASSUME NEW c \in Clients, NEW u \in Orgs, CountActive(c, u), ~Requested
      PROVE  Cardinality(Active(o)') + Cardinality(Counted(o)') < Cap + Cardinality(Clients)
  <2>1. Cardinality(Active(o)') <= Cardinality(Active(o))
    BY <1>3, <1>6, Finite, FS_Subset
  <2>2. CASE u = o
    <3>1. Cardinality(Active(o)) < Cap
      BY <1>6, <2>2 DEF CountActive, UnderCap
    <3> QED
      BY <2>1, <3>1, Finite, FiniteNext
  <2>3. CASE u # o
    <3>1. Counted(o)' \subseteq Counted(o)
      BY <1>1, <1>6, <2>3 DEF CountActive, SetRequest, Counted, TypeOK
    <3>2. Cardinality(Counted(o)') <= Cardinality(Counted(o))
      BY <3>1, Finite, FS_Subset
    <3> QED
      BY <1>2, <2>1, <3>2, Finite, FiniteNext
  <2> QED
    BY <2>2, <2>3
<1> QED
  BY <1>1, <1>4, <1>5, <1>6, CountedShrinks

LEMMA CapInit == Init => CapInv
<1> SUFFICES ASSUME Init, NEW o \in Orgs
             PROVE  Cardinality(Active(o)) + Cardinality(Counted(o)) < Cap + Cardinality(Clients)
  BY DEF CapInv
<1>1. Active(o) = {} /\ Counted(o) = {}
  BY DEF Init, Active, ACTIVE, Counted, NoRequest
<1> QED
  BY <1>1, ConstantFacts, Finite, FS_EmptySet

\* With any number of API processes counting at once, the active jobs pass the
\* limit by no more than the requests in flight less one.
THEOREM CapIsSoft == Spec => []SoftCap
<1>1. Spec => [](IInv /\ CapInv)
  <2>1. Init => CapInv
    BY CapInit
  <2>2. IInv /\ CapInv /\ [Next]_vars => CapInv'
    BY CapNext
  <2> QED
    BY <2>1, <2>2, Inductive, PTL DEF Spec
<1>2. CapInv => SoftCap
  <2> SUFFICES ASSUME CapInv, NEW o \in Orgs
               PROVE  Cardinality(Active(o)) < Cap + Cardinality(Clients)
    BY DEF SoftCap
  <2>1. Cardinality(Active(o)) + Cardinality(Counted(o)) < Cap + Cardinality(Clients)
    BY DEF CapInv
  <2> QED
    BY <2>1, Finite, ConstantFacts
<1> QED
  BY <1>1, <1>2, PTL
=============================================================================
