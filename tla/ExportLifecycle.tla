--------------------------- MODULE ExportLifecycle ---------------------------
(***************************************************************************)
(* What the web application promises of a portfolio export, as a member of *)
(* the organisation sees it: a requested export is being prepared until it *)
(* is ready or has failed, a ready export can be downloaded until its      *)
(* retention is over, and an export that is over never comes back.         *)
(* ExportJobs shows that the jobs, workers and purges implement this.      *)
(***************************************************************************)
CONSTANTS
  Jobs,          \* export jobs
  LateFinishes   \* TRUE when a job that was given up may still get ready

VARIABLE view    \* what the organisation sees of each job

View == {"none", "preparing", "ready", "failed", "over", "deleted"}

Init == view = [j \in Jobs |-> "none"]

Move(j, from, to) ==
  /\ view[j] \in from
  /\ view' = [view EXCEPT ![j] = to]

Request(j) == Move(j, {"none"}, "preparing")
Finish(j) == Move(j, {"preparing"} \cup (IF LateFinishes THEN {"failed"} ELSE {}), "ready")
Expire(j) == Move(j, {"ready"}, "over")

\* A purge gives up any number of jobs at once.
GiveUp(J) ==
  /\ \A j \in J : view[j] = "preparing"
  /\ view' = [j \in Jobs |-> IF j \in J THEN "failed" ELSE view[j]]

\* All jobs of an organisation go with it.
Delete(J) ==
  /\ \A j \in J : view[j] # "none"
  /\ view' = [j \in Jobs |-> IF j \in J THEN "deleted" ELSE view[j]]

Next ==
  \/ \E j \in Jobs : Request(j) \/ Finish(j) \/ Expire(j)
  \/ \E J \in SUBSET Jobs : GiveUp(J) \/ Delete(J)

Spec == Init /\ [][Next]_view

\* Each job's view is one of those.
TypeOK == view \in [Jobs -> View]
=============================================================================
