--------------------------- MODULE SignInHistory ---------------------------
(* The recent sign-ins of one user (record_login of profile_service.py):    *)
(* each sign-in inserts a row and deletes what is older than the newest     *)
(* few, in a transaction that sees what the others have committed.          *)
EXTENDS Integers, FiniteSets

CONSTANTS
  Logins,         \* sign-ins that can be recorded at the same time
  LOGIN_HISTORY_KEEP,
  MaxLogins,      \* bound: sign-ins
  LastMoment      \* bound: the clock

KeepAssumption == LOGIN_HISTORY_KEEP \in Nat \ {0}
LoginAssumption == IsFiniteSet(Logins)

VARIABLES
  login_events,   \* the rows that are committed
  recording,      \* the sign-ins in progress
  moment,         \* the clock
  last_id,        \* the sequence that rows are numbered by
  signed_in       \* history: the rows that there have been

historyVars == <<login_events, recording, moment, last_id, signed_in>>

NoLogin == [pc |-> "idle", row |-> [at |-> 0, id |-> 0], old |-> {}]

Init ==
  /\ login_events = {} /\ recording = [l \in Logins |-> NoLogin]
  /\ moment = 0 /\ last_id = 0 /\ signed_in = {}

NewerThan(r, rows) == {s \in rows : s.at > r.at \/ (s.at = r.at /\ s.id > r.id)}

\* Mutant of Keep: by the order of insertion.
KeepById(rows) == {r \in rows : Cardinality({s \in rows : s.id > r.id}) < LOGIN_HISTORY_KEEP}
\* The rows that the order and the limit of `keep` select.
Keep(rows) == {r \in rows : Cardinality(NewerThan(r, rows)) < LOGIN_HISTORY_KEEP}

\* record_sign_in, which reads the clock.
Begin(l) ==
  /\ recording[l].pc = "idle"
  /\ recording' = [recording EXCEPT ![l].pc = "begun", ![l].row.at = moment]
  /\ UNCHANGED <<login_events, moment, last_id, signed_in>>

\* The flush: the row gets its id.
Flush(l) ==
  /\ recording[l].pc = "begun" /\ last_id < MaxLogins
  /\ last_id' = last_id + 1
  /\ recording' = [recording EXCEPT ![l].pc = "flushed", ![l].row.id = last_id']
  /\ UNCHANGED <<login_events, moment, signed_in>>

\* The delete, of the rows it sees.
Prune(l) ==
  LET seen == login_events \cup {recording[l].row}
  IN /\ recording[l].pc = "flushed"
     /\ recording' = [recording EXCEPT ![l].pc = "pruned", ![l].old = seen \ Keep(seen)]
     /\ UNCHANGED <<login_events, moment, last_id, signed_in>>

Commit(l) ==
  /\ recording[l].pc = "pruned"
  /\ login_events' = (login_events \cup {recording[l].row}) \ recording[l].old
  /\ signed_in' = signed_in \cup {recording[l].row}
  /\ recording' = [recording EXCEPT ![l] = NoLogin]
  /\ UNCHANGED <<moment, last_id>>

\* Whatever fails is rolled back, and the sign-in goes on.
Fails(l) ==
  /\ recording[l].pc # "idle"
  /\ recording' = [recording EXCEPT ![l] = NoLogin]
  /\ UNCHANGED <<login_events, moment, last_id, signed_in>>

Clock ==
  /\ moment < LastMoment /\ moment' = moment + 1
  /\ UNCHANGED <<login_events, recording, last_id, signed_in>>

Next == (\E l \in Logins : Begin(l) \/ Flush(l) \/ Prune(l) \/ Commit(l) \/ Fails(l)) \/ Clock

Spec == Init /\ [][Next]_historyVars
----------------------------------------------------------------------------
(* Properties.                                                              *)

\* Of all sign-ins that were recorded the newest are there, even if they were
\* committed in another order than they happened, and sign-ins that overlap
\* leave no more than one old row each (record_login: "Only the newest few are
\* kept").
LoginsKept ==
  /\ \A r \in signed_in \ login_events : Cardinality(NewerThan(r, signed_in)) >= LOGIN_HISTORY_KEEP
  /\ Cardinality(login_events) <= LOGIN_HISTORY_KEEP + Cardinality(Logins) - 1
============================================================================
