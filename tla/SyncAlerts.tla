----------------------------- MODULE SyncAlerts -----------------------------
(* Snapshots of one vendor's risk and the alerts about them.  A sync appends *)
(* a snapshot, commits, and then compares it with the one that was the       *)
(* newest when the sync began; a daily scan looks at contracts that end.     *)
(* The Sync button and a worker can sync the vendor at the same time.        *)
EXTENDS Integers, Sequences, FiniteSets

CONSTANTS
  Syncs,          \* syncs that can run at the same time
  Assessments,    \* what a sync can find: [tier, kev_count]
  Tiers,          \* TIER_ORDER, as a set
  Rules,          \* alert rules
  First,          \* the rules there are at first
  Types,          \* the types of the rules that are created
  Windows,        \* how many days before its end a rule reports a contract
  Renewal,        \* the day on which the contract ends
  MaxDay,         \* bound: days
  MaxSnapshots,   \* bound: snapshots
  MaxEdits,       \* bound: edits of the rules
  MaxFaults       \* bound: overlapping syncs and crashes

AssessmentAssumption == Assessments \subseteq [tier : Tiers, kev_count : Nat]
RuleAssumption ==
  First \in [Rules -> [type : Types \cup {"none"}, active : BOOLEAN, days : Windows \cup {0}]]
DayAssumption == Renewal \in Nat /\ MaxDay \in Nat /\ Windows \subseteq Nat

VARIABLES
  snapshots,    \* risk_snapshots of the vendor, by time
  rules,        \* alert_rules
  notes,        \* notifications, by dedup_key (reading one changes nothing here)
  sync,         \* the syncs
  today,        \* the date
  edits,        \* history: what MaxEdits bounds
  faults,       \* history: what MaxFaults bounds
  strange       \* history: syncs have overlapped or one has crashed

alertVars == <<snapshots, rules, notes, sync, today, edits, faults, strange>>

NoRule == [type |-> "none", active |-> FALSE, days |-> 0]
\* captured_at is when the sync began: how many snapshots there were then.
\* told_on, watched: history, the day and the active rules of its evaluation.
NoSnapshot == [tier |-> "none", kev_count |-> 0, captured_at |-> 0, told_on |-> 0, watched |-> {}]
Resting == [pc |-> "idle", prev |-> NoSnapshot, captured_at |-> 0, at |-> 0, keys |-> {}]

Init ==
  /\ snapshots = <<>> /\ rules = First /\ notes = {}
  /\ sync = [s \in Syncs |-> Resting] /\ today = 0
  /\ edits = 0 /\ faults = 0 /\ strange = FALSE

active_types == {rules[r].type : r \in {q \in Rules : rules[q].active}}
------------------------------------------------------------------------------
(* Rules.                                                                    *)

\* create_rule, update_rule, delete_rule.
EditRule(r, rule) ==
  /\ edits < MaxEdits /\ edits' = edits + 1
  /\ rules[r] = NoRule \/ rule = NoRule \/ rule.type = rules[r].type
  /\ rules' = [rules EXCEPT ![r] = rule]
  /\ UNCHANGED <<snapshots, notes, sync, today, faults, strange>>
------------------------------------------------------------------------------
(* A sync.                                                                   *)

\* latest_snapshot: by captured_at, of which overlapping syncs can have the same.
Newest ==
  IF snapshots = <<>> THEN {NoSnapshot}
  ELSE {snapshots[i] : i \in {j \in DOMAIN snapshots :
          \A k \in DOMAIN snapshots : snapshots[k].captured_at <= snapshots[j].captured_at}}
Strangely(now) ==
  /\ strange' = (strange \/ now)
  /\ IF now THEN faults < MaxFaults /\ faults' = faults + 1 ELSE UNCHANGED faults

Begin(s) ==
  /\ sync[s].pc = "idle"
  /\ \E prev \in Newest :
       sync' = [sync EXCEPT ![s] = [Resting EXCEPT !.pc = "begun", !.prev = prev, !.captured_at = Len(snapshots)]]
  /\ Strangely(\E other \in Syncs : sync[other].pc # "idle")
  /\ UNCHANGED <<snapshots, rules, notes, today, edits>>

\* Mutant of Compared: with the newest one there is by now.
ComparedNow(s) == CHOOSE prev \in Newest : TRUE
Compared(s) == sync[s].prev

\* The pull has worked: build_snapshot and the commit.  (One that fails appends
\* nothing and evaluates nothing.)
Snapshot(s, found) ==
  /\ sync[s].pc = "begun" /\ Len(snapshots) < MaxSnapshots
  /\ snapshots' = Append(snapshots, [NoSnapshot EXCEPT
       !.tier = found.tier, !.kev_count = found.kev_count, !.captured_at = sync[s].captured_at])
  /\ sync' = [sync EXCEPT ![s].pc = "saved", ![s].at = Len(snapshots) + 1]
  /\ UNCHANGED <<rules, notes, today, edits, faults, strange>>
Fail(s) ==
  /\ sync[s].pc = "begun"
  /\ sync' = [sync EXCEPT ![s] = Resting]
  /\ UNCHANGED <<snapshots, rules, notes, today, edits, faults, strange>>

TierKey(prev, new, day) == [type |-> "tier_change", from |-> prev.tier, to |-> new.tier, day |-> day]
KevKey(new, day) == [type |-> "new_kev", count |-> new.kev_count, day |-> day]

\* evaluate_on_sync up to its commit: what to emit that is not there yet.
Evaluate(s) ==
  LET new == snapshots[sync[s].at]
      prev == Compared(s)
      due == {k \in {TierKey(prev, new, today)} :
                "tier_change" \in active_types /\ prev # NoSnapshot /\ prev.tier # new.tier}
             \cup {k \in {KevKey(new, today)} : "new_kev" \in active_types /\ new.kev_count > prev.kev_count}
  IN /\ sync[s].pc = "saved"
     /\ snapshots' = [snapshots EXCEPT ![sync[s].at].watched = active_types, ![sync[s].at].told_on = today]
     /\ sync' = [sync EXCEPT ![s].pc = "evaluated", ![s].keys = due \ notes]
     /\ UNCHANGED <<rules, notes, today, edits, faults, strange>>

\* The keys are unique: of two that emit one, the second loses all that it has.
Commit(s) ==
  /\ sync[s].pc = "evaluated"
  /\ notes' = IF sync[s].keys \cap notes = {} THEN notes \cup sync[s].keys ELSE notes
  /\ sync' = [sync EXCEPT ![s] = Resting]
  /\ UNCHANGED <<snapshots, rules, today, edits, faults, strange>>

\* The process ends after the snapshot and before its alerts.
Crash(s) ==
  /\ sync[s].pc \in {"saved", "evaluated"}
  /\ sync' = [sync EXCEPT ![s] = Resting]
  /\ Strangely(TRUE)
  /\ UNCHANGED <<snapshots, rules, notes, today, edits>>
------------------------------------------------------------------------------
(* Days.                                                                     *)

\* evaluate_renewals goes by one of the active rules and by the tier as it is
\* now, which says yes or no; nothing in the code calls it yet.
Renewals(r) ==
  LET key == [type |-> "renewal_due", ends |-> Renewal, day |-> today]
      window == Renewal - today
  IN /\ rules[r].type = "renewal_due" /\ rules[r].active
     /\ window \in 0 .. rules[r].days
     /\ key \notin notes
     /\ notes' = notes \cup {key}
     /\ UNCHANGED <<snapshots, rules, sync, today, edits, faults, strange>>

Midnight ==
  /\ today < MaxDay /\ today' = today + 1
  /\ UNCHANGED <<snapshots, rules, notes, sync, edits, faults, strange>>

Next ==
  \/ \E r \in Rules, type \in Types, on \in BOOLEAN, days \in Windows :
       EditRule(r, [type |-> type, active |-> on, days |-> days])
  \/ \E r \in Rules : EditRule(r, NoRule) \/ Renewals(r)
  \/ \E s \in Syncs : Begin(s) \/ (\E found \in Assessments : Snapshot(s, found)) \/ Fail(s) \/ Evaluate(s) \/ Commit(s) \/ Crash(s)
  \/ Midnight

Spec == Init /\ [][Next]_alertVars
------------------------------------------------------------------------------
(* Properties.                                                               *)

\* What an alert says has happened: a change of tier it names has both tiers
\* among the snapshots in that order, a count of exploited CVEs is one that a
\* snapshot has.
EveryAlertIsTrue ==
  \A k \in notes :
    CASE k.type = "tier_change" ->
           \E i, j \in DOMAIN snapshots : i < j /\ snapshots[i].tier = k.from /\ snapshots[j].tier = k.to
      [] k.type = "new_kev" -> \E i \in DOMAIN snapshots : snapshots[i].kev_count = k.count
      [] OTHER -> k.day <= Renewal

\* The alert of each snapshot, as it was evaluated, about the one before it.
Told(i) ==
  LET prev == IF i = 1 THEN NoSnapshot ELSE snapshots[i - 1]
      new == snapshots[i]
  IN /\ "tier_change" \in new.watched /\ i > 1 /\ prev.tier # new.tier => TierKey(prev, new, new.told_on) \in notes
     /\ "new_kev" \in new.watched /\ new.kev_count > prev.kev_count => KevKey(new, new.told_on) \in notes
Evaluating(i) == \E s \in Syncs : sync[s].pc # "idle" /\ sync[s].at = i

\* Alerts say what the snapshots say: every one of them is true, whatever
\* overlaps or crashes; and while no sync overlaps another or crashes between its
\* two commits, no change between one snapshot and the next goes untold.
AlertsMatchHistory ==
  /\ EveryAlertIsTrue
  /\ ~strange => \A i \in DOMAIN snapshots : Evaluating(i) \/ Told(i)
=============================================================================
