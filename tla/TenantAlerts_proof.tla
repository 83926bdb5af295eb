------------------------- MODULE TenantAlerts_proof -------------------------
(* Proofs about the alerts of a tenant and about its reports: what the trend *)
(* remembers of the dashboard.                                               *)
EXTENDS TenantVendors_proof, Integers

\* The part runs as its own module says.
LEMMA AlertsRun == Spec => Alerts!Spec
<1>1. Init => Alerts!Init
  BY DEF Init
<1>2. [Next]_tenantVars => [Alerts!Next]_(Alerts!alertVars)
  BY DEF Next, tenantVars, CatalogStep, SettingsStep, RiskStep, AlertsStep, AccountsStep, PhotoStep, ReportsStep,
     GoogleStep, HistoryStep, alertVars, Alerts!alertVars
<1> QED BY <1>1, <1>2, PTL DEF Spec, Alerts!Spec
------------------------------------------------------------------------------
(* Types.                                                                    *)

TierKeys == [type : {"tier_change"}, from : Tiers, to : Tiers, day : Nat]
KevKeys == [type : {"new_kev"}, count : Nat, day : Nat]
DueKeys == [type : {"renewal_due"}, ends : {Renewal}, day : 0 .. Renewal]

Watched == SUBSET (Types \cup {"none"})
Snapshots == [tier : Tiers, kev_count : Nat, captured_at : Nat, told_on : Nat, watched : Watched]
RuleRows == [type : Types \cup {"none"}, active : BOOLEAN, days : Windows \cup {0}]
SyncRows ==
  [pc : {"idle", "begun", "saved", "evaluated"}, prev : Snapshots \cup {Alerts!NoSnapshot},
   captured_at : Nat, at : Nat, keys : SUBSET (TierKeys \cup KevKeys)]

AlertTypeOK ==
  /\ snapshots \in Seq(Snapshots)
  /\ rules \in [Rules -> RuleRows]
  /\ notes \in SUBSET (TierKeys \cup KevKeys \cup DueKeys)
  /\ sync \in [Syncs -> SyncRows]
  /\ today \in Nat
  /\ strange \in BOOLEAN

\* What a sync found, of a snapshot.
Same(a, b) == a.tier = b.tier /\ a.kev_count = b.kev_count

\* A sync has seen a snapshot that is older than its own.
Seen(s) ==
  LET r == sync[s] IN
  /\ r.captured_at <= Len(snapshots)
  /\ r.prev # Alerts!NoSnapshot => \E i \in 1 .. r.captured_at : Same(snapshots[i], r.prev)
  /\ r.pc \in {"saved", "evaluated"} => r.at \in 1 .. Len(snapshots) /\ r.captured_at < r.at
\* What an alert says.
Happened(k) ==
  /\ k.type = "tier_change" =>
       \E i, j \in 1 .. Len(snapshots) : i < j /\ snapshots[i].tier = k.from /\ snapshots[j].tier = k.to
  /\ k.type = "new_kev" => \E i \in 1 .. Len(snapshots) : snapshots[i].kev_count = k.count

TruthInv ==
  /\ AlertTypeOK
  /\ \A s \in Syncs : sync[s].pc # "idle" => Seen(s)
  /\ \A k \in notes : Happened(k)
  /\ \A s \in Syncs : \A k \in sync[s].keys : Happened(k)

LEMMA NoneIsNoTier == "none" \notin Tiers
<1>1. DOMAIN Risk!TIER_ORDER = 1 .. 5
  BY DEF Risk!TIER_ORDER, Risk!NotAssessed
<1>2. /\ Risk!TIER_ORDER[1] # "none" /\ Risk!TIER_ORDER[2] # "none" /\ Risk!TIER_ORDER[3] # "none"
      /\ Risk!TIER_ORDER[4] # "none" /\ Risk!TIER_ORDER[5] # "none"
  BY DEF Risk!TIER_ORDER, Risk!NotAssessed
<1>3. \A i \in 1 .. 5 : i = 1 \/ i = 2 \/ i = 3 \/ i = 4 \/ i = 5
  OBVIOUS
<1> QED BY <1>1, <1>2, <1>3 DEF Tiers

LEMMA RestingRow == Alerts!Resting \in SyncRows /\ Alerts!Resting.pc = "idle" /\ Alerts!Resting.keys = {}
<1> DEFINE none == Alerts!NoSnapshot
<1>1. Alerts!Resting = [pc |-> "idle", prev |-> none, captured_at |-> 0, at |-> 0, keys |-> {}]
  BY DEF Alerts!Resting
<1> HIDE DEF none
<1> QED BY <1>1 DEF SyncRows, none

LEMMA AlertsInitially == Alerts!Init => TruthInv
<1> SUFFICES ASSUME Alerts!Init PROVE TruthInv
  OBVIOUS
<1>1. snapshots \in Seq(Snapshots) /\ notes = {} /\ today \in Nat /\ strange \in BOOLEAN
  <2>1. snapshots = << >> /\ today = 0 /\ notes = {}
    BY DEF Alerts!Init
  <2>2. << >> \in Seq(Snapshots)
    OBVIOUS
  <2>3. strange \in BOOLEAN
    BY DEF Alerts!Init
  <2> QED BY <2>1, <2>2, <2>3
<1>2. rules \in [Rules -> RuleRows]
  BY AlertAssumptions DEF Alerts!Init, Alerts!RuleAssumption, RuleRows
<1>3. sync \in [Syncs -> SyncRows] /\ \A s \in Syncs : sync[s] = Alerts!Resting
  BY RestingRow DEF Alerts!Init
<1> QED BY <1>1, <1>2, <1>3, RestingRow DEF TruthInv, AlertTypeOK

\* What has happened has happened, as long as no snapshot goes away.
LEMMA HappenedStays ==
  ASSUME Len(snapshots) \in Nat, Len(snapshots') \in Nat, Len(snapshots) <= Len(snapshots'),
         \A i \in 1 .. Len(snapshots) : Same(snapshots[i], snapshots'[i])
  PROVE  \A k : Happened(k) => Happened(k)'
<1> SUFFICES ASSUME NEW k, Happened(k) PROVE Happened(k)'
  OBVIOUS
<1>1. \A i \in 1 .. Len(snapshots) : i \in 1 .. Len(snapshots')
  OBVIOUS
<1>2. ASSUME k.type = "tier_change"
      PROVE  \E i, j \in 1 .. Len(snapshots') : i < j /\ snapshots'[i].tier = k.from /\ snapshots'[j].tier = k.to
  <2>1. PICK i \in 1 .. Len(snapshots), j \in 1 .. Len(snapshots) :
          i < j /\ snapshots[i].tier = k.from /\ snapshots[j].tier = k.to
    BY <1>2 DEF Happened
  <2>2. snapshots'[i].tier = k.from /\ snapshots'[j].tier = k.to
    BY <2>1 DEF Same
  <2> QED BY <1>1, <2>1, <2>2
<1>3. ASSUME k.type = "new_kev"
      PROVE  \E i \in 1 .. Len(snapshots') : snapshots'[i].kev_count = k.count
  BY <1>1, <1>3 DEF Happened, Same
<1> QED BY <1>2, <1>3 DEF Happened
\* A step that writes no snapshot and no alert keeps what is said of the other syncs.
LEMMA OneSync ==
  ASSUME TruthInv, NEW s \in Syncs, NEW row \in SyncRows, sync' = [sync EXCEPT ![s] = row],
         UNCHANGED <<snapshots, rules, notes, today>>, strange' \in BOOLEAN,
         row.keys = sync[s].keys \/ row.keys = {},
         row.pc # "idle" => Seen(s)'
  PROVE  TruthInv'
<1> USE DEF TruthInv
<1>1. \A t \in Syncs : sync'[t] = IF t = s THEN row ELSE sync[t]
  BY DEF AlertTypeOK
<1>2. AlertTypeOK'
  BY DEF AlertTypeOK
<1>3. \A t \in Syncs : sync'[t].pc # "idle" => Seen(t)'
  <2> SUFFICES ASSUME NEW t \in Syncs, sync'[t].pc # "idle" PROVE Seen(t)'
    OBVIOUS
  <2>1. CASE t = s
    BY <1>1, <2>1
  <2>2. CASE t # s
    <3>1. Seen(t) /\ sync'[t] = sync[t]
      BY <1>1, <2>2
    <3> QED BY <3>1 DEF Seen
  <2> QED BY <2>1, <2>2
<1>4. \A k : Happened(k)' = Happened(k)
  BY DEF Happened
<1>5. \A t \in Syncs : sync'[t].keys = sync[t].keys \/ sync'[t].keys = {}
  BY <1>1
<1>6. \A t \in Syncs : \A k \in sync'[t].keys : Happened(k)'
  BY <1>4, <1>5
<1>7. \A k \in notes' : Happened(k)'
  BY <1>4
<1> QED BY <1>2, <1>3, <1>6, <1>7

LEMMA BeginKeeps ==
  ASSUME TruthInv, NEW s \in Syncs, Alerts!Begin(s)
  PROVE  TruthInv'
<1>1. PICK prev \in Alerts!Newest :
        sync' = [sync EXCEPT ![s] = [Alerts!Resting EXCEPT !.pc = "begun", !.prev = prev, !.captured_at = Len(snapshots)]]
  BY DEF Alerts!Begin
<1> DEFINE n == Len(snapshots)
           row == [Alerts!Resting EXCEPT !.pc = "begun", !.prev = prev, !.captured_at = n]
<1>2. n \in Nat
  BY DEF TruthInv, AlertTypeOK
<1>3. prev = Alerts!NoSnapshot \/ \E i \in 1 .. n : prev = snapshots[i]
  <2>1. DOMAIN snapshots = 1 .. n
    BY DEF TruthInv, AlertTypeOK
  <2>2. CASE snapshots = << >>
    BY <2>2 DEF Alerts!Newest
  <2>3. CASE snapshots # << >>
    <3>1. PICK i \in DOMAIN snapshots : prev = snapshots[i]
      BY <2>3 DEF Alerts!Newest
    <3> QED BY <2>1, <3>1
  <2> QED BY <2>2, <2>3
<1>4. prev \in Snapshots \cup {Alerts!NoSnapshot}
  BY <1>3 DEF TruthInv, AlertTypeOK
<1>5. sync' = [sync EXCEPT ![s] = row]
  BY <1>1
<1> HIDE DEF n
<1>6. row \in SyncRows
  BY <1>2, <1>4, RestingRow DEF SyncRows
<1>7. row.pc = "begun" /\ row.prev = prev /\ row.captured_at = n /\ row.keys = {}
  BY RestingRow DEF SyncRows
<1> HIDE DEF row
<1>8. strange' \in BOOLEAN /\ UNCHANGED <<snapshots, rules, notes, today>>
  <2>1. strange' = (strange \/ \E t \in Syncs : sync[t].pc # "idle")
    BY DEF Alerts!Begin, Alerts!Strangely
  <2>2. strange' \in BOOLEAN
    BY <2>1, Zenon
  <2> QED BY <2>2 DEF Alerts!Begin
<1>9. sync'[s] = row
  BY <1>5 DEF TruthInv, AlertTypeOK
<1>10. Seen(s)'
  <2>1. \A i \in 1 .. n : Same(snapshots[i], snapshots[i])
    BY DEF Same
  <2>2. prev # Alerts!NoSnapshot => \E i \in 1 .. n : Same(snapshots[i], prev)
    BY <1>3, <2>1
  <2>3. Len(snapshots)' = n /\ snapshots' = snapshots
    BY <1>8 DEF n
  <2>4. sync'[s].prev = prev /\ sync'[s].captured_at = n /\ sync'[s].pc = "begun"
    BY <1>7, <1>9
  <2> QED BY <1>2, <2>2, <2>3, <2>4 DEF Seen, Same, Alerts!NoSnapshot
<1> QED BY <1>5, <1>6, <1>7, <1>8, <1>10, OneSync

LEMMA RestKeeps ==
  ASSUME TruthInv, NEW s \in Syncs, Alerts!Fail(s) \/ Alerts!Crash(s)
  PROVE  TruthInv'
<1>1. sync' = [sync EXCEPT ![s] = Alerts!Resting] /\ UNCHANGED <<snapshots, rules, notes, today>>
  BY DEF Alerts!Fail, Alerts!Crash
<1>2. strange' \in BOOLEAN
  BY DEF Alerts!Fail, Alerts!Crash, Alerts!Strangely, TruthInv, AlertTypeOK
<1> QED BY <1>1, <1>2, RestingRow, OneSync

\* A step that only has no more to say than before.
LEMMA NothingTold ==
  ASSUME TruthInv, UNCHANGED <<snapshots, sync, strange>>,
         rules' \in [Rules -> RuleRows], today' \in Nat,
         notes' \in SUBSET (TierKeys \cup KevKeys \cup DueKeys),
         \A k \in notes' : k \in notes \/ k \in DueKeys
  PROVE  TruthInv'
<1> USE DEF TruthInv
<1>1. AlertTypeOK'
  BY DEF AlertTypeOK
<1>2. \A k : Happened(k)' = Happened(k)
  BY DEF Happened
<1>3. \A s \in Syncs : Seen(s)' = Seen(s)
  BY DEF Seen
<1>4. \A k \in DueKeys : Happened(k)
  BY DEF DueKeys, Happened
<1>5. \A k \in notes' : Happened(k)'
  BY <1>2, <1>4
<1>6. \A s \in Syncs : \A k \in sync'[s].keys : Happened(k)'
  BY <1>2
<1> QED BY <1>1, <1>3, <1>5, <1>6

LEMMA EditKeeps ==
  ASSUME TruthInv, NEW r \in Rules, NEW rule \in RuleRows, Alerts!EditRule(r, rule)
  PROVE  TruthInv'
<1>1. rules' = [rules EXCEPT ![r] = rule] /\ UNCHANGED <<snapshots, sync, strange, notes, today>>
  BY DEF Alerts!EditRule
<1>2. rules' \in [Rules -> RuleRows] /\ today' \in Nat /\ notes' \in SUBSET (TierKeys \cup KevKeys \cup DueKeys)
  BY <1>1 DEF TruthInv, AlertTypeOK
<1> QED BY <1>1, <1>2, NothingTold

LEMMA RenewalsKeep ==
  ASSUME TruthInv, NEW r \in Rules, Alerts!Renewals(r)
  PROVE  /\ TruthInv'
         /\ UNCHANGED <<snapshots, rules, sync, today, strange>>
         /\ \E k \in DueKeys : notes' = notes \cup {k}
<1> DEFINE k == [type |-> "renewal_due", ends |-> Renewal, day |-> today]
<1>1. UNCHANGED <<snapshots, rules, sync, today, strange>> /\ notes' = notes \cup {k} /\ Renewal - today \in 0 .. rules[r].days
  BY DEF Alerts!Renewals
<1>2. k \in DueKeys
  <2>1. today \in Nat /\ Renewal \in Nat
    BY AlertAssumptions DEF TruthInv, AlertTypeOK, Alerts!DayAssumption
  <2>2. rules[r].days \in Int
    <3>1. rules[r] \in RuleRows
      BY DEF TruthInv, AlertTypeOK
    <3>2. rules[r].days \in Windows \cup {0}
      BY <3>1 DEF RuleRows
    <3>3. Windows \subseteq Nat
      BY AlertAssumptions DEF Alerts!DayAssumption
    <3>4. \A d \in Windows \cup {0} : d \in Int
      BY <3>3
    <3> QED BY <3>2, <3>4, Zenon
  <2>3. today \in 0 .. Renewal
    BY <1>1, <2>1, <2>2
  <2> QED BY <2>3 DEF DueKeys
<1> HIDE DEF k
<1>3. notes' \in SUBSET (TierKeys \cup KevKeys \cup DueKeys)
  BY <1>1, <1>2 DEF TruthInv, AlertTypeOK
<1>4. rules' \in [Rules -> RuleRows] /\ today' \in Nat
  BY <1>1 DEF TruthInv, AlertTypeOK
<1>5. TruthInv'
  BY <1>1, <1>2, <1>3, <1>4, NothingTold
<1> QED BY <1>1, <1>2, <1>5

LEMMA MidnightKeeps ==
  ASSUME TruthInv, Alerts!Midnight
  PROVE  TruthInv'
<1>1. UNCHANGED <<snapshots, rules, sync, strange, notes>> /\ today' = today + 1
  BY DEF Alerts!Midnight
<1>2. rules' \in [Rules -> RuleRows] /\ today' \in Nat /\ notes' \in SUBSET (TierKeys \cup KevKeys \cup DueKeys)
  BY <1>1 DEF TruthInv, AlertTypeOK
<1> QED BY <1>1, <1>2, NothingTold

\* The snapshot of a sync is one more, at the end.
LEMMA SnapshotIs ==
  ASSUME TruthInv, NEW s \in Syncs, NEW found \in Assessments, Alerts!Snapshot(s, found)
  PROVE  \E snap \in Snapshots, row \in SyncRows :
           /\ snapshots' = Append(snapshots, snap) /\ sync' = [sync EXCEPT ![s] = row]
           /\ Len(snapshots) \in Nat /\ Len(snapshots)' = Len(snapshots) + 1
           /\ \A i \in 1 .. Len(snapshots) : snapshots'[i] = snapshots[i]
           /\ snapshots'[Len(snapshots) + 1] = snap
           /\ snap.captured_at = sync[s].captured_at
           /\ sync[s].pc = "begun" /\ row.pc = "saved" /\ row.at = Len(snapshots) + 1
           /\ row.prev = sync[s].prev /\ row.captured_at = sync[s].captured_at /\ row.keys = sync[s].keys
<1> DEFINE r == sync[s]
           n == Len(snapshots) + 1
           snap == [Alerts!NoSnapshot EXCEPT
                      !.tier = found.tier, !.kev_count = found.kev_count, !.captured_at = sync[s].captured_at]
           row == [r EXCEPT !.pc = "saved", !.at = n]
<1>1. snapshots \in Seq(Snapshots) /\ Len(snapshots) \in Nat /\ r \in SyncRows /\ n \in Nat
  BY DEF TruthInv, AlertTypeOK
<1>2. found \in [tier : Tiers, kev_count : Nat]
  BY AlertAssumptions DEF Alerts!AssessmentAssumption
<1>3. snapshots' = Append(snapshots, snap)
  BY DEF Alerts!Snapshot
<1>4. sync' = [sync EXCEPT ![s] = row]
  <2>1. sync' = [sync EXCEPT ![s].pc = "saved", ![s].at = n]
    BY DEF Alerts!Snapshot
  <2>2. sync \in [Syncs -> SyncRows]
    BY DEF TruthInv, AlertTypeOK
  <2> HIDE DEF n
  <2> QED BY <2>1, <2>2
<1> HIDE DEF n
<1>5. snap \in Snapshots /\ snap.captured_at = r.captured_at
  <2>1. r.captured_at \in Nat
    BY <1>1 DEF SyncRows
  <2>2. Alerts!NoSnapshot \in [tier : {"none"}, kev_count : Nat, captured_at : Nat, told_on : Nat, watched : Watched]
    BY DEF Alerts!NoSnapshot, Watched
  <2> QED BY <1>2, <2>1, <2>2 DEF Snapshots
<1>6. row \in SyncRows
  BY <1>1 DEF SyncRows
<1>7. /\ row.pc = "saved" /\ row.at = n /\ row.prev = r.prev
      /\ row.captured_at = r.captured_at /\ row.keys = r.keys
  BY <1>1 DEF SyncRows
<1>8. r.pc = "begun"
  BY DEF Alerts!Snapshot
<1> HIDE DEF snap, row, r
<1>9. /\ Len(snapshots)' = Len(snapshots) + 1 /\ snapshots'[Len(snapshots) + 1] = snap
      /\ \A i \in 1 .. Len(snapshots) : snapshots'[i] = snapshots[i]
  BY <1>1, <1>3, <1>5
<1> QED BY <1>1, <1>3, <1>4, <1>5, <1>6, <1>7, <1>8, <1>9 DEF n, r

LEMMA SnapshotKeeps ==
  ASSUME TruthInv, NEW s \in Syncs, NEW found \in Assessments, Alerts!Snapshot(s, found)
  PROVE  TruthInv'
<1>1. PICK snap \in Snapshots, row \in SyncRows :
           /\ snapshots' = Append(snapshots, snap) /\ sync' = [sync EXCEPT ![s] = row]
           /\ Len(snapshots) \in Nat /\ Len(snapshots)' = Len(snapshots) + 1
           /\ \A i \in 1 .. Len(snapshots) : snapshots'[i] = snapshots[i]
           /\ snapshots'[Len(snapshots) + 1] = snap
           /\ snap.captured_at = sync[s].captured_at
           /\ sync[s].pc = "begun" /\ row.pc = "saved" /\ row.at = Len(snapshots) + 1
           /\ row.prev = sync[s].prev /\ row.captured_at = sync[s].captured_at /\ row.keys = sync[s].keys
  BY SnapshotIs
<1>2. UNCHANGED <<rules, notes, today, strange>>
  BY DEF Alerts!Snapshot
<1>3. AlertTypeOK'
  BY <1>1, <1>2 DEF TruthInv, AlertTypeOK
<1>4. \A i \in 1 .. Len(snapshots) : Same(snapshots[i], snapshots'[i])
  BY <1>1 DEF Same
<1>5. \A k : Happened(k) => Happened(k)'
  BY <1>1, <1>4, HappenedStays
<1>6. \A t \in Syncs : sync'[t] = IF t = s THEN row ELSE sync[t]
  BY <1>1 DEF TruthInv, AlertTypeOK
<1>7. ASSUME NEW t \in Syncs, sync'[t].pc # "idle"
      PROVE  Seen(t)'
  <2>1. sync[t].pc # "idle" /\ Seen(t)
    BY <1>1, <1>6, <1>7 DEF TruthInv
  <2>2. sync'[t].captured_at = sync[t].captured_at /\ sync'[t].prev = sync[t].prev /\ sync[t].captured_at \in Nat
    BY <1>1, <1>6 DEF TruthInv, AlertTypeOK, SyncRows
  <2>3. sync[t].captured_at <= Len(snapshots)
    BY <2>1 DEF Seen
  <2>4. sync[t].prev # Alerts!NoSnapshot => \E i \in 1 .. sync[t].captured_at : Same(snapshots'[i], sync[t].prev)
    <3>1. \A i \in 1 .. sync[t].captured_at : i \in 1 .. Len(snapshots)
      BY <1>1, <2>2, <2>3
    <3> QED BY <1>1, <2>1, <3>1 DEF Seen
  <2>5. sync'[t].pc \in {"saved", "evaluated"} => sync'[t].at \in 1 .. Len(snapshots') /\ sync[t].captured_at < sync'[t].at
    <3>1. CASE t = s
      BY <1>1, <1>6, <2>2, <2>3, <3>1
    <3>2. CASE t # s
      BY <1>1, <1>6, <2>1, <2>2, <3>2 DEF Seen
    <3> QED BY <3>1, <3>2
  <2> QED BY <1>1, <2>2, <2>3, <2>4, <2>5 DEF Seen, Alerts!NoSnapshot
<1>8. \A t \in Syncs : sync'[t].keys = sync[t].keys
  BY <1>1, <1>6
<1>9. \A t \in Syncs : \A k \in sync'[t].keys : Happened(k)'
  BY <1>5, <1>8 DEF TruthInv
<1>10. \A k \in notes' : Happened(k)'
  BY <1>2, <1>5 DEF TruthInv
<1> QED BY <1>3, <1>7, <1>9, <1>10 DEF TruthInv

\* What the evaluation of a snapshot has to tell.
TierDue(prev, new) ==
  {k \in {Alerts!TierKey(prev, new, today)} :
     "tier_change" \in Alerts!active_types /\ prev # Alerts!NoSnapshot /\ prev.tier # new.tier}
KevDue(prev, new) ==
  {k \in {Alerts!KevKey(new, today)} : "new_kev" \in Alerts!active_types /\ new.kev_count > prev.kev_count}

LEMMA DueIsTyped ==
  ASSUME TruthInv, NEW prev \in Snapshots \cup {Alerts!NoSnapshot}, NEW new \in Snapshots
  PROVE  TierDue(prev, new) \subseteq TierKeys /\ KevDue(prev, new) \subseteq KevKeys
<1>1. today \in Nat
  BY DEF TruthInv, AlertTypeOK
<1>2. new.tier \in Tiers /\ new.kev_count \in Nat
  BY DEF Snapshots
<1>3. prev # Alerts!NoSnapshot => prev.tier \in Tiers
  BY DEF Snapshots
<1>4. prev # Alerts!NoSnapshot => Alerts!TierKey(prev, new, today) \in TierKeys
  BY <1>1, <1>2, <1>3 DEF Alerts!TierKey, TierKeys
<1>5. Alerts!KevKey(new, today) \in KevKeys
  BY <1>1, <1>2 DEF Alerts!KevKey, KevKeys
<1> QED BY <1>4, <1>5 DEF TierDue, KevDue

\* The evaluation marks its snapshot and keeps what is due and not there yet.
LEMMA EvaluateIs ==
  ASSUME TruthInv, NEW s \in Syncs, Alerts!Evaluate(s)
  PROVE  LET at == sync[s].at
             prev == sync[s].prev
             new == snapshots[at]
             due == TierDue(prev, new) \cup KevDue(prev, new)
         IN \E snap \in Snapshots, row \in SyncRows :
           /\ sync[s].pc = "saved" /\ at \in 1 .. Len(snapshots) /\ new \in Snapshots
           /\ snapshots' = [snapshots EXCEPT ![at] = snap] /\ sync' = [sync EXCEPT ![s] = row]
           /\ Same(new, snap) /\ snap.captured_at = new.captured_at
           /\ snap.watched = Alerts!active_types /\ snap.told_on = today
           /\ row.pc = "evaluated" /\ row.at = at /\ row.prev = prev /\ row.captured_at = sync[s].captured_at
           /\ row.keys = due \ notes /\ due \subseteq TierKeys \cup KevKeys
<1> DEFINE r == sync[s]
           at == r.at
           prev == r.prev
           new == snapshots[at]
           due == TierDue(prev, new) \cup KevDue(prev, new)
           active == Alerts!active_types
           snap == [new EXCEPT !.watched = active, !.told_on = today]
           row == [r EXCEPT !.pc = "evaluated", !.keys = due \ notes]
<1>1. /\ r.pc = "saved"
      /\ snapshots' = [snapshots EXCEPT ![at].watched = active, ![at].told_on = today]
      /\ sync' = [sync EXCEPT ![s].pc = "evaluated", ![s].keys = due \ notes]
  BY DEF Alerts!Evaluate, TierDue, KevDue, Alerts!Compared
<1>2. r \in SyncRows /\ snapshots \in Seq(Snapshots) /\ sync \in [Syncs -> SyncRows] /\ today \in Nat
  BY DEF TruthInv, AlertTypeOK
<1>3. at \in 1 .. Len(snapshots)
  BY <1>1 DEF TruthInv, Seen
<1>4. new \in Snapshots /\ prev \in Snapshots \cup {Alerts!NoSnapshot}
  BY <1>2, <1>3 DEF SyncRows
<1>5. TierDue(prev, new) \subseteq TierKeys /\ KevDue(prev, new) \subseteq KevKeys
  <2> HIDE DEF prev, new
  <2> QED BY <1>4, DueIsTyped
<1>6. active \in Watched
  BY DEF TruthInv, AlertTypeOK, RuleRows, Watched, Alerts!active_types
<1> HIDE DEF active, due, r, at, prev
<1>7. due \subseteq TierKeys \cup KevKeys
  BY <1>5 DEF due
<1>8. snap \in Snapshots /\ snap.tier = new.tier /\ snap.kev_count = new.kev_count /\ snap.captured_at = new.captured_at
      /\ snap.watched = active /\ snap.told_on = today
  <2> HIDE DEF new
  <2> QED BY <1>2, <1>4, <1>6 DEF Snapshots
<1>9. row \in SyncRows /\ row.pc = "evaluated" /\ row.at = r.at /\ row.prev = r.prev /\ row.captured_at = r.captured_at
      /\ row.keys = due \ notes
  BY <1>2, <1>7 DEF SyncRows
<1>10. snapshots' = [snapshots EXCEPT ![at] = snap]
  BY <1>1, <1>2, <1>3
<1>11. sync' = [sync EXCEPT ![s] = row]
  BY <1>1, <1>2 DEF r
<1> HIDE DEF snap, row
<1> QED BY <1>1, <1>3, <1>4, <1>7, <1>8, <1>9, <1>10, <1>11 DEF Same, due, active, r, at, prev

LEMMA EvaluateKeeps ==
  ASSUME TruthInv, NEW s \in Syncs, Alerts!Evaluate(s)
  PROVE  TruthInv'
<1> DEFINE at == sync[s].at
           prev == sync[s].prev
           new == snapshots[at]
           due == TierDue(prev, new) \cup KevDue(prev, new)
<1>1. PICK snap \in Snapshots, row \in SyncRows :
           /\ sync[s].pc = "saved" /\ at \in 1 .. Len(snapshots) /\ new \in Snapshots
           /\ snapshots' = [snapshots EXCEPT ![at] = snap] /\ sync' = [sync EXCEPT ![s] = row]
           /\ Same(new, snap) /\ snap.captured_at = new.captured_at
           /\ snap.watched = Alerts!active_types /\ snap.told_on = today
           /\ row.pc = "evaluated" /\ row.at = at /\ row.prev = prev /\ row.captured_at = sync[s].captured_at
           /\ row.keys = due \ notes /\ due \subseteq TierKeys \cup KevKeys
  BY EvaluateIs
<1> HIDE DEF due
<1>2. UNCHANGED <<rules, notes, today, strange>>
  BY DEF Alerts!Evaluate
<1>3. snapshots \in Seq(Snapshots) /\ sync \in [Syncs -> SyncRows] /\ Len(snapshots) \in Nat
  BY DEF TruthInv, AlertTypeOK
<1>4. Len(snapshots') = Len(snapshots) /\ snapshots' \in Seq(Snapshots)
  BY <1>1, <1>3
<1>5. AlertTypeOK'
  BY <1>1, <1>2, <1>3, <1>4 DEF TruthInv, AlertTypeOK
<1>6. \A i \in 1 .. Len(snapshots) : snapshots'[i] = IF i = at THEN snap ELSE snapshots[i]
  BY <1>1, <1>3
<1>7. \A i \in 1 .. Len(snapshots) : Same(snapshots[i], snapshots'[i])
  BY <1>1, <1>6 DEF Same
<1>8. \A k : Happened(k) => Happened(k)'
  BY <1>3, <1>4, <1>7, HappenedStays
<1>9. \A t \in Syncs : sync'[t] = IF t = s THEN row ELSE sync[t]
  BY <1>1, <1>3
<1>10. ASSUME NEW t \in Syncs, sync'[t].pc # "idle"
       PROVE  Seen(t)'
  <2>1. sync[t].pc # "idle" /\ Seen(t)
    BY <1>1, <1>9, <1>10 DEF TruthInv
  <2>2. sync'[t].captured_at = sync[t].captured_at /\ sync'[t].prev = sync[t].prev /\ sync'[t].at = sync[t].at
    BY <1>1, <1>9
  <2>3. sync[t].captured_at <= Len(snapshots) /\ sync[t].captured_at \in Nat
    BY <1>3, <2>1 DEF Seen, SyncRows
  <2>4. sync[t].prev # Alerts!NoSnapshot => \E i \in 1 .. sync[t].captured_at : Same(snapshots'[i], sync[t].prev)
    <3>1. \A i \in 1 .. sync[t].captured_at : i \in 1 .. Len(snapshots)
      BY <1>3, <2>3
    <3> QED BY <1>7, <2>1, <3>1 DEF Seen, Same
  <2>5. sync'[t].pc \in {"saved", "evaluated"} => sync[t].pc \in {"saved", "evaluated"}
    BY <1>1, <1>9
  <2> QED BY <1>4, <2>1, <2>2, <2>3, <2>4, <2>5 DEF Seen, Alerts!NoSnapshot
<1>11. \A k \in due : Happened(k)
  <2>1. Seen(s)
    BY <1>1 DEF TruthInv
  <2>2. sync[s].captured_at < at /\ sync[s].captured_at \in Nat
    BY <1>1, <1>3, <2>1 DEF Seen, SyncRows
  <2>3. ASSUME NEW k \in TierDue(prev, new) PROVE Happened(k)
    <3>1. k.type = "tier_change" /\ k.from = prev.tier /\ k.to = new.tier /\ prev # Alerts!NoSnapshot
      BY DEF TierDue, Alerts!TierKey
    <3>2. PICK i \in 1 .. sync[s].captured_at : Same(snapshots[i], prev)
      BY <2>1, <3>1 DEF Seen
    <3>3. i \in 1 .. Len(snapshots) /\ i < at
      BY <1>1, <1>3, <2>2
    <3> QED BY <1>1, <3>1, <3>2, <3>3 DEF Happened, Same
  <2>4. ASSUME NEW k \in KevDue(prev, new) PROVE Happened(k)
    <3>1. k.type = "new_kev" /\ k.count = new.kev_count
      BY DEF KevDue, Alerts!KevKey
    <3> QED BY <1>1, <3>1 DEF Happened
  <2> QED BY <2>3, <2>4 DEF due
<1>12. \A t \in Syncs : \A k \in sync'[t].keys : Happened(k)'
  <2>1. \A t \in Syncs : \A k \in sync'[t].keys : Happened(k)
    BY <1>1, <1>9, <1>11 DEF TruthInv
  <2> QED BY <1>8, <2>1
<1>13. \A k \in notes' : Happened(k)'
  BY <1>2, <1>8 DEF TruthInv
<1> QED BY <1>5, <1>10, <1>12, <1>13 DEF TruthInv

LEMMA CommitKeeps ==
  ASSUME TruthInv, NEW s \in Syncs, Alerts!Commit(s)
  PROVE  TruthInv'
<1>1. /\ sync' = [sync EXCEPT ![s] = Alerts!Resting] /\ UNCHANGED <<snapshots, rules, today, strange>>
      /\ notes' = notes \/ notes' = notes \cup sync[s].keys
  BY DEF Alerts!Commit
<1>2. \A t \in Syncs : sync'[t] = IF t = s THEN Alerts!Resting ELSE sync[t]
  BY <1>1 DEF TruthInv, AlertTypeOK
<1>3. AlertTypeOK'
  <2>1. sync[s].keys \subseteq TierKeys \cup KevKeys
    BY DEF TruthInv, AlertTypeOK, SyncRows
  <2> QED BY <1>1, <2>1, RestingRow DEF TruthInv, AlertTypeOK
<1>4. \A k : Happened(k)' = Happened(k)
  BY <1>1 DEF Happened
<1>5. \A t \in Syncs : sync'[t].pc # "idle" => Seen(t)'
  <2>1. \A t \in Syncs : sync'[t].pc # "idle" => sync'[t] = sync[t] /\ Seen(t)
    BY <1>2, RestingRow DEF TruthInv
  <2> QED BY <1>1, <2>1 DEF Seen
<1>6. \A t \in Syncs : \A k \in sync'[t].keys : Happened(k)'
  BY <1>2, <1>4, RestingRow DEF TruthInv
<1>7. \A k \in notes' : Happened(k)'
  BY <1>1, <1>4 DEF TruthInv
<1> QED BY <1>3, <1>5, <1>6, <1>7 DEF TruthInv

LEMMA TruthKept == TruthInv /\ [Alerts!Next]_(Alerts!alertVars) => TruthInv'
<1> SUFFICES ASSUME TruthInv, [Alerts!Next]_(Alerts!alertVars) PROVE TruthInv'
  OBVIOUS
<1>1. CASE UNCHANGED Alerts!alertVars
  BY <1>1 DEF Alerts!alertVars, TruthInv, AlertTypeOK, Seen, Happened
<1>2. ASSUME NEW r \in Rules, NEW rule, Alerts!EditRule(r, rule),
             rule = Alerts!NoRule \/ rule \in [type : Types, active : BOOLEAN, days : Windows]
      PROVE  TruthInv'
  <2>1. rule \in RuleRows
    <3>1. Alerts!NoRule \in RuleRows
      BY DEF RuleRows, Alerts!NoRule
    <3>2. \A x \in [type : Types, active : BOOLEAN, days : Windows] : x \in RuleRows
      BY DEF RuleRows
    <3> QED BY <1>2, <3>1, <3>2
  <2> QED BY <1>2, <2>1, EditKeeps
<1>3. ASSUME NEW r \in Rules, NEW type \in Types, NEW on \in BOOLEAN, NEW days \in Windows
      PROVE  [type |-> type, active |-> on, days |-> days] \in [type : Types, active : BOOLEAN, days : Windows]
  OBVIOUS
<1>4. ASSUME \E s \in Syncs : Alerts!Begin(s) \/ (\E found \in Assessments : Alerts!Snapshot(s, found)) \/ Alerts!Fail(s)
                               \/ Alerts!Evaluate(s) \/ Alerts!Commit(s) \/ Alerts!Crash(s)
      PROVE  TruthInv'
  BY <1>4, BeginKeeps, SnapshotKeeps, RestKeeps, EvaluateKeeps, CommitKeeps
<1>5. ASSUME \E r \in Rules, type \in Types, on \in BOOLEAN, days \in Windows :
               Alerts!EditRule(r, [type |-> type, active |-> on, days |-> days])
      PROVE  TruthInv'
  BY <1>2, <1>3, <1>5
<1>6. ASSUME \E r \in Rules : Alerts!EditRule(r, Alerts!NoRule) \/ Alerts!Renewals(r)
      PROVE  TruthInv'
  BY <1>2, <1>6, RenewalsKeep
<1> QED BY <1>1, <1>4, <1>5, <1>6, MidnightKeeps DEF Alerts!Next

LEMMA TruthIsTrue == TruthInv => Alerts!EveryAlertIsTrue
<1> SUFFICES ASSUME TruthInv, NEW k \in notes
             PROVE  CASE k.type = "tier_change" ->
                           \E i, j \in DOMAIN snapshots : i < j /\ snapshots[i].tier = k.from /\ snapshots[j].tier = k.to
                      [] k.type = "new_kev" -> \E i \in DOMAIN snapshots : snapshots[i].kev_count = k.count
                      [] OTHER -> k.day <= Renewal
  BY DEF Alerts!EveryAlertIsTrue
<1>1. DOMAIN snapshots = 1 .. Len(snapshots)
  BY DEF TruthInv, AlertTypeOK
<1>2. Happened(k)
  BY DEF TruthInv
<1>3. CASE k \in TierKeys
  BY <1>1, <1>2, <1>3 DEF TierKeys, Happened
<1>4. CASE k \in KevKeys
  BY <1>1, <1>2, <1>4 DEF KevKeys, Happened
<1>5. CASE k \in DueKeys
  <2>1. k.type = "renewal_due" /\ k.day \in 0 .. Renewal /\ Renewal \in Nat
    BY <1>5, AlertAssumptions DEF DueKeys, Alerts!DayAssumption
  <2> QED BY <2>1
<1> QED BY <1>3, <1>4, <1>5 DEF TruthInv, AlertTypeOK
------------------------------------------------------------------------------
(* Without an overlap or a crash.                                            *)

\* Told(i), if K were the alerts.
ToldBy(i, K) ==
  LET prev == IF i = 1 THEN Alerts!NoSnapshot ELSE snapshots[i - 1]
      new == snapshots[i]
  IN /\ "tier_change" \in new.watched /\ i > 1 /\ prev.tier # new.tier => Alerts!TierKey(prev, new, new.told_on) \in K
     /\ "new_kev" \in new.watched /\ new.kev_count > prev.kev_count => Alerts!KevKey(new, new.told_on) \in K

\* A sync that runs alone compares its snapshot with the one before.
InTurn(s) ==
  LET r == sync[s] IN
  /\ r.pc = "begun" => r.captured_at = Len(snapshots) /\ r.at = 0
  /\ r.pc # "begun" => r.captured_at = Len(snapshots) - 1 /\ r.at = Len(snapshots)
  /\ r.captured_at = 0 => r.prev = Alerts!NoSnapshot
  /\ r.captured_at > 0 => r.prev # Alerts!NoSnapshot /\ Same(r.prev, snapshots[r.captured_at])
  /\ r.pc = "evaluated" => r.keys \cap notes = {} /\ ToldBy(r.at, notes \cup r.keys)

OneAtATime == \A s, t \in Syncs : sync[s].pc # "idle" /\ sync[t].pc # "idle" => s = t
InOrder == \A i \in 1 .. Len(snapshots) : snapshots[i].captured_at = i - 1
AllTold == \A i \in 1 .. Len(snapshots) : Alerts!Evaluating(i) \/ ToldBy(i, notes)
Orderly ==
  ~strange => OneAtATime /\ InOrder /\ AllTold /\ \A s \in Syncs : sync[s].pc # "idle" => InTurn(s)

LEMMA ToldMore ==
  ASSUME NEW i, NEW K, NEW L, K \subseteq L, ToldBy(i, K)
  PROVE  ToldBy(i, L)
BY DEF ToldBy

\* Whether a snapshot is told of depends on it and the one before.
LEMMA ToldStays ==
  ASSUME NEW CONSTANT i \in Nat \ {0}, NEW CONSTANT K, ToldBy(i, K),
         snapshots'[i] = snapshots[i], i > 1 => Same(snapshots[i - 1], snapshots'[i - 1])
  PROVE  ToldBy(i, K)'
BY DEF ToldBy, Same, Alerts!TierKey, Alerts!KevKey, Alerts!NoSnapshot

LEMMA OrderlyAtFirst == Alerts!Init => Orderly
<1> SUFFICES ASSUME Alerts!Init PROVE Orderly
  OBVIOUS
<1>1. snapshots = << >> /\ \A s \in Syncs : sync[s] = Alerts!Resting
  BY DEF Alerts!Init
<1>2. Len(snapshots) = 0
  BY <1>1
<1> QED BY <1>1, <1>2, RestingRow DEF Orderly, OneAtATime, InOrder, AllTold

\* While no sync runs, all is told.
LEMMA QuietIsTold ==
  ASSUME TruthInv, Orderly, ~strange, \A s \in Syncs : sync[s].pc = "idle" \/ sync[s].at = 0
  PROVE  \A i \in 1 .. Len(snapshots) : ToldBy(i, notes)
<1> SUFFICES ASSUME NEW i \in 1 .. Len(snapshots) PROVE ToldBy(i, notes)
  OBVIOUS
<1>1. i # 0
  BY DEF TruthInv, AlertTypeOK
<1>2. ~Alerts!Evaluating(i)
  BY <1>1 DEF Alerts!Evaluating
<1> QED BY <1>2 DEF Orderly, AllTold

LEMMA BeginInTurn ==
  ASSUME TruthInv, Orderly, NEW s \in Syncs, Alerts!Begin(s)
  PROVE  Orderly'
<1> SUFFICES ASSUME ~strange' PROVE Orderly'
  BY DEF Orderly
<1> DEFINE n == Len(snapshots)
<1>1. UNCHANGED <<snapshots, notes>> /\ ~strange /\ \A t \in Syncs : sync[t].pc = "idle"
  BY DEF Alerts!Begin, Alerts!Strangely
<1>2. PICK prev \in Alerts!Newest :
        sync' = [sync EXCEPT ![s] = [Alerts!Resting EXCEPT !.pc = "begun", !.prev = prev, !.captured_at = n]]
  BY DEF Alerts!Begin
<1>3. n \in Nat /\ snapshots \in Seq(Snapshots) /\ DOMAIN snapshots = 1 .. n
  BY DEF TruthInv, AlertTypeOK
<1> DEFINE row == [Alerts!Resting EXCEPT !.pc = "begun", !.prev = prev, !.captured_at = n]
<1>4. row.pc = "begun" /\ row.prev = prev /\ row.captured_at = n /\ row.at = 0
  BY RestingRow DEF SyncRows, Alerts!Resting
<1>5. \A t \in Syncs : sync'[t] = IF t = s THEN row ELSE sync[t]
  BY <1>2 DEF TruthInv, AlertTypeOK
<1> HIDE DEF n, row
<1>6. CASE n = 0
  <2>1. prev = Alerts!NoSnapshot
    BY <1>3, <1>6 DEF n, Alerts!Newest
  <2>2. OneAtATime' /\ InOrder' /\ AllTold'
    BY <1>1, <1>4, <1>5, <1>6 DEF OneAtATime, InOrder, AllTold, n
  <2>3. \A t \in Syncs : sync'[t].pc # "idle" => InTurn(t)'
    BY <1>1, <1>4, <1>5, <1>6, <2>1 DEF InTurn, n, Alerts!NoSnapshot
  <2> QED BY <2>2, <2>3 DEF Orderly
<1>7. CASE n > 0
  <2>1. InOrder
    BY <1>1 DEF Orderly
  <2>2. prev = snapshots[n]
    <3>1. snapshots # << >>
      BY <1>3, <1>7 DEF n
    <3>2. PICK i \in 1 .. n : prev = snapshots[i] /\ \A k \in 1 .. n : snapshots[k].captured_at <= snapshots[i].captured_at
      BY <1>3, <3>1 DEF Alerts!Newest
    <3>3. n \in 1 .. n /\ snapshots[n].captured_at = n - 1 /\ snapshots[i].captured_at = i - 1
      BY <1>3, <1>7, <2>1 DEF InOrder, n
    <3>4. i = n
      BY <1>3, <3>2, <3>3
    <3> QED BY <3>2, <3>4
  <2>3. snapshots[n] \in Snapshots
    BY <1>3, <1>7 DEF n
  <2>4. prev # Alerts!NoSnapshot
    BY <2>2, <2>3, NoneIsNoTier DEF Snapshots, Alerts!NoSnapshot
  <2>5. \A i \in 1 .. n : ToldBy(i, notes)
    BY <1>1, QuietIsTold DEF n
  <2>6. OneAtATime' /\ InOrder'
    BY <1>1, <1>4, <1>5, <2>1 DEF OneAtATime, InOrder
  <2>7. AllTold'
    <3> SUFFICES ASSUME NEW i \in 1 .. Len(snapshots') PROVE ToldBy(i, notes)'
      BY DEF AllTold
    <3> QED BY <1>1, <2>5 DEF n, ToldBy, Alerts!TierKey, Alerts!KevKey, Alerts!NoSnapshot
  <2>8. \A t \in Syncs : sync'[t].pc # "idle" => InTurn(t)'
    BY <1>1, <1>3, <1>4, <1>5, <1>7, <2>2, <2>4 DEF InTurn, n, Alerts!NoSnapshot, Same
  <2> QED BY <2>6, <2>7, <2>8 DEF Orderly
<1> QED BY <1>3, <1>6, <1>7

LEMMA SnapshotInTurn ==
  ASSUME TruthInv, Orderly, NEW s \in Syncs, NEW found \in Assessments, Alerts!Snapshot(s, found)
  PROVE  Orderly'
<1>1. strange' = strange /\ notes' = notes
  BY DEF Alerts!Snapshot
<1> SUFFICES ASSUME ~strange PROVE Orderly'
  BY <1>1 DEF Orderly
<1> DEFINE n == Len(snapshots)
<1>2. PICK snap \in Snapshots, row \in SyncRows :
           /\ snapshots' = Append(snapshots, snap) /\ sync' = [sync EXCEPT ![s] = row]
           /\ n \in Nat /\ Len(snapshots)' = n + 1
           /\ \A i \in 1 .. n : snapshots'[i] = snapshots[i]
           /\ snapshots'[n + 1] = snap
           /\ snap.captured_at = sync[s].captured_at
           /\ sync[s].pc = "begun" /\ row.pc = "saved" /\ row.at = n + 1
           /\ row.prev = sync[s].prev /\ row.captured_at = sync[s].captured_at /\ row.keys = sync[s].keys
  BY SnapshotIs
<1>3. \A t \in Syncs : sync'[t] = IF t = s THEN row ELSE sync[t]
  BY <1>2 DEF TruthInv, AlertTypeOK
<1>4. InTurn(s) /\ OneAtATime /\ InOrder
  BY <1>2 DEF Orderly
<1> HIDE DEF n
<1>5. \A t \in Syncs : t # s => sync[t].pc = "idle"
  BY <1>2, <1>4 DEF OneAtATime
<1>6. sync[s].captured_at = n /\ sync[s].at = 0
  BY <1>2, <1>4 DEF InTurn, n
<1>7. OneAtATime'
  BY <1>3, <1>5 DEF OneAtATime
<1>8. InOrder'
  <2> SUFFICES ASSUME NEW i \in 1 .. (n + 1) PROVE snapshots'[i].captured_at = i - 1
    BY <1>2 DEF InOrder
  <2>1. CASE i = n + 1
    BY <1>2, <1>6, <2>1
  <2>2. CASE i \in 1 .. n
    BY <1>2, <1>4, <2>2 DEF InOrder, n
  <2> QED BY <1>2, <2>1, <2>2
<1>9. AllTold'
  <2> SUFFICES ASSUME NEW i \in 1 .. (n + 1) PROVE Alerts!Evaluating(i)' \/ ToldBy(i, notes)'
    BY <1>2 DEF AllTold
  <2>1. CASE i = n + 1
    <3>1. sync'[s].pc # "idle" /\ sync'[s].at = i
      BY <1>2, <1>3, <2>1
    <3> QED BY <3>1 DEF Alerts!Evaluating
  <2>2. CASE i \in 1 .. n
    <3>1. ToldBy(i, notes)
      BY <1>5, <1>6, <2>2, QuietIsTold DEF n
    <3>2. snapshots'[i] = snapshots[i] /\ (i > 1 => Same(snapshots[i - 1], snapshots'[i - 1]))
      BY <1>2, <2>2 DEF Same
    <3>3. i \in Nat \ {0}
      BY <1>2, <2>2
    <3> QED BY <1>1, <3>1, <3>2, <3>3 DEF ToldBy, Same, Alerts!TierKey, Alerts!KevKey, Alerts!NoSnapshot
  <2> QED BY <1>2, <2>1, <2>2
<1>10. InTurn(s)'
  <2>1. sync'[s].pc = "saved" /\ sync'[s].captured_at = n /\ sync'[s].at = n + 1 /\ sync'[s].prev = sync[s].prev
    BY <1>2, <1>3, <1>6
  <2>2. n = 0 => sync[s].prev = Alerts!NoSnapshot
    BY <1>4, <1>6 DEF InTurn
  <2>3. n > 0 => sync[s].prev # Alerts!NoSnapshot /\ Same(sync[s].prev, snapshots'[n])
    BY <1>2, <1>4, <1>6 DEF InTurn, n
  <2> QED BY <1>2, <2>1, <2>2, <2>3 DEF InTurn, Same, Alerts!NoSnapshot
<1>11. \A t \in Syncs : sync'[t].pc # "idle" => InTurn(t)'
  BY <1>3, <1>5, <1>10
<1> QED BY <1>7, <1>8, <1>9, <1>11 DEF Orderly

LEMMA RestInTurn ==
  ASSUME TruthInv, Orderly, NEW s \in Syncs, Alerts!Fail(s) \/ Alerts!Crash(s)
  PROVE  Orderly'
<1> SUFFICES ASSUME ~strange' PROVE Orderly'
  BY DEF Orderly
<1>1. /\ ~strange /\ sync[s].pc = "begun" /\ sync' = [sync EXCEPT ![s] = Alerts!Resting]
      /\ UNCHANGED <<snapshots, notes>>
  <2>1. ~Alerts!Crash(s)
    <3> SUFFICES ASSUME Alerts!Crash(s) PROVE FALSE
      OBVIOUS
    <3>1. strange' = (strange \/ TRUE)
      BY Zenon DEF Alerts!Crash, Alerts!Strangely
    <3> QED BY <3>1
  <2> QED BY <2>1 DEF Alerts!Fail
<1>2. \A t \in Syncs : sync'[t] = IF t = s THEN Alerts!Resting ELSE sync[t]
  BY <1>1 DEF TruthInv, AlertTypeOK
<1>3. InTurn(s) /\ OneAtATime /\ InOrder
  BY <1>1 DEF Orderly
<1>4. \A t \in Syncs : t # s => sync[t].pc = "idle"
  BY <1>1, <1>3 DEF OneAtATime
<1>5. \A t \in Syncs : sync'[t].pc = "idle"
  BY <1>2, <1>4, RestingRow
<1>6. sync[s].at = 0
  BY <1>1, <1>3 DEF InTurn
<1>7. \A i \in 1 .. Len(snapshots) : ToldBy(i, notes)
  BY <1>1, <1>4, <1>6, QuietIsTold
<1>8. AllTold'
  <2> SUFFICES ASSUME NEW i \in 1 .. Len(snapshots') PROVE ToldBy(i, notes)'
    BY DEF AllTold
  <2> QED BY <1>1, <1>7 DEF ToldBy, Alerts!TierKey, Alerts!KevKey, Alerts!NoSnapshot
<1>9. OneAtATime' /\ InOrder'
  BY <1>1, <1>3, <1>5 DEF OneAtATime, InOrder
<1> QED BY <1>5, <1>8, <1>9 DEF Orderly

LEMMA EvaluateInTurn ==
  ASSUME TruthInv, Orderly, NEW s \in Syncs, Alerts!Evaluate(s)
  PROVE  Orderly'
<1>1. strange' = strange /\ notes' = notes
  BY DEF Alerts!Evaluate
<1> SUFFICES ASSUME ~strange PROVE Orderly'
  BY <1>1 DEF Orderly
<1> DEFINE n == Len(snapshots)
           at == sync[s].at
           prev == sync[s].prev
           new == snapshots[at]
           due == TierDue(prev, new) \cup KevDue(prev, new)
<1>2. PICK snap \in Snapshots, row \in SyncRows :
           /\ sync[s].pc = "saved" /\ at \in 1 .. Len(snapshots) /\ new \in Snapshots
           /\ snapshots' = [snapshots EXCEPT ![at] = snap] /\ sync' = [sync EXCEPT ![s] = row]
           /\ Same(new, snap) /\ snap.captured_at = new.captured_at
           /\ snap.watched = Alerts!active_types /\ snap.told_on = today
           /\ row.pc = "evaluated" /\ row.at = at /\ row.prev = prev /\ row.captured_at = sync[s].captured_at
           /\ row.keys = due \ notes /\ due \subseteq TierKeys \cup KevKeys
  BY EvaluateIs
<1>3. InTurn(s) /\ OneAtATime /\ InOrder /\ AllTold
  BY <1>2 DEF Orderly
<1>4. snapshots \in Seq(Snapshots) /\ n \in Nat /\ sync \in [Syncs -> SyncRows]
  BY DEF TruthInv, AlertTypeOK
<1>5. at = n /\ sync[s].captured_at = n - 1 /\ n > 0
  BY <1>2, <1>3, <1>4 DEF InTurn
<1>6. /\ Len(snapshots') = n
      /\ \A i \in 1 .. n : snapshots'[i] = IF i = n THEN snap ELSE snapshots[i]
  BY <1>2, <1>4, <1>5
<1>7. \A t \in Syncs : sync'[t] = IF t = s THEN row ELSE sync[t]
  BY <1>2, <1>4
<1>8. \A t \in Syncs : t # s => sync[t].pc = "idle"
  BY <1>2, <1>3 DEF OneAtATime
<1> HIDE DEF n, due, at, prev, new
<1>9. OneAtATime' /\ \A t \in Syncs : sync'[t].pc # "idle" => t = s
  BY <1>7, <1>8 DEF OneAtATime
<1>10. InOrder'
  <2> SUFFICES ASSUME NEW i \in 1 .. n PROVE snapshots'[i].captured_at = i - 1
    BY <1>6 DEF InOrder
  <2> QED BY <1>2, <1>3, <1>5, <1>6 DEF InOrder, n, new, at
<1>11. n > 1 => Same(prev, snapshots[n - 1]) /\ prev # Alerts!NoSnapshot
  BY <1>3, <1>4, <1>5 DEF InTurn, prev
<1>12. n = 1 => prev = Alerts!NoSnapshot
  BY <1>3, <1>5 DEF InTurn, prev
<1>13. ToldBy(n, notes \cup row.keys)'
  <2> DEFINE before == IF n = 1 THEN Alerts!NoSnapshot ELSE snapshots'[n - 1]
  <2>1. n > 1 => n - 1 \in 1 .. n /\ n - 1 # n
    BY <1>4 DEF n
  <2>2. snapshots'[n] = snap /\ snap.tier = new.tier /\ snap.kev_count = new.kev_count
    BY <1>2, <1>4, <1>5, <1>6 DEF Same, n
  <2>3. before.tier = prev.tier /\ before.kev_count = prev.kev_count
    BY <1>4, <1>5, <1>6, <1>11, <1>12, <2>1 DEF Same, n
  <2> HIDE DEF before
  <2>4. "tier_change" \in snap.watched /\ n > 1 /\ before.tier # snap.tier
          => Alerts!TierKey(before, snap, snap.told_on) \in notes \cup row.keys
    <3> SUFFICES ASSUME "tier_change" \in snap.watched, n > 1, before.tier # snap.tier
                 PROVE  Alerts!TierKey(before, snap, snap.told_on) \in due
      BY <1>2
    <3>1. Alerts!TierKey(before, snap, snap.told_on) = Alerts!TierKey(prev, new, today)
      BY <1>2, <2>2, <2>3 DEF Alerts!TierKey
    <3> QED BY <1>2, <1>11, <2>2, <2>3, <3>1 DEF due, TierDue
  <2>5. "new_kev" \in snap.watched /\ snap.kev_count > before.kev_count
          => Alerts!KevKey(snap, snap.told_on) \in notes \cup row.keys
    <3> SUFFICES ASSUME "new_kev" \in snap.watched, snap.kev_count > before.kev_count
                 PROVE  Alerts!KevKey(snap, snap.told_on) \in due
      BY <1>2
    <3>1. Alerts!KevKey(snap, snap.told_on) = Alerts!KevKey(new, today)
      BY <1>2, <2>2 DEF Alerts!KevKey
    <3> QED BY <1>2, <2>2, <2>3, <3>1 DEF due, KevDue
  <2>6. n' = n
    BY <1>6 DEF n
  <2> QED BY <1>1, <2>2, <2>4, <2>5, <2>6
      DEF ToldBy, before, Alerts!TierKey, Alerts!KevKey, Alerts!NoSnapshot
<1>14. AllTold'
  <2> SUFFICES ASSUME NEW i \in 1 .. n PROVE Alerts!Evaluating(i)' \/ ToldBy(i, notes)'
    BY <1>6 DEF AllTold
  <2>1. CASE i = n
    <3>1. sync'[s].pc # "idle" /\ sync'[s].at = i
      BY <1>2, <1>5, <1>7, <2>1
    <3> QED BY <3>1 DEF Alerts!Evaluating
  <2>2. CASE i # n
    <3>1. ~Alerts!Evaluating(i)
      BY <1>5, <1>8, <2>2 DEF Alerts!Evaluating, at
    <3>2. ToldBy(i, notes)
      BY <1>3, <3>1 DEF AllTold, n
    <3>3. snapshots'[i] = snapshots[i] /\ (i > 1 => snapshots[i - 1] = snapshots'[i - 1])
      BY <1>4, <1>6, <2>2 DEF n
    <3> QED BY <1>1, <3>2, <3>3 DEF ToldBy, Alerts!TierKey, Alerts!KevKey, Alerts!NoSnapshot
  <2> QED BY <2>1, <2>2
<1>15. InTurn(s)'
  <2>1. /\ sync'[s].pc = "evaluated" /\ sync'[s].captured_at = n - 1 /\ sync'[s].at = n /\ sync'[s].prev = prev
        /\ sync'[s].keys = row.keys /\ row.keys \cap notes = {}
    BY <1>2, <1>5, <1>7
  <2>2. n - 1 > 0 => Same(prev, snapshots'[n - 1])
    BY <1>4, <1>6, <1>11 DEF n
  <2>3. Len(snapshots)' = n
    BY <1>6
  <2>4. ToldBy(sync[s].at, notes \cup sync[s].keys)'
    BY <1>1, <1>13, <2>1, <2>3 DEF n
  <2> QED BY <1>1, <1>4, <1>5, <1>11, <1>12, <2>1, <2>2, <2>3, <2>4 DEF InTurn, Same, Alerts!NoSnapshot
<1> QED BY <1>9, <1>10, <1>14, <1>15 DEF Orderly

LEMMA CommitInTurn ==
  ASSUME TruthInv, Orderly, NEW s \in Syncs, Alerts!Commit(s)
  PROVE  Orderly'
<1> DEFINE n == Len(snapshots)
           told == sync[s].keys
<1>1. /\ sync[s].pc = "evaluated" /\ sync' = [sync EXCEPT ![s] = Alerts!Resting] /\ UNCHANGED <<snapshots, strange>>
      /\ (told \cap notes = {} => notes' = notes \cup told)
  BY DEF Alerts!Commit
<1> SUFFICES ASSUME ~strange PROVE Orderly'
  BY <1>1 DEF Orderly
<1>2. InTurn(s) /\ OneAtATime /\ InOrder /\ AllTold
  BY <1>1 DEF Orderly
<1>3. \A t \in Syncs : sync'[t] = IF t = s THEN Alerts!Resting ELSE sync[t]
  BY <1>1 DEF TruthInv, AlertTypeOK
<1>4. \A t \in Syncs : t # s => sync[t].pc = "idle"
  BY <1>1, <1>2 DEF OneAtATime
<1>5. \A t \in Syncs : sync'[t].pc = "idle"
  BY <1>3, <1>4, RestingRow
<1> HIDE DEF n, told
<1>6. sync[s].at = n /\ notes' = notes \cup told /\ ToldBy(n, notes')
  <2>1. sync[s].at = n /\ told \cap notes = {} /\ ToldBy(sync[s].at, notes \cup told)
    BY <1>1, <1>2 DEF InTurn, n, told
  <2> QED BY <1>1, <2>1
<1>7. \A i \in 1 .. n : ToldBy(i, notes')
  <2> SUFFICES ASSUME NEW i \in 1 .. n, i # n PROVE ToldBy(i, notes')
    BY <1>6
  <2>1. ~Alerts!Evaluating(i)
    BY <1>4, <1>6 DEF Alerts!Evaluating
  <2>2. ToldBy(i, notes)
    BY <1>2, <2>1 DEF AllTold, n
  <2> QED BY <1>6, <2>2, ToldMore
<1>8. AllTold'
  <2> SUFFICES ASSUME NEW i \in 1 .. Len(snapshots') PROVE ToldBy(i, notes)'
    BY DEF AllTold
  <2> QED BY <1>1, <1>7 DEF n, ToldBy, Alerts!TierKey, Alerts!KevKey, Alerts!NoSnapshot
<1>9. OneAtATime' /\ InOrder'
  BY <1>1, <1>2, <1>5 DEF OneAtATime, InOrder
<1> QED BY <1>5, <1>8, <1>9 DEF Orderly

\* More alerts of another type change nothing.
LEMMA OthersInTurn ==
  ASSUME TruthInv, Orderly, UNCHANGED <<snapshots, sync, strange>>,
         notes' = notes \/ \E k \in DueKeys : notes' = notes \cup {k}
  PROVE  Orderly'
<1> SUFFICES ASSUME ~strange PROVE Orderly'
  BY DEF Orderly
<1>1. OneAtATime /\ InOrder /\ AllTold /\ \A s \in Syncs : sync[s].pc # "idle" => InTurn(s)
  BY DEF Orderly
<1>2. notes \subseteq notes'
  OBVIOUS
<1>3. OneAtATime' /\ InOrder'
  BY <1>1 DEF OneAtATime, InOrder
<1>4. AllTold'
  <2> SUFFICES ASSUME NEW i \in 1 .. Len(snapshots), ~Alerts!Evaluating(i)' PROVE ToldBy(i, notes)'
    BY DEF AllTold
  <2>1. ~Alerts!Evaluating(i)
    BY DEF Alerts!Evaluating
  <2>2. ToldBy(i, notes')
    BY <1>1, <1>2, <2>1, ToldMore DEF AllTold
  <2> QED BY <2>2 DEF ToldBy, Alerts!TierKey, Alerts!KevKey, Alerts!NoSnapshot
<1>5. ASSUME NEW s \in Syncs, sync[s].pc # "idle"
      PROVE  InTurn(s)'
  <2>1. InTurn(s)
    BY <1>1, <1>5
  <2>2. ASSUME sync[s].pc = "evaluated"
        PROVE  sync[s].keys \cap notes' = {} /\ ToldBy(sync[s].at, notes \cup sync[s].keys)'
    <3>1. sync[s].keys \cap notes = {} /\ ToldBy(sync[s].at, notes \cup sync[s].keys)
      BY <2>1, <2>2 DEF InTurn
    <3>2. sync[s].keys \cap DueKeys = {}
      <4>1. sync[s].keys \subseteq TierKeys \cup KevKeys
        BY DEF TruthInv, AlertTypeOK, SyncRows
      <4>2. \A k \in DueKeys : k \notin TierKeys /\ k \notin KevKeys
        BY DEF DueKeys, TierKeys, KevKeys
      <4> QED BY <4>1, <4>2
    <3>3. sync[s].keys \cap notes' = {}
      BY <3>1, <3>2
    <3>4. ToldBy(sync[s].at, notes' \cup sync[s].keys)
      BY <1>2, <3>1, ToldMore
    <3> QED BY <3>3, <3>4 DEF ToldBy, Alerts!TierKey, Alerts!KevKey, Alerts!NoSnapshot
  <2> QED BY <2>1, <2>2 DEF InTurn, Same, Alerts!NoSnapshot
<1> QED BY <1>3, <1>4, <1>5 DEF Orderly

LEMMA OrderlyKept == TruthInv /\ Orderly /\ [Alerts!Next]_(Alerts!alertVars) => Orderly'
<1> SUFFICES ASSUME TruthInv, Orderly, [Alerts!Next]_(Alerts!alertVars) PROVE Orderly'
  OBVIOUS
<1>1. CASE UNCHANGED Alerts!alertVars
  BY <1>1, OthersInTurn DEF Alerts!alertVars
<1>2. ASSUME NEW r \in Rules, NEW rule, Alerts!EditRule(r, rule)
      PROVE  Orderly'
  BY <1>2, OthersInTurn DEF Alerts!EditRule
<1>3. ASSUME NEW r \in Rules, Alerts!Renewals(r)
      PROVE  Orderly'
  BY <1>3, RenewalsKeep, OthersInTurn
<1>4. CASE Alerts!Midnight
  BY <1>4, OthersInTurn DEF Alerts!Midnight
<1>5. ASSUME \E s \in Syncs : Alerts!Begin(s) \/ (\E found \in Assessments : Alerts!Snapshot(s, found)) \/ Alerts!Fail(s)
                               \/ Alerts!Evaluate(s) \/ Alerts!Commit(s) \/ Alerts!Crash(s)
      PROVE  Orderly'
  BY <1>5, BeginInTurn, SnapshotInTurn, RestInTurn, EvaluateInTurn, CommitInTurn
<1>6. ASSUME \E r \in Rules, type \in Types, on \in BOOLEAN, days \in Windows :
               Alerts!EditRule(r, [type |-> type, active |-> on, days |-> days])
      PROVE  Orderly'
  BY <1>2, <1>6
<1>7. ASSUME \E r \in Rules : Alerts!EditRule(r, Alerts!NoRule) \/ Alerts!Renewals(r)
      PROVE  Orderly'
  BY <1>2, <1>3, <1>7
<1> QED BY <1>1, <1>4, <1>5, <1>6, <1>7 DEF Alerts!Next

\* Every alert is true whatever overlaps or crashes, and without either no change
\* between two snapshots goes untold (evaluate_on_sync, evaluate_renewals).
THEOREM AlertsAreTrueAndTold == Spec => []AlertsMatchHistory
<1>1. Alerts!Spec => [](TruthInv /\ Orderly)
  BY AlertsInitially, OrderlyAtFirst, TruthKept, OrderlyKept, PTL DEF Alerts!Spec
<1>2. TruthInv /\ Orderly => AlertsMatchHistory
  <2> SUFFICES ASSUME TruthInv, Orderly, ~strange, NEW i \in DOMAIN snapshots
               PROVE  Alerts!Evaluating(i) \/ Alerts!Told(i)
    BY TruthIsTrue DEF AlertsMatchHistory, Alerts!AlertsMatchHistory
  <2>1. i \in 1 .. Len(snapshots)
    BY DEF TruthInv, AlertTypeOK
  <2>2. Alerts!Evaluating(i) \/ ToldBy(i, notes)
    BY <2>1 DEF Orderly, AllTold
  <2> QED BY <2>2 DEF ToldBy, Alerts!Told
<1> QED BY <1>1, <1>2, AlertsRun, PTL

------------------------------------------------------------------------------
(* Sums over finite sets.                                                    *)

\* Induction over the subsets of a finite set.
LEMMA Gathering ==
  ASSUME NEW S, IsFiniteSet(S), NEW T, {} \in T,
         \A R \in SUBSET S : \A x \in S \ R : R \in T => R \cup {x} \in T
  PROVE  \A R \in SUBSET S : R \in T
<1> DEFINE n == Cardinality(S)
           U == {k \in 0 .. n : \A R \in SUBSET S : Cardinality(R) = k => R \in T}
<1>1. n \in Nat /\ \A R \in SUBSET S : IsFiniteSet(R) /\ Cardinality(R) \in 0 .. n
  BY FS_CardinalityType, FS_Subset
<1>2. 0 \in U
  BY <1>1, FS_EmptySet
<1>3. ASSUME NEW k \in 1 .. n, k - 1 \in U PROVE k \in U
  <2>1. ASSUME NEW R \in SUBSET S, Cardinality(R) = k PROVE R \in T
    <3>1. IsFiniteSet(R) /\ R # {}
      BY <1>1, <2>1, FS_EmptySet
    <3>2. PICK x : x \in R
      BY <3>1
    <3> DEFINE Q == R \ {x}
    <3>3. Q \in SUBSET S /\ x \in S \ Q /\ R = Q \cup {x}
      BY <3>2
    <3>4. Cardinality(Q) = k - 1
      BY <2>1, <3>1, <3>2, FS_RemoveElement
    <3>5. Q \in T
      BY <1>3, <3>3, <3>4
    <3> QED BY <3>3, <3>5
  <2> QED BY <1>1, <2>1
<1>4. \A k \in 0 .. n : k \in U
  <2> HIDE DEF U
  <2> QED BY <1>1, <1>2, <1>3, Upward
<1> QED BY <1>1, <1>4

\* h gives the sum of the weights w of each subset of S, whichever element is
\* taken first.
IsSum(h, w, S) ==
  /\ h \in [SUBSET S -> Nat] /\ h[{}] = 0
  /\ \A R \in SUBSET S : \A x \in R : h[R] = w[x] + h[R \ {x}]

LEMMA SumsExist ==
  ASSUME NEW S, IsFiniteSet(S), NEW w \in [S -> Nat]
  PROVE  \E h : IsSum(h, w, S)
<1> DEFINE T == {R \in SUBSET S : \E h : IsSum(h, w, R)}
<1>1. {} \in T
  <2> DEFINE h == [R \in SUBSET {} |-> 0]
  <2>1. IsSum(h, w, {})
    BY DEF IsSum
  <2> QED BY <2>1
<1>2. ASSUME NEW R \in SUBSET S, NEW y \in S \ R, R \in T PROVE R \cup {y} \in T
  <2>1. PICK g : IsSum(g, w, R)
    BY <1>2
  <2> DEFINE A == R \cup {y}
             h == [Q \in SUBSET A |-> IF y \in Q THEN w[y] + g[Q \ {y}] ELSE g[Q]]
  <2>2. w[y] \in Nat /\ \A Q \in SUBSET R : g[Q] \in Nat
    BY <2>1 DEF IsSum
  <2>3. \A Q \in SUBSET A : Q \ {y} \in SUBSET R /\ (y \notin Q => Q \in SUBSET R)
    OBVIOUS
  <2>4. h \in [SUBSET A -> Nat]
    BY <2>2, <2>3
  <2>5. h[{}] = 0
    BY <2>1 DEF IsSum
  <2>6. ASSUME NEW Q \in SUBSET A, NEW x \in Q PROVE h[Q] = w[x] + h[Q \ {x}]
    <3>1. Q \ {x} \in SUBSET A
      OBVIOUS
    <3>2. CASE y \notin Q
      <4>1. h[Q] = g[Q] /\ h[Q \ {x}] = g[Q \ {x}]
        BY <3>1, <3>2
      <4> QED BY <2>1, <2>3, <3>2, <4>1 DEF IsSum
    <3>3. CASE y = x
      <4>1. h[Q] = w[y] + g[Q \ {y}] /\ h[Q \ {x}] = g[Q \ {x}]
        BY <3>1, <3>3
      <4> QED BY <3>3, <4>1
    <3>4. CASE y \in Q /\ y # x
      <4>1. x \in Q \ {y} /\ Q \ {y} \in SUBSET R /\ (Q \ {y}) \ {x} = (Q \ {x}) \ {y} /\ (Q \ {y}) \ {x} \in SUBSET R
        BY <2>3, <3>4
      <4>2. g[Q \ {y}] = w[x] + g[(Q \ {y}) \ {x}]
        BY <2>1, <4>1 DEF IsSum
      <4>3. h[Q] = w[y] + g[Q \ {y}] /\ h[Q \ {x}] = w[y] + g[(Q \ {x}) \ {y}]
        BY <3>1, <3>4
      <4>4. w[x] \in Nat
        BY <1>2
      <4>5. g[(Q \ {x}) \ {y}] = g[(Q \ {y}) \ {x}] /\ g[(Q \ {y}) \ {x}] \in Nat
        BY <2>2, <4>1
      <4> HIDE DEF h
      <4> QED BY <2>2, <4>2, <4>3, <4>4, <4>5
    <3> QED BY <3>2, <3>3, <3>4
  <2>7. IsSum(h, w, A)
    <3> HIDE DEF h, A
    <3> QED BY <2>4, <2>5, <2>6 DEF IsSum
  <2> QED BY <2>7
<1>3. \A R \in SUBSET S : R \in T
  <2> HIDE DEF T
  <2> QED BY <1>1, <1>2, Gathering
<1> QED BY <1>3

\* How MapThenSumSet computes one.
Adds(g, w, S) ==
  g = [R \in SUBSET S |-> IF R = {} THEN 0 ELSE LET x == CHOOSE x \in R : TRUE IN w[x] + g[R \ {x}]]

LEMMA SumIsSum ==
  ASSUME NEW S, IsFiniteSet(S), NEW w \in [S -> Nat], NEW h, IsSum(h, w, S)
  PROVE  /\ \E g : Adds(g, w, S)
         /\ \A g : Adds(g, w, S) => g[S] = h[S]
<1> DEFINE first(R) == CHOOSE x \in R : TRUE
<1>1. \A R \in SUBSET S : R # {} => first(R) \in R /\ R \ {first(R)} \in SUBSET S
  OBVIOUS
<1>2. \A R \in SUBSET S : h[R] = IF R = {} THEN 0 ELSE w[first(R)] + h[R \ {first(R)}]
  BY <1>1 DEF IsSum
<1>3. Adds(h, w, S)
  <2>1. h = [R \in SUBSET S |-> h[R]]
    BY DEF IsSum
  <2> QED BY <1>2, <2>1 DEF Adds
<1>4. ASSUME NEW g, Adds(g, w, S) PROVE g[S] = h[S]
  <2>1. \A R \in SUBSET S : g[R] = IF R = {} THEN 0 ELSE w[first(R)] + g[R \ {first(R)}]
    BY <1>4 DEF Adds
  <2> HIDE DEF first
  <2> DEFINE n == Cardinality(S)
             U == {k \in 0 .. n : \A R \in SUBSET S : Cardinality(R) = k => g[R] = h[R]}
  <2>2. n \in Nat /\ \A R \in SUBSET S : IsFiniteSet(R) /\ Cardinality(R) \in 0 .. n
    BY FS_CardinalityType, FS_Subset
  <2>3. 0 \in U
    BY <1>2, <2>1, <2>2, FS_EmptySet
  <2>4. ASSUME NEW k \in 1 .. n, k - 1 \in U PROVE k \in U
    <3>1. ASSUME NEW R \in SUBSET S, Cardinality(R) = k PROVE g[R] = h[R]
      <4>1. IsFiniteSet(R) /\ R # {}
        BY <2>2, <3>1, FS_EmptySet
      <4>2. first(R) \in R /\ R \ {first(R)} \in SUBSET S
        BY <1>1, <4>1
      <4>3. Cardinality(R \ {first(R)}) = k - 1
        BY <3>1, <4>1, <4>2, FS_RemoveElement
      <4>4. g[R \ {first(R)}] = h[R \ {first(R)}]
        BY <2>4, <4>2, <4>3
      <4> QED BY <1>2, <2>1, <4>1, <4>4
    <3> QED BY <2>2, <3>1
  <2>5. \A k \in 0 .. n : k \in U
    <3> HIDE DEF U
    <3> QED BY <2>2, <2>3, <2>4, Upward
  <2> QED BY <2>2, <2>5
<1> QED BY <1>3, <1>4

\* f gives each element of S a name of its own, which Z has all of.
Renames(f, S, Z) == (\A x, y \in S : f[x] = f[y] => x = y) /\ Z = {f[x] : x \in S}

LEMMA SameSize ==
  ASSUME NEW S, IsFiniteSet(S), NEW f, NEW Z, Renames(f, S, Z)
  PROVE  IsFiniteSet(Z) /\ Cardinality(Z) = Cardinality(S)
<1> DEFINE g == [x \in S |-> f[x]]
<1>1. g \in Bijection(S, Z)
  BY DEF Renames, Bijection, Injection, IsInjective, Surjection
<1> QED BY <1>1, FS_Bijection DEF ExistsBijection

\* The same weights under other names have the same sum.
LEMMA SumRenamed ==
  ASSUME NEW S, IsFiniteSet(S), NEW w, NEW h, IsSum(h, w, S),
         NEW Z, NEW v, NEW k, IsSum(k, v, Z), NEW f, Renames(f, S, Z), \A x \in S : v[f[x]] = w[x]
  PROVE  k[Z] = h[S]
<1> USE DEF Renames
<1> DEFINE Image(R) == {f[x] : x \in R}
           T == {R \in SUBSET S : k[Image(R)] = h[R]}
<1>1. {} \in T
  <2>1. Image({}) = {}
    OBVIOUS
  <2> QED BY <2>1 DEF IsSum
<1>2. ASSUME NEW R \in SUBSET S, NEW x \in S \ R, R \in T PROVE R \cup {x} \in T
  <2>1. Image(R \cup {x}) \in SUBSET Z /\ f[x] \in Image(R \cup {x})
    OBVIOUS
  <2>2. Image(R \cup {x}) \ {f[x]} = Image(R)
    OBVIOUS
  <2>3. k[Image(R \cup {x})] = v[f[x]] + k[Image(R)]
    BY <2>1, <2>2 DEF IsSum
  <2>4. (R \cup {x}) \ {x} = R /\ R \cup {x} \in SUBSET S
    OBVIOUS
  <2>5. h[R \cup {x}] = w[x] + h[R]
    BY <2>4 DEF IsSum
  <2> HIDE DEF Image
  <2> QED BY <1>2, <2>3, <2>4, <2>5
<1>3. \A R \in SUBSET S : R \in T
  <2> HIDE DEF T
  <2> QED BY <1>1, <1>2, Gathering
<1>4. S \in T
  <2> HIDE DEF T
  <2> QED BY <1>3
<1>5. Image(S) = Z
  OBVIOUS
<1> QED BY <1>4, <1>5

\* The sets of M do not meet, and w is their sizes.
Apart(M, w, S) ==
  /\ \A x \in S : IsFiniteSet(M[x]) /\ w[x] = Cardinality(M[x])
  /\ \A x, y \in S : x # y => M[x] \cap M[y] = {}

\* The sizes of such sets add up to that of all of them.
LEMMA SumOfSizes ==
  ASSUME NEW S, IsFiniteSet(S), NEW M, NEW w, Apart(M, w, S), NEW h, IsSum(h, w, S)
  PROVE  h[S] = Cardinality(UNION {M[x] : x \in S})
<1> DEFINE All(R) == UNION {M[x] : x \in R}
           T == {R \in SUBSET S : IsFiniteSet(All(R)) /\ h[R] = Cardinality(All(R))}
<1> USE DEF Apart
<1>1. {} \in T
  <2>1. All({}) = {}
    OBVIOUS
  <2> QED BY <2>1, FS_EmptySet DEF IsSum
<1>2. ASSUME NEW R \in SUBSET S, NEW x \in S \ R, R \in T PROVE R \cup {x} \in T
  <2>1. All(R \cup {x}) = All(R) \cup M[x]
    OBVIOUS
  <2>2. All(R) \cap M[x] = {}
    OBVIOUS
  <2>3. (R \cup {x}) \ {x} = R /\ R \cup {x} \in SUBSET S
    OBVIOUS
  <2>4. h[R \cup {x}] = Cardinality(M[x]) + h[R]
    BY <2>3 DEF IsSum
  <2>5. IsFiniteSet(All(R)) /\ h[R] = Cardinality(All(R)) /\ IsFiniteSet(M[x])
    BY <1>2
  <2> HIDE DEF All
  <2>6. IsFiniteSet(All(R) \cup M[x]) /\ Cardinality(All(R) \cup M[x]) = Cardinality(All(R)) + Cardinality(M[x])
    <3>1. /\ IsFiniteSet(All(R) \cup M[x])
          /\ Cardinality(All(R) \cup M[x]) = Cardinality(All(R)) + Cardinality(M[x]) - Cardinality(All(R) \cap M[x])
      BY <2>5, FS_Union
    <3>2. Cardinality(All(R) \cap M[x]) = 0
      BY <2>2, FS_EmptySet
    <3>3. Cardinality(All(R)) \in Nat /\ Cardinality(M[x]) \in Nat
      BY <2>5, FS_CardinalityType
    <3> QED BY <3>1, <3>2, <3>3
  <2>7. Cardinality(All(R)) \in Nat /\ Cardinality(M[x]) \in Nat
    BY <2>5, FS_CardinalityType
  <2>8. IsFiniteSet(All(R \cup {x})) /\ Cardinality(All(R \cup {x})) = Cardinality(All(R)) + Cardinality(M[x])
    BY <2>1, <2>6, Zenon
  <2>9. h[R \cup {x}] = Cardinality(All(R)) + Cardinality(M[x])
    BY <2>4, <2>5, <2>7
  <2>10. h[R \cup {x}] = Cardinality(All(R \cup {x}))
    BY <2>8, <2>9, Zenon
  <2> QED BY <2>3, <2>8, <2>10
<1>3. \A R \in SUBSET S : R \in T
  <2> HIDE DEF T
  <2> QED BY <1>1, <1>2, Gathering
<1>4. S \in T
  <2> HIDE DEF T
  <2> QED BY <1>3
<1> QED BY <1>4
------------------------------------------------------------------------------
(* Portfolio: the numbers of the dashboard and of the trend as sums.         *)

AddsCves(g, rows) ==
  g = [R \in SUBSET DOMAIN rows |->
        IF R = {} THEN 0 ELSE LET x == CHOOSE x \in R : TRUE IN rows[x].cve_count + g[R \ {x}]]

LEMMA TotalIsSum ==
  ASSUME NEW rows, NEW K, K = DOMAIN rows, IsFiniteSet(K), NEW w \in [K -> Nat], \A v \in K : w[v] = rows[v].cve_count,
         NEW h, IsSum(h, w, K)
  PROVE  Reports!total_cves(rows) = h[K]
<1> DEFINE g == CHOOSE g : AddsCves(g, rows)
<1>1. Reports!total_cves(rows) = g[DOMAIN rows]
  BY DEF Reports!total_cves, Reports!MapThenSumSet, Reports!MapThenFoldSet, AddsCves
<1>2. ASSUME NEW f PROVE AddsCves(f, rows) <=> Adds(f, w, K)
  <2> DEFINE a(R) == IF R = {} THEN 0 ELSE LET x == CHOOSE x \in R : TRUE IN rows[x].cve_count + f[R \ {x}]
             b(R) == IF R = {} THEN 0 ELSE LET x == CHOOSE x \in R : TRUE IN w[x] + f[R \ {x}]
  <2>1. \A R \in SUBSET K : a(R) = b(R)
    <3> SUFFICES ASSUME NEW R \in SUBSET K, R # {} PROVE a(R) = b(R)
      OBVIOUS
    <3> DEFINE x == CHOOSE x \in R : TRUE
    <3>1. x \in R
      OBVIOUS
    <3> HIDE DEF x
    <3>2. rows[x].cve_count = w[x]
      BY <3>1
    <3> QED BY <3>2 DEF x
  <2> HIDE DEF a, b
  <2>2. [R \in SUBSET K |-> a(R)] = [R \in SUBSET K |-> b(R)]
    BY <2>1
  <2> QED BY <2>2 DEF AddsCves, Adds, a, b
<1>3. \E f : AddsCves(f, rows)
  BY <1>2, SumIsSum
<1>4. AddsCves(g, rows)
  BY <1>3
<1> HIDE DEF g
<1> QED BY <1>1, <1>2, <1>4, SumIsSum

AddsSnapshots(g, S) ==
  g = [R \in SUBSET S |-> IF R = {} THEN 0 ELSE LET x == CHOOSE x \in R : TRUE IN x.cve_count + g[R \ {x}]]

LEMMA SnapshotsAreSum ==
  ASSUME NEW S, IsFiniteSet(S), NEW w \in [S -> Nat], \A s \in S : w[s] = s.cve_count, NEW h, IsSum(h, w, S)
  PROVE  Reports!cves_in(S) = h[S]
<1> DEFINE g == CHOOSE g : AddsSnapshots(g, S)
<1>1. Reports!cves_in(S) = g[S]
  BY DEF Reports!cves_in, Reports!MapThenSumSet, Reports!MapThenFoldSet, AddsSnapshots
<1>2. ASSUME NEW f PROVE AddsSnapshots(f, S) <=> Adds(f, w, S)
  <2> DEFINE a(R) == IF R = {} THEN 0 ELSE LET x == CHOOSE x \in R : TRUE IN x.cve_count + f[R \ {x}]
             b(R) == IF R = {} THEN 0 ELSE LET x == CHOOSE x \in R : TRUE IN w[x] + f[R \ {x}]
  <2>1. \A R \in SUBSET S : a(R) = b(R)
    <3> SUFFICES ASSUME NEW R \in SUBSET S, R # {} PROVE a(R) = b(R)
      OBVIOUS
    <3> DEFINE x == CHOOSE x \in R : TRUE
    <3>1. x \in R
      OBVIOUS
    <3> HIDE DEF x
    <3>2. x.cve_count = w[x]
      BY <3>1
    <3> QED BY <3>2 DEF x
  <2> HIDE DEF a, b
  <2>2. [R \in SUBSET S |-> a(R)] = [R \in SUBSET S |-> b(R)]
    BY <2>1
  <2> QED BY <2>2 DEF AddsSnapshots, Adds, a, b
<1>3. \E f : AddsSnapshots(f, S)
  BY <1>2, SumIsSum
<1>4. AddsSnapshots(g, S)
  BY <1>3
<1> HIDE DEF g
<1> QED BY <1>1, <1>2, <1>4, SumIsSum

AddsCells(g, S) ==
  g = [R \in SUBSET S |-> IF R = {} THEN 0 ELSE LET x == CHOOSE x \in R : TRUE IN x.count + g[R \ {x}]]

LEMMA CellsAreSum ==
  ASSUME NEW S, IsFiniteSet(S), NEW w \in [S -> Nat], \A s \in S : w[s] = s.count, NEW h, IsSum(h, w, S)
  PROVE  Reports!vendors_in(S) = h[S]
<1> DEFINE g == CHOOSE g : AddsCells(g, S)
<1>1. Reports!vendors_in(S) = g[S]
  BY DEF Reports!vendors_in, Reports!MapThenSumSet, Reports!MapThenFoldSet, AddsCells
<1>2. ASSUME NEW f PROVE AddsCells(f, S) <=> Adds(f, w, S)
  <2> DEFINE a(R) == IF R = {} THEN 0 ELSE LET x == CHOOSE x \in R : TRUE IN x.count + f[R \ {x}]
             b(R) == IF R = {} THEN 0 ELSE LET x == CHOOSE x \in R : TRUE IN w[x] + f[R \ {x}]
  <2>1. \A R \in SUBSET S : a(R) = b(R)
    <3> SUFFICES ASSUME NEW R \in SUBSET S, R # {} PROVE a(R) = b(R)
      OBVIOUS
    <3> DEFINE x == CHOOSE x \in R : TRUE
    <3>1. x \in R
      OBVIOUS
    <3> HIDE DEF x
    <3>2. x.count = w[x]
      BY <3>1
    <3> QED BY <3>2 DEF x
  <2> HIDE DEF a, b
  <2>2. [R \in SUBSET S |-> a(R)] = [R \in SUBSET S |-> b(R)]
    BY <2>1
  <2> QED BY <2>2 DEF AddsCells, Adds, a, b
<1>3. \E f : AddsCells(f, S)
  BY <1>2, SumIsSum
<1>4. AddsCells(g, S)
  BY <1>3
<1> HIDE DEF g
<1> QED BY <1>1, <1>2, <1>4, SumIsSum
------------------------------------------------------------------------------
(* Portfolio: what the trend says of a past day.                             *)

Company ==
  [is : {"unlisted", "listed", "mapped", "deleted"}, threat : Reports!Threats \cup {"none"}, exposure : Exposures,
   cve_count : Nat, kev_count : Nat]
Colours == {Risk!MATRIX[t][e] : t \in Reports!Threats, e \in Exposures}
\* What the dashboard says of one vendor.
Assessment ==
  [is_mapped : BOOLEAN, threat : Reports!Threats \cup {"none"}, exposure : Exposures,
   tier : Colours \cup {Risk!NotAssessed}, cve_count : Nat, kev_count : Nat]
Assessed ==
  {a \in Assessment : a.is_mapped => a.threat \in Reports!Threats /\ a.tier = Risk!MATRIX[a.threat][a.exposure]}
Closed == [rows : UNION {[D -> Assessed] : D \in SUBSET Companies}, changed : SUBSET Companies]

PortfolioTypeOK ==
  /\ company \in [Companies -> Company]
  /\ \A v \in Companies : company[v].is = "mapped" => company[v].threat \in Reports!Threats
  /\ IsFiniteSet(taken)
  /\ \A s \in taken : s.vendor \in Companies /\ s.day \in 1 .. day /\ s.cve_count \in Nat /\ s.kev_count \in Nat
  /\ begun \in [Companies -> [at : Nat, day : Nat]]
  /\ day \in Nat \ {0} /\ closing \in Seq(Closed) /\ Len(closing) = day - 1
  /\ changed \in SUBSET Companies
  /\ late \subseteq Companies \X (1 .. day - 1)

Of(v) == {s \in taken : s.vendor = v}
Newest(S, d) == {s \in S : s.day <= d /\ \A r \in S : r.day <= d => r.at <= s.at}
OnList(v) == company[v].is \in {"listed", "mapped"}

\* The snapshots of a vendor are in the order of its syncs.
Counted(v) ==
  /\ \A s \in Of(v) : s.at \in 1 .. Cardinality(Of(v))
  /\ \A s, r \in Of(v) : s.at = r.at => s = r
  /\ begun[v] # Reports!Resting => OnList(v) /\ begun[v].at = 1 + Cardinality(Of(v)) /\ begun[v].day \in 1 .. day
\* Who is not on the list has no snapshots, and before it came no past.
Stranger(v) ==
  /\ ~OnList(v) => Of(v) = {}
  /\ company[v].is = "unlisted" => \A d \in 1 .. day - 1 : v \notin DOMAIN closing[d].rows

Agrees(s, a) == s.tier = a.tier /\ s.cve_count = a.cve_count /\ s.kev_count = a.kev_count
\* The newest snapshot says what the dashboard says now.
Current(v) ==
  /\ company[v].is = "mapped" /\ v \notin changed =>
       \E s \in Newest(Of(v), day) :
         /\ s.tier = Risk!MATRIX[company[v].threat][company[v].exposure]
         /\ s.cve_count = company[v].cve_count /\ s.kev_count = company[v].kev_count
  /\ company[v].is = "listed" => Of(v) = {}
\* The newest of the snapshots up to day d says what the dashboard said at its end.
Remembered(v, d) ==
  /\ v \in DOMAIN closing[d].rows /\ closing[d].rows[v].is_mapped /\ v \notin closing[d].changed =>
       \E s \in Newest(Of(v), d) : Agrees(s, closing[d].rows[v])
  /\ ~(v \in DOMAIN closing[d].rows /\ closing[d].rows[v].is_mapped) => \A s \in Of(v) : s.day > d
Remembers(v) == OnList(v) => Current(v) /\ \A d \in 1 .. day - 1 : <<v, d>> \notin late => Remembered(v, d)

VendorTrend(v) == Counted(v) /\ Stranger(v) /\ Remembers(v)
TrendInv == PortfolioTypeOK /\ \A v \in Companies : VendorTrend(v)

\* The part runs as its own module says.
LEMMA ReportsRun == Spec => Reports!Spec
<1>1. Init => Reports!Init
  BY DEF Init
<1>2. [Next]_tenantVars => [Reports!Next]_(Reports!portfolioVars)
  BY DEF Next, tenantVars, CatalogStep, SettingsStep, RiskStep, AlertsStep, AccountsStep, PhotoStep, ReportsStep,
     GoogleStep, HistoryStep, portfolioVars, Reports!portfolioVars
<1> QED BY <1>1, <1>2, PTL DEF Spec, Reports!Spec

\* An instance counts with operators of its own, which are the same.
LEMMA ReportsCount == \A S : Reports!Cardinality(S) = Cardinality(S) /\ Reports!IsFiniteSet(S) = IsFiniteSet(S)
BY DEF Reports!Cardinality, Cardinality, Reports!IsFiniteSet, IsFiniteSet

LEMMA CompaniesFinite == IsFiniteSet(Companies) /\ IsFiniteSet(Reports!Threats) /\ IsFiniteSet(Exposures)
BY ReportAssumptions, ReportsCount DEF Reports!CompanyAssumption, Reports!BandAssumption, Reports!Threats

\* What the dashboard says now has the type of what it said at a midnight.
LEMMA RowsOfToday ==
  ASSUME PortfolioTypeOK
  PROVE  /\ Reports!Listed \in SUBSET Companies
         /\ Reports!assess_vendors \in [Reports!Listed -> Assessed]
         /\ [rows |-> Reports!assess_vendors, changed |-> changed] \in Closed
<1>1. Reports!Listed \in SUBSET Companies
  BY DEF Reports!Listed
<1> DEFINE row(v) ==
      LET c == company[v]
      IN [is_mapped |-> c.is = "mapped", threat |-> c.threat, exposure |-> c.exposure,
          tier |-> IF c.is = "mapped" THEN Risk!MATRIX[c.threat][c.exposure] ELSE "Not Assessed",
          cve_count |-> c.cve_count, kev_count |-> c.kev_count]
<1>2. ASSUME NEW v \in Reports!Listed PROVE row(v) \in Assessed
  <2>1. company[v] \in Company /\ (company[v].is = "mapped" => company[v].threat \in Reports!Threats)
    BY <1>1 DEF PortfolioTypeOK
  <2>2. /\ company[v].threat \in Reports!Threats \cup {"none"} /\ company[v].exposure \in Exposures
        /\ company[v].cve_count \in Nat /\ company[v].kev_count \in Nat
    BY <2>1 DEF Company
  <2>3. company[v].is = "mapped" => Risk!MATRIX[company[v].threat][company[v].exposure] \in Colours
    BY <2>1, <2>2 DEF Colours
  <2> DEFINE tier == IF company[v].is = "mapped" THEN Risk!MATRIX[company[v].threat][company[v].exposure]
                     ELSE "Not Assessed"
  <2>4. PICK is \in BOOLEAN : is = (company[v].is = "mapped")
    BY Zenon
  <2>5. tier = IF is THEN Risk!MATRIX[company[v].threat][company[v].exposure] ELSE Risk!NotAssessed
    BY <2>4, Zenon DEF Risk!NotAssessed
  <2>6. row(v) = [is_mapped |-> is, threat |-> company[v].threat, exposure |-> company[v].exposure, tier |-> tier,
                  cve_count |-> company[v].cve_count, kev_count |-> company[v].kev_count]
    BY <2>4, Zenon
  <2> HIDE DEF tier, row
  <2>7. tier \in Colours \cup {Risk!NotAssessed}
    BY <2>3, <2>4, <2>5
  <2>8. is => company[v].threat \in Reports!Threats /\ tier = Risk!MATRIX[company[v].threat][company[v].exposure]
    BY <2>1, <2>4, <2>5
  <2>9. row(v) \in Assessment
    BY <2>2, <2>6, <2>7 DEF Assessment
  <2> QED BY <2>6, <2>8, <2>9 DEF Assessed
<1>3. Reports!assess_vendors = [v \in Reports!Listed |-> row(v)]
  BY DEF Reports!assess_vendors
<1> HIDE DEF row
<1>4. Reports!assess_vendors \in [Reports!Listed -> Assessed]
  BY <1>2, <1>3
<1>5. changed \in SUBSET Companies
  BY DEF PortfolioTypeOK
<1> QED BY <1>1, <1>4, <1>5 DEF Closed

LEMMA ClosingType ==
  ASSUME PortfolioTypeOK, NEW d \in 1 .. day
  PROVE  Reports!Closing(d) \in Closed
<1>1. CASE d < day
  <2>1. day \in Nat /\ d \in 1 .. Len(closing) /\ closing \in Seq(Closed)
    BY <1>1 DEF PortfolioTypeOK
  <2>2. closing[d] \in Closed
    BY <2>1
  <2> QED BY <1>1, <2>2 DEF Reports!Closing
<1>2. CASE ~(d < day)
  BY <1>2, RowsOfToday DEF Reports!Closing
<1> QED BY <1>1, <1>2

\* The vendors that the report of day d counts and that are still there.
KeptOn(d) ==
  {v \in Reports!Listed \cap DOMAIN Reports!Closing(d).rows : Reports!Closing(d).rows[v].is_mapped}

LEMMA KeptRows ==
  ASSUME PortfolioTypeOK, NEW d \in 1 .. day
  PROVE  /\ KeptOn(d) \in SUBSET Companies /\ IsFiniteSet(KeptOn(d))
         /\ Reports!Kept(d) = [v \in KeptOn(d) |-> Reports!Closing(d).rows[v]]
         /\ \A v \in KeptOn(d) : Reports!Closing(d).rows[v] \in Assessed
<1>1. KeptOn(d) \in SUBSET Companies /\ IsFiniteSet(KeptOn(d))
  BY RowsOfToday, CompaniesFinite, FS_Subset DEF KeptOn
<1>2. Reports!Kept(d) = [v \in KeptOn(d) |-> Reports!Closing(d).rows[v]]
  BY DEF Reports!Kept, Reports!Restrict, KeptOn
<1>3. ASSUME NEW v \in KeptOn(d) PROVE Reports!Closing(d).rows[v] \in Assessed
  <2>1. v \in DOMAIN Reports!Closing(d).rows
    BY DEF KeptOn
  <2>2. PICK D : Reports!Closing(d).rows \in [D -> Assessed]
    BY ClosingType DEF Closed
  <2> QED BY <2>1, <2>2
<1> QED BY <1>1, <1>2, <1>3

\* What the dashboard says today of a vendor.
LEMMA RowToday ==
  ASSUME NEW v \in Reports!Listed
  PROVE  /\ v \in DOMAIN Reports!assess_vendors
         /\ Reports!assess_vendors[v].is_mapped = (company[v].is = "mapped")
         /\ company[v].is = "mapped" =>
              Reports!assess_vendors[v].tier = Risk!MATRIX[company[v].threat][company[v].exposure]
         /\ Reports!assess_vendors[v].cve_count = company[v].cve_count
         /\ Reports!assess_vendors[v].kev_count = company[v].kev_count
<1> DEFINE none == "Not Assessed"
           row(u) ==
             LET c == company[u]
             IN [is_mapped |-> c.is = "mapped", threat |-> c.threat, exposure |-> c.exposure,
                 tier |-> IF c.is = "mapped" THEN Risk!MATRIX[c.threat][c.exposure] ELSE none,
                 cve_count |-> c.cve_count, kev_count |-> c.kev_count]
<1>1. Reports!assess_vendors = [u \in Reports!Listed |-> row(u)]
  BY Zenon DEF Reports!assess_vendors
<1> HIDE DEF none
<1>2. /\ row(v).is_mapped = (company[v].is = "mapped")
      /\ company[v].is = "mapped" => row(v).tier = Risk!MATRIX[company[v].threat][company[v].exposure]
      /\ row(v).cve_count = company[v].cve_count /\ row(v).kev_count = company[v].kev_count
  OBVIOUS
<1> HIDE DEF row
<1> QED BY <1>1, <1>2

\* What the snapshots say of a vendor on the list and of a day.
LEMMA ThatDay ==
  ASSUME TrendInv, NEW v \in Reports!Listed, NEW d \in 1 .. day, <<v, d>> \notin late
  PROVE  LET c == Reports!Closing(d) IN
         /\ v \in DOMAIN c.rows /\ c.rows[v].is_mapped /\ v \notin c.changed =>
              \E s \in Newest(Of(v), d) : Agrees(s, c.rows[v])
         /\ ~(v \in DOMAIN c.rows /\ c.rows[v].is_mapped) => \A s \in Of(v) : s.day > d
<1>1. v \in Companies /\ OnList(v) /\ Remembers(v) /\ day \in Nat
  BY DEF Reports!Listed, OnList, TrendInv, VendorTrend, PortfolioTypeOK
<1>2. CASE d < day
  <2>1. Reports!Closing(d) = closing[d] /\ d \in 1 .. day - 1
    BY <1>1, <1>2 DEF Reports!Closing
  <2>2. Remembered(v, d)
    BY <1>1, <2>1 DEF Remembers
  <2> QED BY <2>1, <2>2 DEF Remembered
<1>3. CASE d = day
  <2>1. Reports!Closing(d) = [rows |-> Reports!assess_vendors, changed |-> changed]
    BY <1>1, <1>3 DEF Reports!Closing
  <2>2. Current(v)
    BY <1>1 DEF Remembers
  <2>3. company[v].is = "mapped" \/ company[v].is = "listed"
    BY <1>1 DEF OnList
  <2> DEFINE row == Reports!assess_vendors[v]
  <2>4. /\ v \in DOMAIN Reports!assess_vendors /\ row.is_mapped = (company[v].is = "mapped")
        /\ row.cve_count = company[v].cve_count /\ row.kev_count = company[v].kev_count
        /\ company[v].is = "mapped" => row.tier = Risk!MATRIX[company[v].threat][company[v].exposure]
    BY RowToday
  <2> HIDE DEF row
  <2>5. company[v].is = "mapped" /\ v \notin changed => \E s \in Newest(Of(v), day) : Agrees(s, row)
    BY <2>2, <2>4 DEF Current, Agrees
  <2>6. company[v].is # "mapped" => Of(v) = {}
    BY <2>2, <2>3 DEF Current
  <2>7. Reports!Closing(d).rows[v] = row /\ DOMAIN Reports!Closing(d).rows = DOMAIN Reports!assess_vendors
          /\ Reports!Closing(d).changed = changed
    BY <2>1 DEF row
  <2>8. v \in DOMAIN Reports!Closing(d).rows
    BY <2>4, <2>7
  <2>9. row.is_mapped /\ v \notin changed => \E s \in Newest(Of(v), d) : Agrees(s, row)
    BY <1>3, <2>4, <2>5, Zenon
  <2>10. ~row.is_mapped => \A s \in Of(v) : s.day > d
    BY <2>4, <2>6, Zenon
  <2> QED BY <2>7, <2>8, <2>9, <2>10
<1> QED BY <1>1, <1>2, <1>3

\* Each vendor counted on day d has one snapshot that says what the report said.
LEMMA OneSnapshotEach ==
  ASSUME TrendInv, NEW d \in 1 .. day, Reports!Known(d)
  PROVE  \E f \in [KeptOn(d) -> taken] :
           /\ \A v \in KeptOn(d) : f[v].vendor = v /\ Agrees(f[v], Reports!Closing(d).rows[v])
           /\ UNION {Reports!latest(v, d) : v \in Companies} = {f[v] : v \in KeptOn(d)}
<1> DEFINE K == KeptOn(d)
           L(v) == Reports!latest(v, d)
           f == [v \in K |-> CHOOSE s \in L(v) : Agrees(s, Reports!Closing(d).rows[v])]
<1>1. PortfolioTypeOK /\ \A v \in Companies : Counted(v) /\ Stranger(v)
  BY DEF TrendInv, VendorTrend
<1>2. K \in SUBSET Reports!Listed /\ K \in SUBSET Companies /\ DOMAIN Reports!Kept(d) = K
  BY <1>1, KeptRows DEF KeptOn
<1>3. \A v \in Companies : L(v) = Newest(Of(v), d) /\ L(v) \subseteq Of(v) /\ \A s, r \in L(v) : s = r
  <2> SUFFICES ASSUME NEW v \in Companies
               PROVE  L(v) = Newest(Of(v), d) /\ L(v) \subseteq Of(v) /\ \A s, r \in L(v) : s = r
    OBVIOUS
  <2>1. L(v) = Newest(Of(v), d) /\ L(v) \subseteq Of(v)
    BY DEF Reports!latest, Of, Newest
  <2>2. \A s \in Of(v) : s.at \in Int
    BY <1>1 DEF Counted
  <2>3. ASSUME NEW s \in L(v), NEW r \in L(v) PROVE s = r
    <3>1. r.at <= s.at /\ s.at <= r.at
      BY DEF Reports!latest
    <3>2. s \in Of(v) /\ r \in Of(v) /\ s.at \in Int /\ r.at \in Int
      BY <2>1, <2>2
    <3>3. s.at = r.at
      BY <3>1, <3>2
    <3> QED BY <1>1, <3>2, <3>3 DEF Counted
  <2> QED BY <2>1, <2>3
<1>4. ASSUME NEW v \in K PROVE \E s \in L(v) : Agrees(s, Reports!Closing(d).rows[v])
  <2>1. v \in Reports!Listed /\ <<v, d>> \notin late /\ v \notin Reports!Closing(d).changed
    BY <1>2 DEF Reports!Known
  <2>2. \E s \in Newest(Of(v), d) : Agrees(s, Reports!Closing(d).rows[v])
    BY <2>1, ThatDay DEF KeptOn
  <2> QED BY <1>2, <1>3, <2>2
<1>5. ASSUME NEW v \in Companies, v \notin K PROVE L(v) = {}
  <2>1. CASE v \notin Reports!Listed
    <3>1. ~OnList(v)
      BY <2>1 DEF OnList, Reports!Listed
    <3> QED BY <1>1, <1>3, <3>1 DEF Stranger
  <2>2. CASE v \in Reports!Listed
    <3>1. <<v, d>> \notin late
      BY <2>2 DEF Reports!Known
    <3>2. \A s \in Of(v) : s.day > d
      BY <1>5, <2>2, <3>1, ThatDay DEF KeptOn
    <3>3. \A s \in L(v) : s \in Of(v) /\ s.day <= d /\ s.day \in Int
      BY <1>1, <1>3 DEF Reports!latest, PortfolioTypeOK
    <3> QED BY <3>2, <3>3
  <2> QED BY <2>1, <2>2
<1>6. \A v \in K : f[v] \in L(v) /\ Agrees(f[v], Reports!Closing(d).rows[v])
  BY <1>4
<1> HIDE DEF f
<1>7. \A v \in K : f[v] \in taken /\ f[v].vendor = v
  BY <1>2, <1>3, <1>6 DEF Of
<1>8. f \in [K -> taken]
  BY <1>7 DEF f
<1>9. UNION {L(v) : v \in Companies} = {f[v] : v \in K}
  <2>1. ASSUME NEW s \in UNION {L(v) : v \in Companies} PROVE s \in {f[v] : v \in K}
    <3>1. PICK v \in Companies : s \in L(v)
      OBVIOUS
    <3>2. v \in K
      BY <1>5, <3>1
    <3>3. s = f[v]
      BY <1>2, <1>3, <1>6, <3>1, <3>2
    <3> QED BY <3>2, <3>3
  <2>2. ASSUME NEW v \in K PROVE f[v] \in UNION {L(u) : u \in Companies}
    BY <1>2, <1>6
  <2> QED BY <2>1, <2>2
<1> QED BY <1>6, <1>7, <1>8, <1>9

OfTier(rows, g) == {v \in DOMAIN rows : rows[v].tier = g}

\* The heat map counts every vendor of a tier once.
LEMMA HeatmapCounts ==
  ASSUME NEW K, IsFiniteSet(K), NEW rows \in [K -> Assessed], \A v \in K : rows[v].is_mapped, NEW g
  PROVE  Reports!vendors_in({c \in Reports!heatmap(rows) : c.tier = g}) = Cardinality(OfTier(rows, g))
<1> DEFINE cell(t, e) == Reports!Cell(rows, t, e)
           entry(p) == [tier |-> Risk!MATRIX[p[1]][p[2]], threat |-> p[1], exposure |-> p[2],
                        count |-> Cardinality(cell(p[1], p[2]))]
           P == Reports!Threats \X Exposures
           Q == {p \in P : Risk!MATRIX[p[1]][p[2]] = g}
           C == {c \in Reports!heatmap(rows) : c.tier = g}
<1>1. IsFiniteSet(P) /\ IsFiniteSet(Q)
  BY CompaniesFinite, FS_Product, FS_Subset
<1>2. C = {entry(p) : p \in Q}
  <2>1. Reports!heatmap(rows) = {entry(p) : p \in P}
    <3>1. \A c : c \in Reports!heatmap(rows) <=>
            \E t \in Reports!Threats, e \in Exposures :
              c = [tier |-> Risk!MATRIX[t][e], threat |-> t, exposure |-> e, count |-> Cardinality(cell(t, e))]
      BY ReportsCount DEF Reports!heatmap
    <3>2. ASSUME NEW t \in Reports!Threats, NEW e \in Exposures
          PROVE  <<t, e>> \in P /\ entry(<<t, e>>) =
                   [tier |-> Risk!MATRIX[t][e], threat |-> t, exposure |-> e, count |-> Cardinality(cell(t, e))]
      OBVIOUS
    <3>3. ASSUME NEW p \in P PROVE p[1] \in Reports!Threats /\ p[2] \in Exposures
      OBVIOUS
    <3>4. \A p \in P : entry(p) = [tier |-> Risk!MATRIX[p[1]][p[2]], threat |-> p[1], exposure |-> p[2],
                                   count |-> Cardinality(cell(p[1], p[2]))]
      OBVIOUS
    <3> HIDE DEF P, cell, entry
    <3>5. \A p \in P : entry(p) \in Reports!heatmap(rows)
      BY <3>1, <3>3, <3>4
    <3>6. ASSUME NEW c \in Reports!heatmap(rows) PROVE \E p \in P : c = entry(p)
      <4>1. PICK t \in Reports!Threats, e \in Exposures :
              c = [tier |-> Risk!MATRIX[t][e], threat |-> t, exposure |-> e, count |-> Cardinality(cell(t, e))]
        BY <3>1
      <4>2. <<t, e>> \in P /\ c = entry(<<t, e>>)
        BY <3>2, <4>1
      <4> QED BY <4>2
    <3> QED BY <3>5, <3>6
  <2>2. \A p \in P : entry(p).tier = Risk!MATRIX[p[1]][p[2]]
    OBVIOUS
  <2> HIDE DEF entry
  <2> QED BY <2>1, <2>2
<1>3. IsFiniteSet(C)
  <2> HIDE DEF entry, Q, C
  <2> DEFINE cellOf == [p \in Q |-> entry(p)]
  <2>1. cellOf \in Surjection(Q, C)
    BY <1>2 DEF Surjection
  <2> QED BY <1>1, <2>1, FS_Surjection
<1>4. \A c \in C : \E p \in Q : c.threat = p[1] /\ c.exposure = p[2] /\ c = entry(p)
  BY <1>2
<1>5. \A c \in C : c.count = Cardinality(cell(c.threat, c.exposure))
  <2> SUFFICES ASSUME NEW c \in C PROVE c.count = Cardinality(cell(c.threat, c.exposure))
    OBVIOUS
  <2>1. PICK p \in Q : c.threat = p[1] /\ c.exposure = p[2] /\ c = entry(p)
    BY <1>4
  <2>2. c.count = Cardinality(cell(p[1], p[2]))
    BY <2>1
  <2> HIDE DEF C, cell
  <2> QED BY <2>1, <2>2
<1>6. \A c, b \in C : c # b => c.threat # b.threat \/ c.exposure # b.exposure
  <2> SUFFICES ASSUME NEW c \in C, NEW b \in C, c.threat = b.threat, c.exposure = b.exposure PROVE c = b
    OBVIOUS
  <2>1. PICK p \in Q : c.threat = p[1] /\ c.exposure = p[2] /\ c = entry(p)
    BY <1>4
  <2>2. PICK q \in Q : b.threat = q[1] /\ b.exposure = q[2] /\ b = entry(q)
    BY <1>4
  <2>3. p[1] = q[1] /\ p[2] = q[2]
    BY <2>1, <2>2
  <2>4. entry(p) = entry(q)
    BY <2>3
  <2> HIDE DEF entry
  <2> QED BY <2>1, <2>2, <2>4
<1> DEFINE M == [c \in C |-> cell(c.threat, c.exposure)]
           w == [c \in C |-> c.count]
<1>7. \A t, e : cell(t, e) = {v \in K : rows[v].is_mapped /\ rows[v].threat = t /\ rows[v].exposure = e}
  BY DEF Reports!Cell
<1> HIDE DEF cell
<1>8. \A c \in C : M[c] = cell(c.threat, c.exposure) /\ IsFiniteSet(M[c]) /\ Cardinality(M[c]) \in Nat
  <2> HIDE DEF C
  <2>1. \A c \in C : M[c] = cell(c.threat, c.exposure) /\ M[c] \in SUBSET K
    BY <1>7
  <2> HIDE DEF M
  <2> QED BY <2>1, FS_Subset, FS_CardinalityType
<1>9. \A c, b \in C : c # b => M[c] \cap M[b] = {}
  <2> SUFFICES ASSUME NEW c \in C, NEW b \in C, c # b, NEW v \in M[c], v \in M[b] PROVE FALSE
    OBVIOUS
  <2>1. v \in cell(c.threat, c.exposure) /\ v \in cell(b.threat, b.exposure)
    BY <1>8
  <2>2. rows[v].threat = c.threat /\ rows[v].threat = b.threat /\ rows[v].exposure = c.exposure
          /\ rows[v].exposure = b.exposure
    BY <1>7, <2>1
  <2> QED BY <1>6, <2>2
<1>10. \A c \in C : w[c] = c.count /\ w[c] = Cardinality(M[c])
  <2> HIDE DEF C, M
  <2> QED BY <1>5, <1>8
<1>11. UNION {M[c] : c \in C} = {v \in K : rows[v].tier = g}
  <2>1. ASSUME NEW c \in C, NEW v \in M[c] PROVE v \in K /\ rows[v].tier = g
    <3>1. v \in K /\ rows[v].is_mapped /\ rows[v].threat = c.threat /\ rows[v].exposure = c.exposure
      BY <1>7, <1>8, <2>1
    <3>2. rows[v].tier = Risk!MATRIX[rows[v].threat][rows[v].exposure]
      BY <3>1 DEF Assessed
    <3>3. PICK p \in Q : c.threat = p[1] /\ c.exposure = p[2]
      BY <1>4
    <3> QED BY <3>1, <3>2, <3>3
  <2>2. ASSUME NEW v \in K, rows[v].tier = g PROVE \E c \in C : v \in M[c]
    <3>1. rows[v] \in Assessment /\ rows[v].threat \in Reports!Threats
            /\ rows[v].tier = Risk!MATRIX[rows[v].threat][rows[v].exposure]
      BY DEF Assessed
    <3>2. rows[v].exposure \in Exposures
      BY <3>1 DEF Assessment
    <3> DEFINE p == <<rows[v].threat, rows[v].exposure>>
               c == entry(p)
    <3>3. p \in Q
      BY <2>2, <3>1, <3>2
    <3>4. c \in C
      BY <1>2, <3>3
    <3>5. c.threat = rows[v].threat /\ c.exposure = rows[v].exposure
      OBVIOUS
    <3>6. v \in cell(c.threat, c.exposure)
      <4> HIDE DEF c
      <4> QED BY <1>7, <3>5
    <3>7. v \in M[c]
      <4> HIDE DEF c, C, M
      <4> QED BY <1>8, <3>4, <3>6
    <3> QED BY <3>4, <3>7
  <2> HIDE DEF C, M
  <2> QED BY <2>1, <2>2
<1>12. w \in [C -> Nat]
  <2> HIDE DEF C, M
  <2> QED BY <1>8, <1>10
<1> HIDE DEF C, M, w, Q, P
<1>13. PICK h : IsSum(h, w, C)
  BY <1>3, <1>12, SumsExist
<1>14. h[C] = Cardinality(UNION {M[c] : c \in C})
  <2>1. Apart(M, w, C)
    BY <1>8, <1>9, <1>10 DEF Apart
  <2> QED BY <1>3, <1>13, <2>1, SumOfSizes
<1>15. Reports!vendors_in(C) = h[C]
  <2>1. \A c \in C : w[c] = c.count
    BY <1>10
  <2> QED BY <1>3, <1>12, <1>13, <2>1, CellsAreSum
<1>16. Reports!vendors_in(C) = Cardinality({v \in K : rows[v].tier = g})
  BY <1>11, <1>14, <1>15, Zenon
<1>17. OfTier(rows, g) = {v \in K : rows[v].tier = g}
  BY DEF OfTier
<1> QED BY <1>16, <1>17, Zenon DEF C

\* The trend and the report of one day say the same.
LEMMA OnePoint ==
  ASSUME TrendInv, NEW d \in 1 .. day, Reports!Known(d)
  PROVE  Reports!Point(d) =
           [total_cves |-> Reports!total_cves(Reports!Kept(d)),
            kev_vendors |-> Reports!kev_exposed(Reports!Kept(d)),
            tier_distribution |->
              [g \in Tiers |-> Reports!vendors_in({c \in Reports!heatmap(Reports!Kept(d)) : c.tier = g})]]
<1> DEFINE K == KeptOn(d)
           rows == Reports!Kept(d)
           snaps == UNION {Reports!latest(v, d) : v \in Companies}
<1>1. PICK f \in [K -> taken] :
        /\ \A v \in K : f[v].vendor = v /\ Agrees(f[v], Reports!Closing(d).rows[v])
        /\ snaps = {f[v] : v \in K}
  BY OneSnapshotEach
<1>2. /\ IsFiniteSet(K) /\ rows \in [K -> Assessed]
      /\ \A v \in K : rows[v] = Reports!Closing(d).rows[v] /\ rows[v] \in Assessed
  BY KeptRows DEF TrendInv
<1>3. \A v \in K : rows[v].is_mapped
  BY <1>2 DEF KeptOn
<1>4. Reports!Point(d) =
        [total_cves |-> Reports!cves_in(snaps), kev_vendors |-> Cardinality({s \in snaps : s.kev_count > 0}),
         tier_distribution |-> [g \in Tiers |-> Cardinality({s \in snaps : s.tier = g})]]
  BY ReportsCount, Zenon DEF Reports!Point
<1>5. Reports!kev_exposed(rows) = Cardinality({v \in DOMAIN rows : rows[v].kev_count # 0})
  BY ReportsCount DEF Reports!kev_exposed
<1> HIDE DEF K, rows, snaps
<1>6. \A v \in K : /\ f[v] \in snaps /\ f[v].vendor = v /\ f[v].tier = rows[v].tier
                   /\ f[v].cve_count = rows[v].cve_count /\ f[v].kev_count = rows[v].kev_count
                   /\ rows[v].cve_count \in Nat /\ rows[v].kev_count \in Nat
  BY <1>1, <1>2 DEF Agrees, Assessed, Assessment
<1>7. Renames(f, K, snaps)
  BY <1>1, <1>6 DEF Renames
<1>8. DOMAIN rows = K
  BY <1>2
<1>9. Reports!total_cves(rows) = Reports!cves_in(snaps)
  <2> DEFINE w == [v \in K |-> rows[v].cve_count]
             u == [s \in snaps |-> s.cve_count]
  <2>1. w \in [K -> Nat] /\ \A v \in K : w[v] = rows[v].cve_count
    BY <1>6
  <2>2. u \in [snaps -> Nat] /\ (\A s \in snaps : u[s] = s.cve_count) /\ \A v \in K : u[f[v]] = w[v]
    BY <1>1, <1>6
  <2>3. IsFiniteSet(snaps)
    BY <1>2, <1>7, SameSize
  <2> HIDE DEF w, u
  <2>4. PICK h : IsSum(h, w, K)
    BY <1>2, <2>1, SumsExist
  <2>5. PICK k : IsSum(k, u, snaps)
    BY <2>2, <2>3, SumsExist
  <2>6. k[snaps] = h[K]
    BY <1>2, <1>7, <2>2, <2>4, <2>5, SumRenamed
  <2>7. Reports!total_cves(rows) = h[K]
    BY <1>2, <1>8, <2>1, <2>4, TotalIsSum
  <2>8. Reports!cves_in(snaps) = k[snaps]
    BY <2>2, <2>3, <2>5, SnapshotsAreSum
  <2> QED BY <2>6, <2>7, <2>8
<1>10. Reports!kev_exposed(rows) = Cardinality({s \in snaps : s.kev_count > 0})
  <2> DEFINE R == {v \in K : rows[v].kev_count # 0}
             Z == {s \in snaps : s.kev_count > 0}
  <2>1. Renames(f, R, Z)
    <3>1. \A v \in R : f[v] \in Z
      BY <1>6
    <3>2. \A s \in Z : \E v \in R : s = f[v]
      BY <1>1, <1>6
    <3>3. \A x, y \in R : f[x] = f[y] => x = y
      BY <1>6
    <3> HIDE DEF R, Z
    <3>4. Z = {f[v] : v \in R}
      BY <3>1, <3>2
    <3> QED BY <3>3, <3>4 DEF Renames
  <2>2. IsFiniteSet(R)
    BY <1>2, FS_Subset
  <2>3. Cardinality(Z) = Cardinality(R)
    <3> HIDE DEF R, Z
    <3> QED BY <2>1, <2>2, SameSize
  <2> QED BY <1>5, <1>8, <2>3, Zenon
<1>11. ASSUME NEW g \in Tiers
       PROVE  Reports!vendors_in({c \in Reports!heatmap(rows) : c.tier = g}) = Cardinality({s \in snaps : s.tier = g})
  <2> DEFINE R == {v \in K : rows[v].tier = g}
             Z == {s \in snaps : s.tier = g}
  <2>1. Renames(f, R, Z)
    <3>1. \A v \in R : f[v] \in Z
      BY <1>6
    <3>2. \A s \in Z : \E v \in R : s = f[v]
      BY <1>1, <1>6
    <3>3. \A x, y \in R : f[x] = f[y] => x = y
      BY <1>6
    <3> HIDE DEF R, Z
    <3>4. Z = {f[v] : v \in R}
      BY <3>1, <3>2
    <3> QED BY <3>3, <3>4 DEF Renames
  <2>2. IsFiniteSet(R)
    BY <1>2, FS_Subset
  <2>3. Cardinality(Z) = Cardinality(R)
    <3> HIDE DEF R, Z
    <3> QED BY <2>1, <2>2, SameSize
  <2>4. Reports!vendors_in({c \in Reports!heatmap(rows) : c.tier = g}) = Cardinality(R)
    <3>1. R = OfTier(rows, g)
      BY <1>8 DEF OfTier
    <3>2. Reports!vendors_in({c \in Reports!heatmap(rows) : c.tier = g}) = Cardinality(OfTier(rows, g))
      BY <1>2, <1>3, HeatmapCounts
    <3> QED BY <3>1, <3>2, Zenon
  <2> QED BY <2>3, <2>4, Zenon
<1>12. [g \in Tiers |-> Reports!vendors_in({c \in Reports!heatmap(rows) : c.tier = g})]
         = [g \in Tiers |-> Cardinality({s \in snaps : s.tier = g})]
  BY <1>11, Zenon
<1>13. Reports!Point(d) =
         [total_cves |-> Reports!total_cves(rows), kev_vendors |-> Reports!kev_exposed(rows),
          tier_distribution |-> [g \in Tiers |-> Reports!vendors_in({c \in Reports!heatmap(rows) : c.tier = g})]]
  BY <1>4, <1>9, <1>10, <1>12, Zenon
<1> QED BY <1>13 DEF rows

LEMMA TrendTrue == TrendInv => TrendMatchesDashboard
<1> SUFFICES ASSUME TrendInv, NEW d \in DOMAIN Reports!portfolio_trend, Reports!Known(d)
             PROVE  Reports!portfolio_trend[d] =
                      [total_cves |-> Reports!total_cves(Reports!Kept(d)),
                       kev_vendors |-> Reports!kev_exposed(Reports!Kept(d)),
                       tier_distribution |->
                         [g \in Tiers |-> Reports!vendors_in({c \in Reports!heatmap(Reports!Kept(d)) : c.tier = g})]]
  BY Zenon DEF TrendMatchesDashboard, Reports!TrendMatchesDashboard
<1> DEFINE D == {e \in Reports!SnapshotDays : Reports!Max(Reports!SnapshotDays) - e <= TrendDays}
<1>1. Reports!portfolio_trend = [e \in D |-> Reports!Point(e)]
  BY Zenon DEF Reports!portfolio_trend
<1>2. D \subseteq Reports!SnapshotDays
  OBVIOUS
<1> HIDE DEF D
<1>3. d \in D /\ Reports!portfolio_trend[d] = Reports!Point(d)
  BY <1>1
<1>4. d \in 1 .. day
  BY <1>2, <1>3 DEF Reports!SnapshotDays, TrendInv, PortfolioTypeOK
<1> QED BY <1>3, <1>4, OnePoint, Zenon

LEMMA RestingSync == Reports!Resting \in [at : Nat, day : Nat]
BY DEF Reports!Resting

LEMMA TrendInitially == Reports!Init => TrendInv
<1> SUFFICES ASSUME Reports!Init PROVE TrendInv
  OBVIOUS
<1>1. Reports!Unlisted \in Company /\ Reports!Unlisted.is = "unlisted"
  BY ReportAssumptions DEF Reports!Unlisted, Company, Reports!BandAssumption
<1>2. company = [v \in Companies |-> Reports!Unlisted] /\ taken = {} /\ closing = <<>> /\ changed = {} /\ late = {}
        /\ day = 1 /\ begun = [v \in Companies |-> Reports!Resting]
  BY DEF Reports!Init
<1>3. PortfolioTypeOK
  <2>1. company \in [Companies -> Company] /\ \A v \in Companies : company[v].is # "mapped"
    BY <1>1, <1>2
  <2>2. begun \in [Companies -> [at : Nat, day : Nat]]
    BY <1>2, RestingSync
  <2>3. closing \in Seq(Closed) /\ Len(closing) = day - 1 /\ day \in Nat \ {0}
    BY <1>2
  <2> QED BY <1>2, <2>1, <2>2, <2>3, FS_EmptySet DEF PortfolioTypeOK
<1>4. ASSUME NEW v \in Companies PROVE VendorTrend(v)
  <2>1. company[v].is = "unlisted" /\ begun[v] = Reports!Resting /\ Of(v) = {}
    BY <1>1, <1>2 DEF Of
  <2>2. ~OnList(v) /\ 1 .. day - 1 = {}
    BY <1>2, <2>1 DEF OnList
  <2> QED BY <2>1, <2>2 DEF VendorTrend, Counted, Stranger, Remembers
<1> QED BY <1>3, <1>4 DEF TrendInv

\* A vendor whose own rows stay as they are.
LEMMA OtherVendors ==
  ASSUME NEW u, VendorTrend(u), company'[u] = company[u], Of(u)' = Of(u), begun'[u] = begun[u],
         u \in changed' <=> u \in changed, \A d : <<u, d>> \in late => <<u, d>> \in late', UNCHANGED <<day, closing>>
  PROVE  VendorTrend(u)'
<1>1. Counted(u)'
  BY DEF VendorTrend, Counted, OnList, Reports!Resting
<1>2. Stranger(u)'
  BY DEF VendorTrend, Stranger, OnList
<1>3. Remembers(u)'
  <2> SUFFICES ASSUME OnList(u) PROVE Current(u)' /\ \A d \in 1 .. day - 1 : <<u, d>> \notin late' => Remembered(u, d)'
    BY DEF Remembers, OnList
  <2>1. Current(u) /\ \A d \in 1 .. day - 1 : <<u, d>> \notin late => Remembered(u, d)
    BY DEF VendorTrend, Remembers
  <2>2. Current(u)'
    BY <2>1 DEF Current, Newest
  <2>3. \A d \in 1 .. day - 1 : <<u, d>> \notin late' => Remembered(u, d)'
    BY <2>1 DEF Remembered, Newest, Agrees
  <2> QED BY <2>2, <2>3
<1> QED BY <1>1, <1>2, <1>3 DEF VendorTrend

\* A vendor's row is written.
LEMMA CompanyWritten ==
  ASSUME PortfolioTypeOK, NEW v \in Companies, NEW c \in Company, c.is = "mapped" => c.threat \in Reports!Threats,
         company' = [company EXCEPT ![v] = c]
  PROVE  /\ company' \in [Companies -> Company]
         /\ \A u \in Companies : company'[u].is = "mapped" => company'[u].threat \in Reports!Threats
         /\ company'[v] = c /\ \A u \in Companies : u # v => company'[u] = company[u]
<1>1. /\ company' \in [Companies -> Company] /\ company'[v] = c
      /\ \A u \in Companies : u # v => company'[u] = company[u]
  BY DEF PortfolioTypeOK
<1> QED BY <1>1 DEF PortfolioTypeOK

LEMMA AddKeepsTrend ==
  ASSUME TrendInv, NEW v \in Companies, Reports!Add(v)
  PROVE  TrendInv'
<1> DEFINE c == [company[v] EXCEPT !.is = "listed"]
<1>1. PortfolioTypeOK /\ VendorTrend(v)
  BY DEF TrendInv
<1>2. /\ company[v].is = "unlisted" /\ company' = [company EXCEPT ![v] = c]
      /\ UNCHANGED <<taken, begun, day, closing, changed, late>>
  BY DEF Reports!Add
<1>3. company[v] \in Company
  BY <1>1 DEF PortfolioTypeOK
<1>4. c \in Company /\ c.is = "listed"
  BY <1>3 DEF Company
<1> HIDE DEF c
<1>5. /\ company' \in [Companies -> Company]
      /\ \A u \in Companies : company'[u].is = "mapped" => company'[u].threat \in Reports!Threats
      /\ company'[v] = c /\ \A u \in Companies : u # v => company'[u] = company[u]
  BY <1>1, <1>2, <1>4, CompanyWritten
<1>6. PortfolioTypeOK'
  BY <1>1, <1>2, <1>5 DEF PortfolioTypeOK
<1>7. ASSUME NEW u \in Companies, u # v PROVE VendorTrend(u)'
  <2>1. Of(u)' = Of(u)
    BY <1>2 DEF Of
  <2>2. VendorTrend(u)
    BY DEF TrendInv
  <2> QED BY <1>2, <1>5, <1>7, <2>1, <2>2, OtherVendors
<1>8. VendorTrend(v)'
  <2>1. ~OnList(v) /\ Of(v) = {} /\ begun[v] = Reports!Resting
          /\ \A d \in 1 .. day - 1 : v \notin DOMAIN closing[d].rows
    BY <1>1, <1>2 DEF OnList, VendorTrend, Counted, Stranger
  <2>2. company'[v].is = "listed" /\ Of(v)' = {}
    BY <1>2, <1>4, <1>5, <2>1 DEF Of
  <2>3. Counted(v)'
    BY <1>2, <2>1, <2>2 DEF Counted, Reports!Resting
  <2>4. Stranger(v)'
    BY <2>2 DEF Stranger
  <2>5. Remembers(v)'
    BY <1>2, <2>1, <2>2 DEF Remembers, Current, Remembered
  <2> QED BY <2>3, <2>4, <2>5 DEF VendorTrend
<1> QED BY <1>6, <1>7, <1>8 DEF TrendInv

LEMMA DeleteKeepsTrend ==
  ASSUME TrendInv, NEW v \in Companies, Reports!Delete(v)
  PROVE  TrendInv'
<1> DEFINE c == [Reports!Unlisted EXCEPT !.is = "deleted"]
<1>1. PortfolioTypeOK /\ VendorTrend(v)
  BY DEF TrendInv
<1>2. /\ company' = [company EXCEPT ![v] = c] /\ taken' = {s \in taken : s.vendor # v}
      /\ begun' = [begun EXCEPT ![v] = Reports!Resting] /\ UNCHANGED <<day, closing, changed, late>>
  BY DEF Reports!Delete
<1>3. c \in Company /\ c.is = "deleted"
  BY ReportAssumptions DEF Reports!Unlisted, Company, Reports!BandAssumption
<1> HIDE DEF c
<1>4. /\ company' \in [Companies -> Company]
      /\ \A u \in Companies : company'[u].is = "mapped" => company'[u].threat \in Reports!Threats
      /\ company'[v] = c /\ \A u \in Companies : u # v => company'[u] = company[u]
  BY <1>1, <1>2, <1>3, CompanyWritten
<1>5. IsFiniteSet(taken') /\ taken' \subseteq taken
  BY <1>1, <1>2, FS_Subset DEF PortfolioTypeOK
<1>6. /\ begun' \in [Companies -> [at : Nat, day : Nat]] /\ begun'[v] = Reports!Resting
      /\ \A u \in Companies : u # v => begun'[u] = begun[u]
  BY <1>1, <1>2, RestingSync DEF PortfolioTypeOK
<1>7. PortfolioTypeOK'
  BY <1>1, <1>2, <1>4, <1>5, <1>6 DEF PortfolioTypeOK
<1>8. ASSUME NEW u \in Companies, u # v PROVE VendorTrend(u)'
  <2>1. Of(u)' = Of(u)
    BY <1>2, <1>8 DEF Of
  <2>2. VendorTrend(u)
    BY DEF TrendInv
  <2> QED BY <1>2, <1>4, <1>6, <1>8, <2>1, <2>2, OtherVendors
<1>9. VendorTrend(v)'
  <2>1. company'[v].is = "deleted" /\ Of(v)' = {} /\ begun'[v] = Reports!Resting'
    BY <1>2, <1>3, <1>4, <1>6 DEF Of, Reports!Resting
  <2> QED BY <2>1 DEF VendorTrend, Counted, Stranger, Remembers, OnList
<1> QED BY <1>7, <1>8, <1>9 DEF TrendInv

LEMMA BeginKeepsTrend ==
  ASSUME TrendInv, NEW v \in Companies, Reports!Begin(v)
  PROVE  TrendInv'
<1> DEFINE b == [at |-> 1 + Cardinality(Of(v)), day |-> day]
<1>1. PortfolioTypeOK /\ VendorTrend(v) /\ day \in 1 .. day
  BY DEF TrendInv, PortfolioTypeOK
<1>2. /\ v \in Reports!Listed /\ begun' = [begun EXCEPT ![v] = b]
      /\ UNCHANGED <<company, taken, day, closing, changed, late>>
  BY ReportsCount DEF Reports!Begin, Of
<1>3. Cardinality(Of(v)) \in Nat
  BY <1>1, FS_Subset, FS_CardinalityType DEF Of, PortfolioTypeOK
<1>4. b \in [at : Nat, day : Nat] /\ b.at = 1 + Cardinality(Of(v)) /\ b.day = day
  BY <1>1, <1>3 DEF PortfolioTypeOK
<1> HIDE DEF b
<1>5. /\ begun' \in [Companies -> [at : Nat, day : Nat]] /\ begun'[v] = b
      /\ \A u \in Companies : u # v => begun'[u] = begun[u]
  BY <1>1, <1>2, <1>4 DEF PortfolioTypeOK
<1>6. PortfolioTypeOK'
  BY <1>1, <1>2, <1>5 DEF PortfolioTypeOK
<1>7. \A u \in Companies : Of(u)' = Of(u)
  BY <1>2 DEF Of
<1>8. ASSUME NEW u \in Companies, u # v PROVE VendorTrend(u)'
  <2>1. VendorTrend(u)
    BY DEF TrendInv
  <2> QED BY <1>2, <1>5, <1>7, <1>8, <2>1, OtherVendors
<1>9. VendorTrend(v)'
  <2>1. Stranger(v)'
    BY <1>1, <1>2, <1>7 DEF VendorTrend, Stranger, OnList
  <2>2. Remembers(v)'
    BY <1>1, <1>2, <1>7 DEF VendorTrend, Remembers, OnList, Current, Remembered, Newest, Agrees
  <2>3. Counted(v)'
    <3>1. OnList(v)'
      BY <1>2 DEF Reports!Listed, OnList
    <3>2. begun'[v].at = 1 + Cardinality(Of(v)') /\ begun'[v].day \in 1 .. day'
      BY <1>1, <1>2, <1>4, <1>5, <1>7
    <3> QED BY <1>1, <1>7, <3>1, <3>2 DEF VendorTrend, Counted
  <2> QED BY <2>1, <2>2, <2>3 DEF VendorTrend
<1> QED BY <1>6, <1>8, <1>9 DEF TrendInv

LEMMA FailKeepsTrend ==
  ASSUME TrendInv, NEW v \in Companies, Reports!Fail(v)
  PROVE  TrendInv'
<1>1. PortfolioTypeOK /\ VendorTrend(v)
  BY DEF TrendInv
<1>2. begun' = [begun EXCEPT ![v] = Reports!Resting] /\ UNCHANGED <<company, taken, day, closing, changed, late>>
  BY DEF Reports!Fail
<1>3. /\ begun' \in [Companies -> [at : Nat, day : Nat]] /\ begun'[v] = Reports!Resting
      /\ \A u \in Companies : u # v => begun'[u] = begun[u]
  BY <1>1, <1>2, RestingSync DEF PortfolioTypeOK
<1>4. PortfolioTypeOK'
  BY <1>1, <1>2, <1>3 DEF PortfolioTypeOK
<1>5. \A u \in Companies : Of(u)' = Of(u)
  BY <1>2 DEF Of
<1>6. ASSUME NEW u \in Companies, u # v PROVE VendorTrend(u)'
  <2>1. VendorTrend(u)
    BY DEF TrendInv
  <2> QED BY <1>2, <1>3, <1>5, <1>6, <2>1, OtherVendors
<1>7. VendorTrend(v)'
  <2>1. Stranger(v)'
    BY <1>1, <1>2, <1>5 DEF VendorTrend, Stranger, OnList
  <2>2. Remembers(v)'
    BY <1>1, <1>2, <1>5 DEF VendorTrend, Remembers, OnList, Current, Remembered, Newest, Agrees
  <2>3. Counted(v)'
    BY <1>1, <1>3, <1>5 DEF VendorTrend, Counted, Reports!Resting
  <2> QED BY <2>1, <2>2, <2>3 DEF VendorTrend
<1> QED BY <1>4, <1>6, <1>7 DEF TrendInv

\* A snapshot is the newest of its vendor, of the days from its own on.
LEMMA NewestAdded ==
  ASSUME NEW S, \A r \in S : r.at \in Int, NEW s, s.at \in Int, \A r \in S : r.at < s.at, s.day \in Int, NEW d \in Int
  PROVE  /\ s.day <= d => s \in Newest(S \cup {s}, d)
         /\ d < s.day => Newest(S \cup {s}, d) = Newest(S, d)
<1>1. s.day <= d => s \in Newest(S \cup {s}, d)
  BY DEF Newest
<1>2. ASSUME d < s.day PROVE Newest(S \cup {s}, d) = Newest(S, d)
  BY <1>2 DEF Newest
<1> QED BY <1>1, <1>2

LEMMA CommitKeepsTrend ==
  ASSUME TrendInv, NEW v \in Companies, NEW found \in Facts, Reports!Commit(v, found)
  PROVE  TrendInv'
<1> DEFINE exposure == company[v].exposure
           c == [is |-> "mapped", threat |-> found.threat, exposure |-> exposure,
                 cve_count |-> found.cve_count, kev_count |-> found.kev_count]
           tier == Risk!MATRIX[found.threat][exposure]
           new == [vendor |-> v, at |-> begun[v].at, day |-> begun[v].day, tier |-> tier,
                   cve_count |-> found.cve_count, kev_count |-> found.kev_count]
           n == Cardinality(Of(v))
<1>1. PortfolioTypeOK /\ VendorTrend(v)
  BY DEF TrendInv
<1>2. /\ begun[v] # Reports!Resting /\ company' = [company EXCEPT ![v] = c] /\ taken' = taken \cup {new}
      /\ begun' = [begun EXCEPT ![v] = Reports!Resting] /\ changed' = changed \ {v}
      /\ late' = late \cup {<<v, d>> : d \in begun[v].day .. day - 1} /\ UNCHANGED <<day, closing>>
  BY DEF Reports!Commit
<1>3. /\ found.threat \in Reports!Threats /\ found.cve_count \in Nat /\ found.kev_count \in Nat
      /\ company[v].exposure \in Exposures
  BY <1>1, ReportAssumptions DEF Reports!BandAssumption, Reports!Threats, PortfolioTypeOK, Company
<1>4. OnList(v) /\ begun[v].at = 1 + n /\ begun[v].day \in 1 .. day
  BY <1>1, <1>2 DEF VendorTrend, Counted
<1>5. n \in Nat /\ IsFiniteSet(Of(v)) /\ day \in Nat
  BY <1>1, FS_Subset, FS_CardinalityType DEF Of, PortfolioTypeOK
<1>6. /\ new.vendor = v /\ new.at = 1 + n /\ new.day = begun[v].day /\ new.tier = tier
      /\ new.cve_count = found.cve_count /\ new.kev_count = found.kev_count
  BY <1>4
<1>7. /\ c \in Company /\ c.is = "mapped" /\ c.threat = found.threat /\ c.exposure = exposure
      /\ c.cve_count = found.cve_count /\ c.kev_count = found.kev_count
  BY <1>3 DEF Company
<1> HIDE DEF c, new, n
<1>8. /\ company' \in [Companies -> Company]
      /\ \A u \in Companies : company'[u].is = "mapped" => company'[u].threat \in Reports!Threats
      /\ company'[v] = c /\ \A u \in Companies : u # v => company'[u] = company[u]
  BY <1>1, <1>2, <1>3, <1>7, CompanyWritten
<1>9. /\ begun' \in [Companies -> [at : Nat, day : Nat]] /\ begun'[v] = Reports!Resting
      /\ \A u \in Companies : u # v => begun'[u] = begun[u]
  BY <1>1, <1>2, RestingSync DEF PortfolioTypeOK
<1>10. PortfolioTypeOK'
  <2>1. IsFiniteSet(taken')
    BY <1>1, <1>2, FS_AddElement DEF PortfolioTypeOK
  <2>2. \A s \in taken' : s.vendor \in Companies /\ s.day \in 1 .. day /\ s.cve_count \in Nat /\ s.kev_count \in Nat
    BY <1>1, <1>2, <1>3, <1>4, <1>6 DEF PortfolioTypeOK
  <2>3. late' \subseteq Companies \X (1 .. day - 1)
    <3>1. \A d \in begun[v].day .. day - 1 : <<v, d>> \in Companies \X (1 .. day - 1)
      BY <1>4, <1>5
    <3> QED BY <1>1, <1>2, <3>1 DEF PortfolioTypeOK
  <2>4. changed' \in SUBSET Companies
    BY <1>1, <1>2 DEF PortfolioTypeOK
  <2> QED BY <1>1, <1>2, <1>8, <1>9, <2>1, <2>2, <2>3, <2>4 DEF PortfolioTypeOK
<1>11. ASSUME NEW u \in Companies, u # v PROVE VendorTrend(u)'
  <2>1. Of(u)' = Of(u)
    BY <1>2, <1>6, <1>11 DEF Of
  <2>2. VendorTrend(u)
    BY DEF TrendInv
  <2>3. u \in changed' <=> u \in changed
    BY <1>2, <1>11
  <2>4. \A d : <<u, d>> \in late => <<u, d>> \in late'
    BY <1>2
  <2> QED BY <1>2, <1>8, <1>9, <1>11, <2>1, <2>2, <2>3, <2>4, OtherVendors
<1>12. VendorTrend(v)'
  <2>1. Of(v)' = Of(v) \cup {new}
    BY <1>2, <1>6 DEF Of
  <2>2. /\ \A s \in Of(v) : s.at \in 1 .. n
        /\ \A s, r \in Of(v) : s.at = r.at => s = r
    BY <1>1 DEF VendorTrend, Counted, n
  <2>3. (\A s \in Of(v) : s.at \in Int /\ s.at < new.at) /\ new.at \in Int
    BY <1>5, <1>6, <2>2
  <2>4. new \notin Of(v)
    BY <2>3
  <2>5. Cardinality(Of(v)') = n + 1
    BY <1>5, <2>1, <2>4, FS_AddElement DEF n
  <2>6. Counted(v)'
    <3>1. \A s \in Of(v)' : s.at \in 1 .. Cardinality(Of(v)')
      BY <1>5, <1>6, <2>1, <2>2, <2>5
    <3>2. ASSUME NEW s \in Of(v)', NEW r \in Of(v)', s.at = r.at PROVE s = r
      <4>1. (s \in Of(v) \/ s = new) /\ (r \in Of(v) \/ r = new)
        BY <2>1
      <4>2. s \in Of(v) => s.at \in Int /\ s.at < new.at
        BY <2>3
      <4>3. r \in Of(v) => r.at \in Int /\ r.at < new.at
        BY <2>3
      <4> QED BY <2>2, <2>3, <3>2, <4>1, <4>2, <4>3
    <3> QED BY <1>9, <3>1, <3>2 DEF Counted, Reports!Resting
  <2>7. OnList(v)'
    BY <1>7, <1>8 DEF OnList
  <2>8. Stranger(v)'
    BY <1>7, <1>8, <2>7 DEF Stranger
  <2>9. Current(v)'
    <3>1. new.day \in Int /\ new.day <= day /\ day \in Int
      BY <1>4, <1>5, <1>6
    <3>2. new \in Newest(Of(v) \cup {new}, day)
      BY <2>3, <3>1, NewestAdded
    <3>3. new \in Newest(Of(v), day)'
      BY <1>2, <2>1, <3>2 DEF Newest
    <3>4. /\ new.tier = Risk!MATRIX[company'[v].threat][company'[v].exposure]
          /\ new.cve_count = company'[v].cve_count /\ new.kev_count = company'[v].kev_count
      BY <1>6, <1>7, <1>8
    <3>5. company'[v].is = "mapped"
      BY <1>7, <1>8
    <3> QED BY <3>3, <3>4, <3>5 DEF Current
  <2>10. ASSUME NEW d \in 1 .. day - 1, <<v, d>> \notin late' PROVE Remembered(v, d)'
    <3>1. <<v, d>> \notin late /\ d \notin begun[v].day .. day - 1
      BY <1>2, <2>10
    <3>2. d < new.day /\ d \in Int /\ new.day \in Int
      BY <1>4, <1>5, <1>6, <3>1
    <3>3. Remembered(v, d)
      BY <1>1, <1>4, <3>1 DEF VendorTrend, Remembers
    <3>4. Newest(Of(v) \cup {new}, d) = Newest(Of(v), d)
      BY <2>3, <3>2, NewestAdded
    <3>5. Newest(Of(v), d)' = Newest(Of(v), d)
      <4>1. Newest(Of(v), d)' = Newest(Of(v)', d)
        BY DEF Newest
      <4> QED BY <2>1, <3>4, <4>1
    <3>6. closing' = closing
      BY <1>2
    <3> QED BY <2>1, <3>2, <3>3, <3>5, <3>6 DEF Remembered, Agrees
  <2>11. Remembers(v)'
    BY <1>2, <2>9, <2>10 DEF Remembers
  <2> QED BY <2>6, <2>8, <2>11 DEF VendorTrend
<1> QED BY <1>10, <1>11, <1>12 DEF TrendInv

LEMMA ChangeKeepsTrend ==
  ASSUME TrendInv, NEW v \in Companies, NEW e \in Exposures, NEW t \in Reports!Threats \cup {"none"},
         t = company[v].threat \/ t \in Reports!Threats, Reports!Change(v, e, t)
  PROVE  TrendInv'
<1> DEFINE k == IF t = "T4" THEN 1 ELSE IF company[v].threat = "T4" THEN 0 ELSE company[v].kev_count
           c == [company[v] EXCEPT !.exposure = e, !.threat = t, !.kev_count = k]
<1>1. PortfolioTypeOK /\ VendorTrend(v)
  BY DEF TrendInv
<1>2. /\ v \in Reports!Listed /\ company' = [company EXCEPT ![v] = c] /\ changed' = changed \cup {v}
      /\ UNCHANGED <<taken, begun, day, closing, late>>
  BY DEF Reports!Change
<1>3. company[v] \in Company /\ (company[v].is = "mapped" => company[v].threat \in Reports!Threats)
  BY <1>1 DEF PortfolioTypeOK
<1>4. k \in Nat
  BY <1>3 DEF Company
<1> HIDE DEF k
<1>5. c \in Company /\ c.is = company[v].is /\ c.threat = t
  BY <1>3, <1>4 DEF Company
<1> HIDE DEF c
<1>6. c.is = "mapped" => c.threat \in Reports!Threats
  BY <1>3, <1>5
<1>7. /\ company' \in [Companies -> Company]
      /\ \A u \in Companies : company'[u].is = "mapped" => company'[u].threat \in Reports!Threats
      /\ company'[v] = c /\ \A u \in Companies : u # v => company'[u] = company[u]
  BY <1>1, <1>2, <1>5, <1>6, CompanyWritten
<1>8. PortfolioTypeOK'
  BY <1>1, <1>2, <1>7 DEF PortfolioTypeOK
<1>9. \A u \in Companies : Of(u)' = Of(u)
  BY <1>2 DEF Of
<1>10. ASSUME NEW u \in Companies, u # v PROVE VendorTrend(u)'
  <2>1. VendorTrend(u)
    BY DEF TrendInv
  <2>2. u \in changed' <=> u \in changed
    BY <1>2, <1>10
  <2> QED BY <1>2, <1>7, <1>9, <1>10, <2>1, <2>2, OtherVendors
<1>11. VendorTrend(v)'
  <2>1. OnList(v) /\ OnList(v)'
    BY <1>2, <1>5, <1>7 DEF OnList, Reports!Listed
  <2>2. Counted(v)'
    BY <1>1, <1>2, <1>9, <2>1 DEF VendorTrend, Counted, Reports!Resting
  <2>3. Stranger(v)'
    BY <2>1 DEF Stranger, OnList
  <2>4. Current(v)'
    <3>1. Current(v) /\ company'[v].is = company[v].is
      BY <1>1, <1>5, <1>7, <2>1 DEF VendorTrend, Remembers
    <3>2. v \in changed'
      BY <1>2
    <3> QED BY <1>9, <3>1, <3>2 DEF Current
  <2>5. \A d \in 1 .. day - 1 : <<v, d>> \notin late => Remembered(v, d)'
    BY <1>1, <1>2, <1>9, <2>1 DEF VendorTrend, Remembers, Remembered, Newest, Agrees
  <2> QED BY <1>2, <2>2, <2>3, <2>4, <2>5 DEF VendorTrend, Remembers
<1> QED BY <1>8, <1>10, <1>11 DEF TrendInv

LEMMA MidnightKeepsTrend ==
  ASSUME TrendInv, Reports!Midnight
  PROVE  TrendInv'
<1> DEFINE today_s == [rows |-> Reports!assess_vendors, changed |-> changed]
<1>1. PortfolioTypeOK /\ day \in Nat \ {0} /\ closing \in Seq(Closed) /\ Len(closing) = day - 1
  BY DEF TrendInv, PortfolioTypeOK
<1>2. day' = day + 1 /\ closing' = Append(closing, today_s) /\ UNCHANGED <<company, taken, begun, changed, late>>
  BY DEF Reports!Midnight
<1>3. today_s \in Closed /\ today_s.rows = Reports!assess_vendors /\ today_s.changed = changed
  BY <1>1, RowsOfToday
<1> HIDE DEF today_s
<1>4. /\ closing' \in Seq(Closed) /\ Len(closing') = day /\ closing'[day] = today_s
      /\ \A d \in 1 .. day - 1 : closing'[d] = closing[d]
  BY <1>1, <1>2, <1>3
<1>5. PortfolioTypeOK'
  <2>1. \A s \in taken : s.day \in 1 .. day'
    BY <1>1, <1>2 DEF PortfolioTypeOK
  <2>2. late \subseteq Companies \X (1 .. day' - 1)
    <3>1. \A x \in Companies \X (1 .. day - 1) : x \in Companies \X (1 .. day' - 1)
      BY <1>1, <1>2
    <3> QED BY <1>1, <3>1 DEF PortfolioTypeOK
  <2>3. day' \in Nat \ {0} /\ Len(closing') = day' - 1
    BY <1>1, <1>2, <1>4
  <2> QED BY <1>1, <1>2, <1>4, <2>1, <2>2, <2>3 DEF PortfolioTypeOK
<1>6. ASSUME NEW v \in Companies PROVE VendorTrend(v)'
  <2>1. VendorTrend(v) /\ Of(v)' = Of(v)
    BY <1>2 DEF TrendInv, Of
  <2>2. OnList(v)' <=> OnList(v)
    BY <1>2 DEF OnList
  <2>3. Counted(v)'
    BY <1>1, <1>2, <2>1, <2>2 DEF VendorTrend, Counted, Reports!Resting
  <2>4. v \in Reports!Listed <=> OnList(v)
    BY DEF Reports!Listed, OnList
  <2>5. DOMAIN Reports!assess_vendors = Reports!Listed
    BY <1>1, RowsOfToday
  <2>6. 1 .. day' - 1 = (1 .. day - 1) \cup {day}
    BY <1>1, <1>2
  <2>7. Stranger(v)'
    <3> SUFFICES ASSUME company[v].is = "unlisted", NEW d \in 1 .. day' - 1
                 PROVE  v \notin DOMAIN closing'[d].rows
      BY <1>2, <2>1, <2>2 DEF VendorTrend, Stranger
    <3>1. CASE d \in 1 .. day - 1
      BY <1>4, <2>1, <3>1 DEF VendorTrend, Stranger
    <3>2. CASE d = day
      <4>1. ~OnList(v)
        BY DEF OnList
      <4> QED BY <1>3, <1>4, <2>4, <2>5, <3>2, <4>1
    <3> QED BY <2>6, <3>1, <3>2
  <2>8. ASSUME OnList(v) PROVE Current(v)' /\ \A d \in 1 .. day' - 1 : <<v, d>> \notin late => Remembered(v, d)'
    <3>1. Current(v) /\ \A d \in 1 .. day - 1 : <<v, d>> \notin late => Remembered(v, d)
      BY <2>1, <2>8 DEF VendorTrend, Remembers
    <3>2. Newest(Of(v), day)' = Newest(Of(v), day)
      <4>1. \A s \in Of(v) : s.day \in Int /\ s.day <= day /\ s.day <= day'
        BY <1>1, <1>2 DEF Of, PortfolioTypeOK
      <4> QED BY <2>1, <4>1 DEF Newest
    <3>3. Current(v)'
      BY <1>2, <2>1, <3>1, <3>2 DEF Current
    <3>4. ASSUME NEW d \in 1 .. day - 1, <<v, d>> \notin late PROVE Remembered(v, d)'
      <4>1. Remembered(v, d) /\ closing'[d] = closing[d]
        BY <1>4, <3>1, <3>4
      <4> QED BY <2>1, <4>1 DEF Remembered, Newest, Agrees
    <3>5. ASSUME NEW d, d = day PROVE Remembered(v, d)'
      <4> DEFINE row == closing'[day].rows[v]
      <4>1. closing'[day].rows = Reports!assess_vendors /\ closing'[day].changed = changed
        BY <1>3, <1>4
      <4>2. v \in DOMAIN closing'[day].rows /\ row = Reports!assess_vendors[v]
        BY <2>4, <2>5, <2>8, <4>1
      <4>3. /\ row.is_mapped = (company[v].is = "mapped")
            /\ row.cve_count = company[v].cve_count /\ row.kev_count = company[v].kev_count
            /\ company[v].is = "mapped" => row.tier = Risk!MATRIX[company[v].threat][company[v].exposure]
        BY <2>4, <2>8, <4>2, RowToday
      <4> HIDE DEF row
      <4>4. company[v].is = "mapped" /\ v \notin changed => \E s \in Newest(Of(v), day) : Agrees(s, row)
        BY <3>1, <4>3 DEF Current, Agrees
      <4>5. company[v].is # "mapped" => Of(v) = {}
        BY <2>8, <3>1 DEF Current, OnList
      <4>6. row.is_mapped /\ v \notin changed => \E s \in Newest(Of(v), day) : Agrees(s, row)
        BY <4>3, <4>4, Zenon
      <4>7. ~row.is_mapped => Of(v) = {}
        BY <4>3, <4>5, Zenon
      <4>8. ~row.is_mapped => \A s \in Of(v) : s.day > day
        BY <4>7
      <4>9. Newest(Of(v), d)' = Newest(Of(v), day)
        BY <2>1, <3>5 DEF Newest
      <4>10. closing'[d].rows[v] = row /\ closing'[d].changed = changed
        BY <3>5, <4>1 DEF row
      <4>11. (\E s \in Newest(Of(v), day) : Agrees(s, row)) => \E s \in Newest(Of(v), d)' : Agrees(s, closing'[d].rows[v])
        BY <4>9, <4>10
      <4>12. ~row.is_mapped => \A s \in Of(v)' : s.day > d
        BY <2>1, <3>5, <4>8
      <4> QED BY <1>2, <3>5, <4>2, <4>6, <4>10, <4>11, <4>12 DEF Remembered, Agrees
    <3> QED BY <2>6, <3>3, <3>4, <3>5
  <2> QED BY <1>2, <2>2, <2>3, <2>7, <2>8 DEF VendorTrend, Remembers
<1> QED BY <1>5, <1>6 DEF TrendInv

LEMMA TrendKept == TrendInv /\ [Reports!Next]_(Reports!portfolioVars) => TrendInv'
<1> SUFFICES ASSUME TrendInv, [Reports!Next]_(Reports!portfolioVars) PROVE TrendInv'
  OBVIOUS
<1>1. CASE UNCHANGED Reports!portfolioVars
  <2>1. UNCHANGED <<company, taken, begun, day, closing, changed, late>>
    BY <1>1 DEF Reports!portfolioVars
  <2>2. PortfolioTypeOK'
    BY <2>1 DEF TrendInv, PortfolioTypeOK
  <2>3. ASSUME NEW u \in Companies PROVE VendorTrend(u)'
    <3>1. VendorTrend(u) /\ Of(u)' = Of(u)
      BY <2>1 DEF TrendInv, Of
    <3> QED BY <2>1, <3>1, OtherVendors
  <2> QED BY <2>2, <2>3 DEF TrendInv
<1>2. ASSUME \E v \in Companies : Reports!Add(v) \/ Reports!Delete(v) \/ Reports!Begin(v) \/ Reports!Fail(v)
                                     \/ \E found \in Facts : Reports!Commit(v, found)
      PROVE  TrendInv'
  BY <1>2, AddKeepsTrend, DeleteKeepsTrend, BeginKeepsTrend, FailKeepsTrend, CommitKeepsTrend
<1>3. ASSUME NEW v \in Companies, NEW e \in Exposures, Reports!Change(v, e, company[v].threat)
      PROVE  TrendInv'
  <2>1. company[v].threat \in Reports!Threats \cup {"none"}
    BY DEF TrendInv, PortfolioTypeOK, Company
  <2> QED BY <1>3, <2>1, ChangeKeepsTrend
<1>4. ASSUME NEW v \in Companies, NEW f \in Facts, Reports!Change(v, company[v].exposure, f.threat)
      PROVE  TrendInv'
  <2>1. company[v].exposure \in Exposures
    BY DEF TrendInv, PortfolioTypeOK, Company
  <2>2. f.threat \in Reports!Threats
    BY ReportAssumptions DEF Reports!BandAssumption, Reports!Threats
  <2> QED BY <1>4, <2>1, <2>2, ChangeKeepsTrend
<1>5. CASE Reports!Midnight
  BY <1>5, MidnightKeepsTrend
<1> QED BY <1>1, <1>2, <1>3, <1>4, <1>5 DEF Reports!Next

\* What the trend says of a day is what dashboard, heat map and report said at its
\* end (portfolio_trend, assess_vendors), whatever syncs, days and vendors came since.
THEOREM TrendIsRemembered == Spec => []TrendMatchesDashboard
<1>1. Reports!Spec => []TrendInv
  BY TrendInitially, TrendKept, PTL DEF Reports!Spec
<1> QED BY <1>1, TrendTrue, ReportsRun, PTL
=============================================================================
