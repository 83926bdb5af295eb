------------------------------ MODULE Portfolio ------------------------------
(* What an organisation is told about all its vendors: the dashboard, its    *)
(* heat map and the report of the moment (dashboard_service.py and           *)
(* export_service.py), and the trend, made of the snapshots that syncs have  *)
(* left (snapshot_service.py).  A day is a day of UTC.                       *)
EXTENDS Integers, Sequences, FiniteSets, FiniteSetsExt, Functions

CONSTANTS
  Companies,      \* vendors of the organisation
  Matrix,         \* scoring.MATRIX: threat and exposure to tier
  Grades,         \* TIER_ORDER, as a set
  Exposures,      \* the exposure bands of the contracts that are looked at
  Facts,          \* what the linked CVEs can come to: [threat, cve_count, kev_count]
  TrendDays,      \* how many days before its last one the trend goes back
  LastDay,        \* bound: days
  MaxTaken,       \* bound: snapshots
  MaxUntaken      \* bound: changes that no snapshot is taken of

TrendAssumption == TrendDays \in Nat \ {0} /\ LastDay \in Nat
CompanyAssumption == IsFiniteSet(Companies)
\* A contract that nothing is known of has the lowest exposure.
BandAssumption ==
  /\ IsFiniteSet(DOMAIN Matrix) /\ IsFiniteSet(Exposures) /\ "E1" \in Exposures
  /\ Facts \subseteq [threat : DOMAIN Matrix, cve_count : Nat, kev_count : Nat]

VARIABLES
  company,      \* vendors, with what their linked CVEs come to
  taken,        \* risk_snapshots
  begun,        \* captured_at of each vendor's running sync: how many snapshots it has, and the day
  day,          \* today
  closing,      \* history: the assessments at the end of each day
  changed,      \* history: vendors changed since their last snapshot
  late,         \* history: <<v, d>>: a snapshot of d came when d was over
  untaken       \* history: what MaxUntaken bounds

portfolioVars == <<company, taken, begun, day, closing, changed, late, untaken>>

Threats == DOMAIN Matrix
Resting == [at |-> 0, day |-> 0]
Unlisted == [is |-> "unlisted", threat |-> "none", exposure |-> "E1", cve_count |-> 0, kev_count |-> 0]

Init ==
  /\ company = [v \in Companies |-> Unlisted] /\ taken = {}
  /\ begun = [v \in Companies |-> Resting] /\ day = 1
  /\ closing = <<>> /\ changed = {} /\ late = {} /\ untaken = 0

Listed == {v \in Companies : company[v].is \in {"listed", "mapped"}}

\* assess_vendors: a vendor that is not mapped never enters the matrix.
assess_vendors ==
  [v \in Listed |->
    LET c == company[v]
    IN [is_mapped |-> c.is = "mapped", threat |-> c.threat, exposure |-> c.exposure,
        tier |-> IF c.is = "mapped" THEN Matrix[c.threat][c.exposure] ELSE "Not Assessed",
        cve_count |-> c.cve_count, kev_count |-> c.kev_count]]
------------------------------------------------------------------------------
(* The dashboard and the report, of the assessments `rows`.                  *)

total_cves(rows) == MapThenSumSet(LAMBDA v : rows[v].cve_count, DOMAIN rows)

\* The assessed vendors of one cell.
Cell(rows, t, e) == {v \in DOMAIN rows : rows[v].is_mapped /\ rows[v].threat = t /\ rows[v].exposure = e}
\* The cells of the heat map, each with the tier it is coloured by.
heatmap(rows) ==
  {[tier |-> Matrix[t][e], threat |-> t, exposure |-> e, count |-> Cardinality(Cell(rows, t, e))] :
    t \in Threats, e \in Exposures}

\* portfolio_summary, of the report.
kev_exposed(rows) == Cardinality({v \in DOMAIN rows : rows[v].kev_count # 0})
------------------------------------------------------------------------------
(* The trend.                                                                *)

SnapshotDays == {s.day : s \in taken}

\* Mutant of latest: a vendor counts on the days of its snapshots only.
latest_that_day(v, d) == {s \in taken : s.vendor = v /\ s.day = d /\
  \A r \in taken : r.vendor = v /\ r.day = d => r.at <= s.at}
\* The newest snapshot of v as of day d, if any.  No two began at one instant.
latest(v, d) ==
  {s \in taken : s.vendor = v /\ s.day <= d /\ \A r \in taken : r.vendor = v /\ r.day <= d => r.at <= s.at}

cves_in(snaps) == MapThenSumSet(LAMBDA s : s.cve_count, snaps)
Point(d) ==
  LET snaps == UNION {latest(v, d) : v \in Companies}
  IN [total_cves |-> cves_in(snaps),
      kev_vendors |-> Cardinality({s \in snaps : s.kev_count > 0}),
      tier_distribution |-> [g \in Grades |-> Cardinality({s \in snaps : s.tier = g})]]

\* portfolio_trend: a point for every day that has a snapshot.
portfolio_trend ==
  [d \in {e \in SnapshotDays : Max(SnapshotDays) - e <= TrendDays} |-> Point(d)]
------------------------------------------------------------------------------
(* What changes the rows.                                                    *)

Untaken == untaken < MaxUntaken /\ untaken' = untaken + 1

Add(v) ==
  /\ company[v].is = "unlisted"
  /\ company' = [company EXCEPT ![v].is = "listed"]
  /\ UNCHANGED <<taken, begun, day, closing, changed, late, untaken>>

\* delete_vendor: its snapshots go with it.
Delete(v) ==
  /\ v \in Listed /\ Untaken
  /\ company' = [company EXCEPT ![v] = [Unlisted EXCEPT !.is = "deleted"]]
  /\ taken' = {s \in taken : s.vendor # v}
  /\ begun' = [begun EXCEPT ![v] = Resting]
  /\ UNCHANGED <<day, closing, changed, late>>

\* A sync of the vendor reads the clock, which is the captured_at of its snapshot.
Begin(v) ==
  /\ v \in Listed /\ begun[v] = Resting
  /\ begun' = [begun EXCEPT ![v] =
       [at |-> 1 + Cardinality({s \in taken : s.vendor = v}), day |-> day]]
  /\ UNCHANGED <<company, taken, day, closing, changed, late, untaken>>

\* It has worked: build_snapshot assesses the vendor as it is by now.
Commit(v, found) ==
  /\ begun[v] # Resting /\ Cardinality(taken) < MaxTaken
  /\ LET exposure == company[v].exposure
     IN /\ company' = [company EXCEPT ![v] =
             [is |-> "mapped", threat |-> found.threat, exposure |-> exposure,
              cve_count |-> found.cve_count, kev_count |-> found.kev_count]]
        /\ taken' = taken \cup {
             [vendor |-> v, at |-> begun[v].at, day |-> begun[v].day, tier |-> Matrix[found.threat][exposure],
              cve_count |-> found.cve_count, kev_count |-> found.kev_count]}
  /\ begun' = [begun EXCEPT ![v] = Resting]
  /\ changed' = changed \ {v}
  /\ late' = late \cup {<<v, d>> : d \in begun[v].day .. day - 1}
  /\ UNCHANGED <<day, closing, untaken>>

\* It has not: nothing is appended, and nothing is taken from the vendor.
Fail(v) ==
  /\ begun[v] # Resting
  /\ begun' = [begun EXCEPT ![v] = Resting]
  /\ UNCHANGED <<company, taken, day, closing, changed, late, untaken>>

\* update_vendor, or a sync of another organisation that writes the shared rows
\* of the CVEs linked to v: no snapshot is taken.
Change(v, exposure, threat) ==
  /\ v \in Listed /\ Untaken
  /\ threat # company[v].threat => company[v].is = "mapped" /\ company[v].cve_count > 0
  /\ company' = [company EXCEPT ![v].exposure = exposure, ![v].threat = threat,
       ![v].kev_count = IF threat = "T4" THEN 1 ELSE IF company[v].threat = "T4" THEN 0 ELSE @]
  /\ changed' = changed \cup {v}
  /\ UNCHANGED <<taken, begun, day, closing, late>>

Midnight ==
  /\ day < LastDay /\ day' = day + 1
  /\ closing' = Append(closing, [rows |-> assess_vendors, changed |-> changed])
  /\ UNCHANGED <<company, taken, begun, changed, late, untaken>>

Next ==
  \/ \E v \in Companies : Add(v) \/ Delete(v) \/ Begin(v) \/ Fail(v) \/ \E found \in Facts : Commit(v, found)
  \/ \E v \in Companies, e \in Exposures : Change(v, e, company[v].threat)
  \/ \E v \in Companies, f \in Facts : Change(v, company[v].exposure, f.threat)
  \/ Midnight

Spec == Init /\ [][Next]_portfolioVars
------------------------------------------------------------------------------
(* Properties.                                                               *)

Closing(d) == IF d < day THEN closing[d] ELSE [rows |-> assess_vendors, changed |-> changed]

\* The assessments at the close of day d, of the vendors that had been assessed
\* and are still there.
Kept(d) == Restrict(Closing(d).rows, {v \in Listed \cap DOMAIN Closing(d).rows : Closing(d).rows[v].is_mapped})

\* Nothing that the snapshots of day d could not know.
Known(d) ==
  /\ \A v \in Listed : <<v, d>> \notin late
  /\ DOMAIN Kept(d) \cap Closing(d).changed = {}

vendors_in(cells) == MapThenSumSet(LAMBDA c : c.count, cells)

\* What each point of the trend says of its day is what dashboard, heat map and
\* report said when that day ended, and for today what they say now: whatever
\* syncs, days without a sync and new vendors came since, they never change a
\* past day.  Vendors deleted since are left out, and a day counts unless a
\* vendor was changed after its snapshot or its sync went on past midnight.
TrendMatchesDashboard ==
  \A d \in DOMAIN portfolio_trend :
    Known(d) =>
      portfolio_trend[d] =
        [total_cves |-> total_cves(Kept(d)),
         kev_vendors |-> kev_exposed(Kept(d)),
         tier_distribution |-> [g \in Grades |-> vendors_in({c \in heatmap(Kept(d)) : c.tier = g})]]
=============================================================================
