------------------------------ MODULE RiskModel ------------------------------
(* How risky a vendor is: the threat of its CVEs and the exposure of its     *)
(* contract, looked up in a matrix (core/scoring.py), over the rows that     *)
(* syncs and edits change.                                                   *)
EXTENDS Integers, FiniteSets, FiniteSetsExt

CONSTANTS
  Vendors,        \* vendors of one organisation
  Cves,           \* rows of the shared CVE cache
  Scores,         \* CVSS scores, in tenths
  Unscored,       \* a CVE without a score
  Contracts,      \* annual contract values
  Sensitivities,  \* of the data: "", "confidential", "regulated"
  Criticalities   \* to the business: "", "high"

ScoreAssumption == Scores \subseteq 0 .. 100 /\ Unscored \notin Scores
ContractAssumption == Contracts \subseteq Nat
CveAssumption == IsFiniteSet(Cves)

VARIABLES
  linked,       \* vendor_vulnerabilities: the CVEs of each vendor
  mapped,       \* vendors.is_mapped
  business,     \* the contract of each vendor
  cache         \* vulnerabilities: the score of each CVE, and whether it is exploited

riskVars == <<linked, mapped, business, cache>>

NotAssessed == "Not Assessed"
TIER_ORDER == <<NotAssessed, "Low", "Medium", "High", "Critical">>
Rank(tier) == CHOOSE i \in DOMAIN TIER_ORDER : TIER_ORDER[i] = tier

Init ==
  /\ linked = [v \in Vendors |-> {}] /\ mapped = [v \in Vendors |-> FALSE]
  /\ business = [v \in Vendors |-> [acv |-> 0, sensitivity |-> "", criticality |-> ""]]
  /\ cache = [c \in Cves |-> [score |-> Unscored, kev |-> FALSE]]
------------------------------------------------------------------------------
(* core/scoring.py                                                           *)

MATRIX ==
  [T4 |-> [E1 |-> "High",   E2 |-> "High",   E3 |-> "Critical", E4 |-> "Critical"],
   T3 |-> [E1 |-> "Medium", E2 |-> "High",   E3 |-> "High",     E4 |-> "Critical"],
   T2 |-> [E1 |-> "Low",    E2 |-> "Medium", E3 |-> "Medium",   E4 |-> "High"],
   T1 |-> [E1 |-> "Low",    E2 |-> "Low",    E3 |-> "Low",      E4 |-> "Medium"]]

\* A CVE without a score is left out, never taken for a score of 0.
scored(cves) == {c \in cves : cache[c].score # Unscored}
AtLeast(cves, s) == {c \in scored(cves) : cache[c].score >= s}
kevs(cves) == {c \in cves : cache[c].kev}

\* Mutant of threat_band: exactly three CVEs of 7.0 and more.
threat_exactly(cves) ==
  CASE kevs(cves) # {} -> "T4"
    [] kevs(cves) = {} /\ (AtLeast(cves, 90) # {} \/ Cardinality(AtLeast(cves, 70)) = 3) -> "T3"
    [] kevs(cves) = {} /\ AtLeast(cves, 90) = {} /\ Cardinality(AtLeast(cves, 70)) \in {1, 2} -> "T2"
    [] OTHER -> "T1"
threat_band(cves) ==
  IF kevs(cves) # {} THEN "T4"
  ELSE IF AtLeast(cves, 90) # {} \/ Cardinality(AtLeast(cves, 70)) >= 3 THEN "T3"
  ELSE IF AtLeast(cves, 70) # {} THEN "T2" ELSE "T1"

exposure_band(b) ==
  IF b.sensitivity = "regulated" \/ b.acv >= 500000 THEN "E4"
  ELSE IF b.sensitivity = "confidential" \/ b.acv >= 100000 \/ b.criticality = "high" THEN "E3"
  ELSE IF b.acv >= 25000 THEN "E2" ELSE "E1"

\* A vendor that is not mapped never enters the matrix.
final_tier(v) ==
  IF mapped[v] THEN MATRIX[threat_band(linked[v])][exposure_band(business[v])] ELSE NotAssessed
------------------------------------------------------------------------------
(* What changes it.  A first sync that fails maps nothing, a later one takes  *)
(* nothing away: neither is a step.                                          *)

\* A sync maps the vendor, writes the CVEs that it finds to the cache and links
\* them; it takes no link away.  (Rows that no vendor here has are left out.)
Found(cves) == [cves -> [score : Scores \cup {Unscored}, kev : BOOLEAN]]
Sync(v, found) ==
  /\ mapped' = [mapped EXCEPT ![v] = TRUE]
  /\ linked' = [linked EXCEPT ![v] = @ \cup DOMAIN found]
  /\ cache' = [c \in Cves |-> IF c \in DOMAIN found THEN found[c] ELSE cache[c]]
  /\ UNCHANGED business

\* update_vendor changes the contract, one column at a time here.
Edit(v, contract) ==
  /\ business' = [business EXCEPT ![v] = contract]
  /\ UNCHANGED <<linked, mapped, cache>>

Next ==
  \/ \E v \in Vendors, cves \in SUBSET Cves : Cardinality(cves) <= 1 /\ \E found \in Found(cves) : Sync(v, found)
  \/ \E v \in Vendors, acv \in Contracts : Edit(v, [business[v] EXCEPT !.acv = acv])
  \/ \E v \in Vendors, s \in Sensitivities : Edit(v, [business[v] EXCEPT !.sensitivity = s])
  \/ \E v \in Vendors, k \in Criticalities : Edit(v, [business[v] EXCEPT !.criticality = k])

Spec == Init /\ [][Next]_riskVars
------------------------------------------------------------------------------
(* Properties.                                                               *)

\* The cache and the contract get no better for v: no score falls or goes away.
NoBetter(v) ==
  /\ business'[v].acv >= business[v].acv
  /\ business'[v].sensitivity \in {business[v].sensitivity, "regulated"}
  /\ business'[v].criticality \in {business[v].criticality, "high"}
  /\ \A c \in linked[v] :
       /\ cache[c].kev => cache'[c].kev
       /\ cache[c].score # Unscored => (cache'[c].score # Unscored /\ cache'[c].score >= cache[c].score)
\* More CVEs, higher scores, an exploit or a larger contract never make a vendor
\* look safer, and neither does a sync: no input falls between two bands of
\* scoring.py.
RiskNeverFalls == [][\A v \in Vendors : NoBetter(v) => Rank(final_tier(v)') >= Rank(final_tier(v))]_riskVars
=============================================================================
