------------------------ MODULE TenantVendors_proof ------------------------
(* Proofs about the vendors of a tenant: the settings of its organisation,   *)
(* the risk of a vendor and the vendor list.                                 *)
EXTENDS Tenant, FiniteSets, FiniteSetTheorems, FunctionTheorems, WellFoundedInduction, TLAPS

(* Each part runs as its own module says.                                    *)

LEMMA SettingsRuns == Spec => Settings!Spec
<1>1. Init => Settings!Init
  BY DEF Init
<1>2. [Next]_tenantVars => [Settings!Next]_(Settings!settingsVars)
  BY DEF Next, tenantVars, CatalogStep, SettingsStep, RiskStep, AlertsStep, AccountsStep, PhotoStep, ReportsStep,
     GoogleStep, HistoryStep, catalogVars, settingsVars, Settings!settingsVars
<1> QED BY <1>1, <1>2, PTL DEF Spec, Settings!Spec

LEMMA CatalogRuns == Spec => Catalog!Spec
<1>1. Init => Catalog!Init
  BY DEF Init
<1>2. [Next]_tenantVars => [Catalog!Next]_(Catalog!catalogVars)
  BY DEF Next, tenantVars, CatalogStep, SettingsStep, RiskStep, AlertsStep, AccountsStep, PhotoStep, ReportsStep,
     GoogleStep, HistoryStep, catalogVars, Catalog!catalogVars
<1> QED BY <1>1, <1>2, PTL DEF Spec, Catalog!Spec

LEMMA RiskRuns == Spec => Risk!Spec
<1>1. Init => Risk!Init
  BY DEF Init
<1>2. [Next]_tenantVars => [Risk!Next]_(Risk!riskVars)
  BY DEF Next, tenantVars, CatalogStep, SettingsStep, RiskStep, AlertsStep, AccountsStep, PhotoStep, ReportsStep,
     GoogleStep, HistoryStep, riskVars, Risk!riskVars
<1> QED BY <1>1, <1>2, PTL DEF Spec, Risk!Spec
------------------------------------------------------------------------------
(* OrgIntegration.                                                           *)

Row == [row : BOOLEAN, key : Keys \cup {NoKey}, verified : BOOLEAN, cadence : Hours \cup {MinHours}]
Request ==
  [pc : {"idle", "asked"}, key : Keys \cup {NoKey, Absent}, valid : BOOLEAN, hours : Hours \cup {Absent}, found : Row]
SettingsTypeOK ==
  /\ integration \in Row
  /\ admin \in [Admins -> Request]
  /\ overlapped \in BOOLEAN

\* Only what NVD has confirmed is called valid.
ValidIsConfirmed == \A a \in Admins : admin[a].valid => admin[a].key \in confirmed /\ admin[a].key \in Keys
\* Without an overlap there is one request, and what it has read is still there.
Alone ==
  ~overlapped => \A a \in Admins : admin[a].pc = "asked" =>
    admin[a].found = integration /\ \A b \in Admins : admin[b].pc = "asked" => b = a

SettingsInv == SettingsTypeOK /\ ValidIsConfirmed /\ Alone /\ Settings!KeyConfirmed

LEMMA WaitingIsIdle ==
  /\ Settings!Default \in Row /\ ~Settings!Default.verified
  /\ Settings!Waiting \in Request /\ Settings!Waiting.pc = "idle" /\ ~Settings!Waiting.valid
BY DEF Settings!Waiting, Settings!Default, Request, Row

LEMMA SettingsInitially == Settings!Init => SettingsInv
<1> SUFFICES ASSUME Settings!Init PROVE SettingsInv
  OBVIOUS
<1>1. integration = Settings!Default /\ (\A a \in Admins : admin[a] = Settings!Waiting) /\ overlapped = FALSE
  BY DEF Settings!Init
<1>2. SettingsTypeOK
  BY <1>1, WaitingIsIdle DEF Settings!Init, SettingsTypeOK
<1> QED BY <1>1, <1>2, WaitingIsIdle DEF SettingsInv, ValidIsConfirmed, Alone, Settings!KeyConfirmed

LEMMA AskKeeps ==
  ASSUME SettingsInv, NEW a \in Admins, NEW key \in Keys \cup {NoKey, Absent}, NEW valid \in BOOLEAN,
         NEW hours \in Hours \cup {Absent}, Settings!Ask(a, key, valid, hours)
  PROVE  SettingsInv'
<1> DEFINE request == [pc |-> "asked", key |-> key, valid |-> valid, hours |-> hours, found |-> integration]
<1> USE DEF SettingsInv, Settings!Ask
<1>1. admin' = [admin EXCEPT ![a] = request] /\ request \in Request /\ integration' = integration
  BY DEF SettingsTypeOK, Request
<1>2. request.pc = "asked" /\ request.key = key /\ request.valid = valid /\ request.found = integration
  OBVIOUS
<1> HIDE DEF request
<1>3. \A b \in Admins : admin'[b] = IF b = a THEN request ELSE admin[b]
  BY <1>1 DEF SettingsTypeOK
<1>4. SettingsTypeOK'
  BY <1>1 DEF SettingsTypeOK
<1>5. ValidIsConfirmed'
  BY <1>2, <1>3, SettingsAssumptions DEF ValidIsConfirmed, Settings!KeyAssumption
<1>6. Alone'
  <2>1. ~overlapped' => \A b \in Admins : admin[b].pc = "idle"
    BY DEF SettingsTypeOK, Request
  <2> QED BY <1>1, <1>2, <1>3, <2>1 DEF Alone
<1>7. Settings!KeyConfirmed'
  BY <1>1 DEF Settings!KeyConfirmed, SettingsTypeOK
<1> QED BY <1>4, <1>5, <1>6, <1>7

LEMMA SaveKeeps ==
  ASSUME SettingsInv, NEW a \in Admins, Settings!Save(a)
  PROVE  SettingsInv'
<1> DEFINE r == admin[a]
<1> USE DEF SettingsInv
<1>1. admin' = [admin EXCEPT ![a] = Settings!Waiting] /\ confirmed' = confirmed /\ overlapped' = overlapped
  BY DEF Settings!Save
<1>2. Settings!Waiting \in Request /\ Settings!Waiting.pc = "idle" /\ ~Settings!Waiting.valid
  BY WaitingIsIdle
<1>3. \A b \in Admins : admin'[b] = IF b = a THEN Settings!Waiting ELSE admin[b]
  BY <1>1 DEF SettingsTypeOK
<1>4. SettingsTypeOK'
  <2>1. integration' \in Row
    BY DEF Settings!Save, SettingsTypeOK, Request, Row, Settings!Verified
  <2> QED BY <1>1, <1>2, <2>1 DEF SettingsTypeOK
<1>5. ValidIsConfirmed'
  BY <1>1, <1>2, <1>3 DEF ValidIsConfirmed
<1>6. Alone'
  BY <1>1, <1>2, <1>3 DEF Alone, Settings!Save
<1>7. Settings!KeyConfirmed'
  <2> SUFFICES ASSUME ~overlapped, integration'.verified
               PROVE  integration'.key \in confirmed
    BY <1>1 DEF Settings!KeyConfirmed
  <2>1. r.found = integration
    BY DEF Alone, Settings!Save
  <2>2. CASE r.key = Absent
    BY <2>1, <2>2 DEF Settings!Save, Settings!Verified, Settings!KeyConfirmed
  <2>3. CASE r.key # Absent
    <3>1. r.valid
      BY <2>1, <2>3 DEF Settings!Save, Settings!Verified, SettingsTypeOK, Request, Row
    <3>2. r.key \in confirmed /\ r.key # NoKey
      BY <3>1, SettingsAssumptions DEF ValidIsConfirmed, Settings!KeyAssumption
    <3> QED BY <2>3, <3>2 DEF Settings!Save
  <2> QED BY <2>2, <2>3
<1> QED BY <1>4, <1>5, <1>6, <1>7

LEMMA SettingsKept == SettingsInv /\ [Settings!Next]_(Settings!settingsVars) => SettingsInv'
<1> SUFFICES ASSUME SettingsInv, [Settings!Next]_(Settings!settingsVars)
             PROVE  SettingsInv'
  OBVIOUS
<1>1. ASSUME NEW a \in Admins, Settings!Refused(a)
      PROVE  SettingsInv'
  BY <1>1, WaitingIsIdle
    DEF Settings!Refused, SettingsInv, SettingsTypeOK, ValidIsConfirmed, Alone, Settings!KeyConfirmed
<1>2. CASE UNCHANGED Settings!settingsVars
  BY <1>2 DEF Settings!settingsVars, SettingsInv, SettingsTypeOK, ValidIsConfirmed, Alone, Settings!KeyConfirmed
<1> QED BY <1>1, <1>2, AskKeeps, SaveKeeps DEF Settings!Next

\* A key that is shown as confirmed is the one that NVD has confirmed, as long as
\* no two changes of the settings overlap (update_integration).
THEOREM ConfirmedKeyIsStored == Spec => []KeyConfirmed
<1>1. Settings!Spec => []SettingsInv
  BY SettingsInitially, SettingsKept, PTL DEF Settings!Spec
<1>2. SettingsInv => KeyConfirmed
  BY DEF SettingsInv, KeyConfirmed
<1> QED BY <1>1, <1>2, SettingsRuns, PTL

------------------------------------------------------------------------------
(* RiskModel.                                                                *)

\* An instance counts with operators of its own, which are the same.
LEMMA RiskCounts == \A S : Risk!Cardinality(S) = Cardinality(S) /\ Risk!IsFiniteSet(S) = IsFiniteSet(S)
BY DEF Risk!Cardinality, Cardinality, Risk!IsFiniteSet, IsFiniteSet

RiskTypeOK ==
  /\ linked \in [Vendors -> SUBSET Cves]
  /\ mapped \in [Vendors -> BOOLEAN]
  /\ business \in [Vendors -> [acv : Nat, sensitivity : Sensitivities \cup {""}, criticality : Criticalities \cup {""}]]
  /\ cache \in [Cves -> [score : Scores \cup {Unscored}, kev : BOOLEAN]]

Threats == {"T1", "T2", "T3", "T4"}
Bands == {"E1", "E2", "E3", "E4"}
ThreatNo == [T1 |-> 1, T2 |-> 2, T3 |-> 3, T4 |-> 4]
BandNo == [E1 |-> 1, E2 |-> 2, E3 |-> 3, E4 |-> 4]

\* The position of each tier.
LEMMA TierRanks ==
  /\ Risk!Rank("Not Assessed") = 1 /\ Risk!Rank("Low") = 2 /\ Risk!Rank("Medium") = 3
  /\ Risk!Rank("High") = 4 /\ Risk!Rank("Critical") = 5
<1>1. DOMAIN Risk!TIER_ORDER = 1 .. 5
  BY DEF Risk!TIER_ORDER, Risk!NotAssessed
<1>2. /\ Risk!TIER_ORDER[1] = "Not Assessed" /\ Risk!TIER_ORDER[2] = "Low" /\ Risk!TIER_ORDER[3] = "Medium"
      /\ Risk!TIER_ORDER[4] = "High" /\ Risk!TIER_ORDER[5] = "Critical"
  BY DEF Risk!TIER_ORDER, Risk!NotAssessed
<1>3. \A i \in 1 .. 5 : i = 1 \/ i = 2 \/ i = 3 \/ i = 4 \/ i = 5
  OBVIOUS
<1>4. ASSUME NEW k \in 1 .. 5 PROVE Risk!Rank(Risk!TIER_ORDER[k]) = k
  <2>1. \A i \in 1 .. 5 : Risk!TIER_ORDER[i] = Risk!TIER_ORDER[k] => i = k
    BY <1>2, <1>3
  <2> QED BY <1>1, <2>1 DEF Risk!Rank
<1>5. 1 \in 1 .. 5 /\ 2 \in 1 .. 5 /\ 3 \in 1 .. 5 /\ 4 \in 1 .. 5 /\ 5 \in 1 .. 5
  OBVIOUS
<1>6. /\ Risk!Rank(Risk!TIER_ORDER[1]) = 1 /\ Risk!Rank(Risk!TIER_ORDER[2]) = 2 /\ Risk!Rank(Risk!TIER_ORDER[3]) = 3
      /\ Risk!Rank(Risk!TIER_ORDER[4]) = 4 /\ Risk!Rank(Risk!TIER_ORDER[5]) = 5
  BY <1>4, <1>5, Zenon
<1> QED BY <1>2, <1>6, Zenon

\* The matrix has its tiers in order, by row and by column.
LEMMA MatrixRises ==
  ASSUME NEW t \in Threats, NEW u \in Threats, NEW e \in Bands, NEW f \in Bands,
         ThreatNo[t] <= ThreatNo[u], BandNo[e] <= BandNo[f]
  PROVE  /\ Risk!Rank(Risk!MATRIX[t][e]) \in 2 .. 5
         /\ Risk!Rank(Risk!MATRIX[t][e]) <= Risk!Rank(Risk!MATRIX[u][f])
<1> DEFINE Table ==
      [T4 |-> [E1 |-> 4, E2 |-> 4, E3 |-> 5, E4 |-> 5], T3 |-> [E1 |-> 3, E2 |-> 4, E3 |-> 4, E4 |-> 5],
       T2 |-> [E1 |-> 2, E2 |-> 3, E3 |-> 3, E4 |-> 4], T1 |-> [E1 |-> 2, E2 |-> 2, E3 |-> 2, E4 |-> 3]]
<1>1. ASSUME NEW x \in Threats, NEW y \in Bands
      PROVE  Risk!Rank(Risk!MATRIX[x][y]) = Table[x][y]
  <2>1. CASE x = "T1"
    <3>1. Risk!MATRIX["T1"]["E1"] = "Low" /\ Risk!MATRIX["T1"]["E2"] = "Low"
      BY DEF Risk!MATRIX
    <3>2. Risk!MATRIX["T1"]["E3"] = "Low" /\ Risk!MATRIX["T1"]["E4"] = "Medium"
      BY DEF Risk!MATRIX
    <3>3. Table["T1"]["E1"] = 2 /\ Table["T1"]["E2"] = 2 /\ Table["T1"]["E3"] = 2 /\ Table["T1"]["E4"] = 3
      OBVIOUS
    <3> HIDE DEF Table
    <3> QED BY <2>1, <3>1, <3>2, <3>3, TierRanks, Zenon DEF Bands
  <2>2. CASE x = "T2"
    <3>1. Risk!MATRIX["T2"]["E1"] = "Low" /\ Risk!MATRIX["T2"]["E2"] = "Medium"
      BY DEF Risk!MATRIX
    <3>2. Risk!MATRIX["T2"]["E3"] = "Medium" /\ Risk!MATRIX["T2"]["E4"] = "High"
      BY DEF Risk!MATRIX
    <3>3. Table["T2"]["E1"] = 2 /\ Table["T2"]["E2"] = 3 /\ Table["T2"]["E3"] = 3 /\ Table["T2"]["E4"] = 4
      OBVIOUS
    <3> HIDE DEF Table
    <3> QED BY <2>2, <3>1, <3>2, <3>3, TierRanks, Zenon DEF Bands
  <2>3. CASE x = "T3"
    <3>1. Risk!MATRIX["T3"]["E1"] = "Medium" /\ Risk!MATRIX["T3"]["E2"] = "High"
      BY DEF Risk!MATRIX
    <3>2. Risk!MATRIX["T3"]["E3"] = "High" /\ Risk!MATRIX["T3"]["E4"] = "Critical"
      BY DEF Risk!MATRIX
    <3>3. Table["T3"]["E1"] = 3 /\ Table["T3"]["E2"] = 4 /\ Table["T3"]["E3"] = 4 /\ Table["T3"]["E4"] = 5
      OBVIOUS
    <3> HIDE DEF Table
    <3> QED BY <2>3, <3>1, <3>2, <3>3, TierRanks, Zenon DEF Bands
  <2>4. CASE x = "T4"
    <3>1. Risk!MATRIX["T4"]["E1"] = "High" /\ Risk!MATRIX["T4"]["E2"] = "High"
      BY DEF Risk!MATRIX
    <3>2. Risk!MATRIX["T4"]["E3"] = "Critical" /\ Risk!MATRIX["T4"]["E4"] = "Critical"
      BY DEF Risk!MATRIX
    <3>3. Table["T4"]["E1"] = 4 /\ Table["T4"]["E2"] = 4 /\ Table["T4"]["E3"] = 5 /\ Table["T4"]["E4"] = 5
      OBVIOUS
    <3> HIDE DEF Table
    <3> QED BY <2>4, <3>1, <3>2, <3>3, TierRanks, Zenon DEF Bands
  <2> QED BY <2>1, <2>2, <2>3, <2>4 DEF Threats
<1>2. Table[t][e] \in 2 .. 5
  BY DEF Threats, Bands
<1>3. Table[t][e] <= Table[u][e]
  <2>1. CASE e = "E1"
    BY <2>1 DEF Threats, ThreatNo
  <2>2. CASE e = "E2"
    BY <2>2 DEF Threats, ThreatNo
  <2>3. CASE e = "E3"
    BY <2>3 DEF Threats, ThreatNo
  <2>4. CASE e = "E4"
    BY <2>4 DEF Threats, ThreatNo
  <2> QED BY <2>1, <2>2, <2>3, <2>4 DEF Bands
<1>4. Table[u][e] <= Table[u][f]
  <2>1. CASE u = "T1"
    BY <2>1 DEF Bands, BandNo
  <2>2. CASE u = "T2"
    BY <2>2 DEF Bands, BandNo
  <2>3. CASE u = "T3"
    BY <2>3 DEF Bands, BandNo
  <2>4. CASE u = "T4"
    BY <2>4 DEF Bands, BandNo
  <2> QED BY <2>1, <2>2, <2>3, <2>4 DEF Threats
<1>5. Table[u][e] \in 2 .. 5 /\ Table[u][f] \in 2 .. 5
  BY DEF Threats, Bands
<1> HIDE DEF Table
<1> QED BY <1>1, <1>2, <1>3, <1>4, <1>5

LEMMA RiskInitially == Risk!Init => RiskTypeOK
<1> DEFINE contract == [acv |-> 0, sensitivity |-> "", criticality |-> ""]
           row == [score |-> Unscored, kev |-> FALSE]
<1>1. contract \in [acv : Nat, sensitivity : Sensitivities \cup {""}, criticality : Criticalities \cup {""}]
  OBVIOUS
<1>2. row \in [score : Scores \cup {Unscored}, kev : BOOLEAN]
  OBVIOUS
<1>3. Risk!Init => business = [v \in Vendors |-> contract] /\ cache = [c \in Cves |-> row]
  BY DEF Risk!Init
<1> HIDE DEF contract, row
<1>4. Risk!Init => linked \in [Vendors -> SUBSET Cves]
  BY DEF Risk!Init
<1>5. Risk!Init => mapped \in [Vendors -> BOOLEAN]
  BY DEF Risk!Init
<1> QED BY <1>1, <1>2, <1>3, <1>4, <1>5 DEF RiskTypeOK

\* A sync takes no CVE from a vendor and never unmaps it.
LEMMA RiskSteps ==
  ASSUME RiskTypeOK, [Risk!Next]_(Risk!riskVars)
  PROVE  /\ RiskTypeOK'
         /\ \A v \in Vendors : linked[v] \subseteq linked'[v] /\ (mapped[v] => mapped'[v])
<1>1. ASSUME NEW v \in Vendors, NEW cves \in SUBSET Cves, NEW found \in Risk!Found(cves), Risk!Sync(v, found)
      PROVE  /\ RiskTypeOK'
             /\ \A w \in Vendors : linked[w] \subseteq linked'[w] /\ (mapped[w] => mapped'[w])
  <2>1. found \in [cves -> [score : Scores \cup {Unscored}, kev : BOOLEAN]] /\ DOMAIN found = cves
    BY DEF Risk!Found
  <2>2. linked' = [linked EXCEPT ![v] = linked[v] \cup cves] /\ mapped' = [mapped EXCEPT ![v] = TRUE] /\ business' = business
    BY <1>1, <2>1 DEF Risk!Sync
  <2>3. cache' \in [Cves -> [score : Scores \cup {Unscored}, kev : BOOLEAN]]
    BY <1>1, <2>1 DEF Risk!Sync, RiskTypeOK
  <2> QED BY <2>2, <2>3 DEF RiskTypeOK
<1>2. ASSUME NEW v \in Vendors, NEW contract \in [acv : Nat, sensitivity : Sensitivities \cup {""}, criticality : Criticalities \cup {""}],
             Risk!Edit(v, contract)
      PROVE  /\ RiskTypeOK'
             /\ \A w \in Vendors : linked[w] \subseteq linked'[w] /\ (mapped[w] => mapped'[w])
  BY <1>2 DEF Risk!Edit, RiskTypeOK
<1>3. ASSUME NEW v \in Vendors
      PROVE  /\ \A acv \in Contracts : [business[v] EXCEPT !.acv = acv] \in
                  [acv : Nat, sensitivity : Sensitivities \cup {""}, criticality : Criticalities \cup {""}]
             /\ \A s \in Sensitivities : [business[v] EXCEPT !.sensitivity = s] \in
                  [acv : Nat, sensitivity : Sensitivities \cup {""}, criticality : Criticalities \cup {""}]
             /\ \A k \in Criticalities : [business[v] EXCEPT !.criticality = k] \in
                  [acv : Nat, sensitivity : Sensitivities \cup {""}, criticality : Criticalities \cup {""}]
  <2>1. business[v] \in [acv : Nat, sensitivity : Sensitivities \cup {""}, criticality : Criticalities \cup {""}]
    BY DEF RiskTypeOK
  <2>2. \A acv \in Contracts : acv \in Nat
    BY RiskAssumptions DEF Risk!ContractAssumption
  <2> QED BY <2>1, <2>2
<1>4. CASE UNCHANGED Risk!riskVars
  BY <1>4 DEF Risk!riskVars, RiskTypeOK
<1> QED BY <1>1, <1>2, <1>3, <1>4 DEF Risk!Next
\* A vendor that gets no better keeps its CVEs, its exploits and its high scores.
LEMMA ThreatRises ==
  ASSUME RiskTypeOK, [Risk!Next]_(Risk!riskVars), NEW v \in Vendors, Risk!NoBetter(v)
  PROVE  /\ Risk!threat_band(linked[v]) \in Threats /\ Risk!threat_band(linked[v])' \in Threats
         /\ ThreatNo[Risk!threat_band(linked[v])] <= ThreatNo[Risk!threat_band(linked[v])']
<1> DEFINE now == linked[v]
           new == linked'[v]
           Worse(s) == {c \in new : cache'[c].score # Unscored /\ cache'[c].score >= s}
           Kevs == {c \in new : cache'[c].kev}
<1>1. now \subseteq new /\ now \subseteq Cves /\ new \subseteq Cves
  BY RiskSteps DEF RiskTypeOK
<1>2. \A c \in now : cache[c].kev => cache'[c].kev
  BY DEF Risk!NoBetter
<1>3. \A c \in now : cache[c].score # Unscored => cache'[c].score # Unscored /\ cache'[c].score >= cache[c].score
  BY DEF Risk!NoBetter
<1>4. \A c \in Cves : cache[c].score \in Scores \cup {Unscored} /\ cache'[c].score \in Scores \cup {Unscored}
  BY RiskSteps DEF RiskTypeOK
<1>5. Risk!kevs(linked[v])' = Kevs /\ Risk!AtLeast(linked[v], 90)' = Worse(90) /\ Risk!AtLeast(linked[v], 70)' = Worse(70)
  BY DEF Risk!kevs, Risk!AtLeast, Risk!scored
<1>6. Risk!kevs(now) \subseteq Kevs
  BY <1>1, <1>2 DEF Risk!kevs
<1>7. \A s \in Nat : Risk!AtLeast(now, s) \subseteq Worse(s)
  <2> SUFFICES ASSUME NEW s \in Nat, NEW c \in Risk!AtLeast(now, s) PROVE c \in Worse(s)
    OBVIOUS
  <2>1. c \in now /\ c \in Cves /\ cache[c].score # Unscored /\ cache[c].score >= s
    BY <1>1 DEF Risk!AtLeast, Risk!scored
  <2>2. cache[c].score \in Nat /\ cache'[c].score \in Nat
    <3>1. cache'[c].score # Unscored
      BY <1>3, <2>1
    <3>2. cache[c].score \in Scores /\ cache'[c].score \in Scores
      BY <1>4, <2>1, <3>1
    <3>3. Scores \subseteq Nat
      BY RiskAssumptions DEF Risk!ScoreAssumption
    <3> QED BY <3>2, <3>3
  <2> QED BY <1>1, <1>3, <2>1, <2>2
<1>8. Risk!AtLeast(now, 90) \subseteq Worse(90) /\ Risk!AtLeast(now, 70) \subseteq Worse(70)
  BY <1>7
<1>9. IsFiniteSet(Worse(70)) /\ IsFiniteSet(Risk!AtLeast(now, 70))
  <2>1. Worse(70) \subseteq Cves /\ Risk!AtLeast(now, 70) \subseteq Cves
    BY <1>1 DEF Risk!AtLeast, Risk!scored
  <2>2. IsFiniteSet(Cves)
    BY RiskAssumptions, RiskCounts DEF Risk!CveAssumption
  <2> QED BY <2>1, <2>2, FS_Subset
<1>10. Cardinality(Risk!AtLeast(now, 70)) <= Cardinality(Worse(70))
  BY <1>8, <1>9, FS_Subset
<1>11. Cardinality(Risk!AtLeast(now, 70)) \in Nat /\ Cardinality(Worse(70)) \in Nat
  BY <1>9, FS_CardinalityType
<1> DEFINE Band(k, n, h) == IF k # {} THEN "T4" ELSE IF n # {} \/ Cardinality(h) >= 3 THEN "T3" ELSE IF h # {} THEN "T2" ELSE "T1"
<1>12. Risk!threat_band(linked[v]) = Band(Risk!kevs(now), Risk!AtLeast(now, 90), Risk!AtLeast(now, 70))
  BY RiskCounts DEF Risk!threat_band
<1>13. Risk!threat_band(linked[v])' = Band(Kevs, Worse(90), Worse(70))
  <2>1. Risk!threat_band(linked[v])' =
          IF Risk!kevs(linked[v])' # {} THEN "T4"
          ELSE IF Risk!AtLeast(linked[v], 90)' # {} \/ Risk!Cardinality(Risk!AtLeast(linked[v], 70)') >= 3 THEN "T3"
          ELSE IF Risk!AtLeast(linked[v], 70)' # {} THEN "T2" ELSE "T1"
    BY DEF Risk!threat_band
  <2> HIDE DEF Worse, Kevs
  <2> QED BY <2>1, <1>5, RiskCounts
<1>14. ASSUME NEW k, NEW n, NEW h, NEW k2, NEW n2, NEW h2, k \subseteq k2, n \subseteq n2, h \subseteq h2,
              Cardinality(h) \in Nat, Cardinality(h2) \in Nat, Cardinality(h) <= Cardinality(h2)
       PROVE  /\ Band(k, n, h) \in Threats /\ Band(k2, n2, h2) \in Threats
              /\ ThreatNo[Band(k, n, h)] <= ThreatNo[Band(k2, n2, h2)]
  <2>1. ThreatNo["T1"] = 1 /\ ThreatNo["T2"] = 2 /\ ThreatNo["T3"] = 3 /\ ThreatNo["T4"] = 4
    BY DEF ThreatNo
  <2>2. (k # {} => k2 # {}) /\ (n # {} => n2 # {}) /\ (h # {} => h2 # {}) /\ (Cardinality(h) >= 3 => Cardinality(h2) >= 3)
    BY <1>14
  <2>3. Band(k, n, h) \in Threats /\ Band(k2, n2, h2) \in Threats
    BY DEF Threats
  <2> QED BY <2>1, <2>2, <2>3
<1> HIDE DEF Worse, Kevs, Band
<1> QED BY <1>6, <1>8, <1>10, <1>11, <1>12, <1>13, <1>14
\* A contract that gets no smaller keeps its exposure.
LEMMA ExposureRises ==
  ASSUME RiskTypeOK, [Risk!Next]_(Risk!riskVars), NEW v \in Vendors, Risk!NoBetter(v)
  PROVE  /\ Risk!exposure_band(business[v]) \in Bands /\ Risk!exposure_band(business'[v]) \in Bands
         /\ BandNo[Risk!exposure_band(business[v])] <= BandNo[Risk!exposure_band(business'[v])]
<1> DEFINE b == business[v]
           c == business'[v]
<1>1. b.acv \in Nat /\ c.acv \in Nat
  <2>1. b \in [acv : Nat, sensitivity : Sensitivities \cup {""}, criticality : Criticalities \cup {""}]
    BY DEF RiskTypeOK
  <2>2. c \in [acv : Nat, sensitivity : Sensitivities \cup {""}, criticality : Criticalities \cup {""}]
    BY RiskSteps DEF RiskTypeOK
  <2> HIDE DEF b, c
  <2> QED BY <2>1, <2>2
<1>2. c.acv >= b.acv /\ c.sensitivity \in {b.sensitivity, "regulated"} /\ c.criticality \in {b.criticality, "high"}
  BY DEF Risk!NoBetter
<1> HIDE DEF b, c
<1>3. BandNo["E1"] = 1 /\ BandNo["E2"] = 2 /\ BandNo["E3"] = 3 /\ BandNo["E4"] = 4
  BY DEF BandNo
<1>4. Risk!exposure_band(b) \in Bands /\ Risk!exposure_band(c) \in Bands
  BY DEF Risk!exposure_band, Bands
<1>5. CASE b.sensitivity = "regulated" \/ b.acv >= 500000
  <2>1. Risk!exposure_band(c) = "E4"
    BY <1>1, <1>2, <1>5 DEF Risk!exposure_band
  <2> QED BY <1>3, <1>4, <2>1 DEF Bands, b, c
<1>6. CASE ~(b.sensitivity = "regulated" \/ b.acv >= 500000)
           /\ (b.sensitivity = "confidential" \/ b.acv >= 100000 \/ b.criticality = "high")
  <2>1. Risk!exposure_band(c) \in {"E3", "E4"} /\ Risk!exposure_band(b) = "E3"
    BY <1>1, <1>2, <1>6 DEF Risk!exposure_band
  <2> QED BY <1>3, <1>4, <2>1 DEF b, c
<1>7. CASE ~(b.sensitivity = "regulated" \/ b.acv >= 500000)
           /\ ~(b.sensitivity = "confidential" \/ b.acv >= 100000 \/ b.criticality = "high")
  <2>1. CASE b.acv >= 25000
    <3>1. Risk!exposure_band(c) \in {"E2", "E3", "E4"} /\ Risk!exposure_band(b) = "E2"
      BY <1>1, <1>2, <1>7, <2>1 DEF Risk!exposure_band
    <3> QED BY <1>3, <1>4, <3>1 DEF b, c
  <2>2. CASE ~(b.acv >= 25000)
    <3>1. Risk!exposure_band(b) = "E1"
      BY <1>7, <2>2 DEF Risk!exposure_band
    <3> QED BY <1>3, <1>4, <3>1 DEF b, c, Bands
  <2> QED BY <2>1, <2>2
<1> QED BY <1>5, <1>6, <1>7

LEMMA TierRises ==
  ASSUME RiskTypeOK, [Risk!Next]_(Risk!riskVars), NEW v \in Vendors, Risk!NoBetter(v)
  PROVE  Risk!Rank(Risk!final_tier(v)') >= Risk!Rank(Risk!final_tier(v))
<1> DEFINE t == Risk!threat_band(linked[v])
           u == Risk!threat_band(linked[v])'
           e == Risk!exposure_band(business[v])
           f == Risk!exposure_band(business'[v])
<1>1. Risk!final_tier(v) = IF mapped[v] THEN Risk!MATRIX[t][e] ELSE "Not Assessed"
  BY DEF Risk!final_tier, Risk!NotAssessed
<1>2. Risk!final_tier(v)' = IF mapped'[v] THEN Risk!MATRIX[u][f] ELSE "Not Assessed"
  BY DEF Risk!final_tier, Risk!NotAssessed, Risk!exposure_band, Risk!MATRIX
<1>3. mapped[v] => mapped'[v]
  BY RiskSteps
<1>4. t \in Threats /\ u \in Threats /\ ThreatNo[t] <= ThreatNo[u]
  BY ThreatRises
<1>5. e \in Bands /\ f \in Bands /\ BandNo[e] <= BandNo[f]
  BY ExposureRises
<1> HIDE DEF t, u, e, f
<1>6. /\ Risk!Rank(Risk!MATRIX[t][e]) \in 2 .. 5
      /\ Risk!Rank(Risk!MATRIX[t][e]) <= Risk!Rank(Risk!MATRIX[u][f])
  BY <1>4, <1>5, MatrixRises
<1>7. Risk!Rank(Risk!MATRIX[u][f]) \in 2 .. 5
  <2>1. ThreatNo[u] <= ThreatNo[u]
    BY <1>4 DEF ThreatNo, Threats
  <2>2. BandNo[f] <= BandNo[f]
    BY <1>5 DEF BandNo, Bands
  <2> QED BY <1>4, <1>5, <2>1, <2>2, MatrixRises
<1>8. Risk!Rank("Not Assessed") = 1
  BY TierRanks
<1> DEFINE was == Risk!Rank(Risk!MATRIX[t][e])
           is == Risk!Rank(Risk!MATRIX[u][f])
<1>9. was \in 2 .. 5 /\ is \in 2 .. 5 /\ was <= is
  BY <1>6, <1>7
<1>10. Risk!Rank(Risk!final_tier(v)) = IF mapped[v] THEN was ELSE 1
  BY <1>1, <1>8, Zenon
<1>11. Risk!Rank(Risk!final_tier(v)') = IF mapped'[v] THEN is ELSE 1
  BY <1>2, <1>8, Zenon
<1> HIDE DEF was, is
<1> QED BY <1>3, <1>9, <1>10, <1>11

\* A vendor looks no safer after a step that makes nothing about it better
\* (threat_band, exposure_band and final_tier of core/scoring.py).
THEOREM WorseNeverLooksSafer == Spec => RiskNeverFalls
<1>1. Risk!Spec => []RiskTypeOK
  <2>1. RiskTypeOK /\ [Risk!Next]_(Risk!riskVars) => RiskTypeOK'
    BY RiskSteps
  <2> QED BY <2>1, RiskInitially, PTL DEF Risk!Spec
<1>2. RiskTypeOK /\ [Risk!Next]_(Risk!riskVars)
        => [\A v \in Vendors : Risk!NoBetter(v) => Risk!Rank(Risk!final_tier(v)') >= Risk!Rank(Risk!final_tier(v))]_(Risk!riskVars)
  BY TierRises
<1> QED BY <1>1, <1>2, RiskRuns, PTL DEF Risk!Spec, RiskNeverFalls, Risk!RiskNeverFalls
------------------------------------------------------------------------------
(* VendorCatalog.                                                            *)

LEMMA CatalogCounts == \A S : Catalog!Cardinality(S) = Cardinality(S) /\ Catalog!IsFiniteSet(S) = IsFiniteSet(S)
BY DEF Catalog!Cardinality, Cardinality, Catalog!IsFiniteSet, IsFiniteSet

\* A set of numbers has a least one.
LEMMA LeastNumber ==
  ASSUME NEW S \in SUBSET Nat, S # {}
  PROVE  \E m \in S : \A n \in S : m <= n
<1> DEFINE Less == {p \in Nat \X Nat : p[1] < p[2]}
<1>1. IsWellFoundedOn(Less, Nat)
  BY NatLessThanWellFounded DEF OpToRel
<1>2. \A n, m \in Nat : n < m => <<n, m>> \in Less
  OBVIOUS
<1>3. PICK m \in S : \A n \in S : ~(<<n, m>> \in Less)
  <2> HIDE DEF Less
  <2> QED BY <1>1, WFMin
<1> HIDE DEF Less
<1>4. \A n \in S : n \in Nat /\ m \in Nat
  OBVIOUS
<1>5. \A n \in S : ~(n < m)
  BY <1>2, <1>3, <1>4, Zenon
<1> QED BY <1>4, <1>5

\* Induction up to n, over a set.
LEMMA Upward ==
  ASSUME NEW n \in Nat, NEW T, 0 \in T, \A k \in 1 .. n : k - 1 \in T => k \in T
  PROVE  \A k \in 0 .. n : k \in T
<1> DEFINE Bad == (0 .. n) \ T
<1> SUFFICES ASSUME Bad # {} PROVE FALSE
  OBVIOUS
<1>1. PICK m \in Bad : \A k \in Bad : m <= k
  <2>1. Bad \in SUBSET Nat
    OBVIOUS
  <2> HIDE DEF Bad
  <2> QED BY <2>1, LeastNumber
<1>2. m # 0 /\ m \in 0 .. n /\ m \notin T
  BY <1>1
<1>3. m \in 1 .. n /\ m - 1 \in 0 .. n /\ m - 1 < m
  BY <1>2
<1>4. m - 1 \in T
  BY <1>1, <1>3
<1> QED BY <1>2, <1>3, <1>4

\* What is built in n steps there is.
Built(g, S, start, next, n) ==
  g \in [0 .. n -> S] /\ g[0] = start /\ \A k \in 1 .. n : g[k] = next[k][g[k - 1]]

LEMMA Building ==
  ASSUME NEW S, NEW start \in S, NEW n \in Nat, NEW next \in [1 .. n -> [S -> S]]
  PROVE  \E g : Built(g, S, start, next, n)
<1> DEFINE T == {m \in 0 .. n : \E g : Built(g, S, start, next, m)}
<1>1. 0 \in T
  <2> DEFINE g == [k \in 0 .. 0 |-> start]
  <2>1. Built(g, S, start, next, 0)
    BY DEF Built
  <2> QED BY <2>1
<1>2. ASSUME NEW m \in 1 .. n, m - 1 \in T PROVE m \in T
  <2>1. PICK g : Built(g, S, start, next, m - 1)
    BY <1>2
  <2>2. m \in Nat /\ m - 1 \in Nat /\ m - 1 \in 0 .. m - 1
    OBVIOUS
  <2>3. g[m - 1] \in S /\ next[m][g[m - 1]] \in S
    BY <2>1, <2>2 DEF Built
  <2> DEFINE h == [k \in 0 .. m |-> IF k = m THEN next[m][g[m - 1]] ELSE g[k]]
  <2>4. \A k \in 0 .. m : k # m => k \in 0 .. m - 1
    BY <2>2
  <2>5. h \in [0 .. m -> S]
    BY <2>1, <2>3, <2>4 DEF Built
  <2>6. h[0] = start
    BY <2>1, <2>2 DEF Built
  <2>7. ASSUME NEW k \in 1 .. m PROVE h[k] = next[k][h[k - 1]]
    <3>1. k - 1 \in 0 .. m /\ k - 1 # m /\ k \in 0 .. m
      BY <2>2
    <3>2. h[k - 1] = g[k - 1]
      BY <3>1
    <3>3. CASE k = m
      BY <3>1, <3>2, <3>3
    <3>4. CASE k # m
      <4>1. k \in 1 .. m - 1 /\ h[k] = g[k]
        BY <2>2, <3>1, <3>4
      <4> QED BY <2>1, <3>2, <4>1 DEF Built
    <3> QED BY <3>3, <3>4
  <2>8. Built(h, S, start, next, m)
    <3> HIDE DEF h
    <3> QED BY <2>5, <2>6, <2>7 DEF Built
  <2> QED BY <2>8
<1>3. n \in T
  <2> HIDE DEF T
  <2>1. \A k \in 0 .. n : k \in T
    BY <1>1, <1>2, Upward
  <2> QED BY <2>1
<1> QED BY <1>3

Rows == [name : Names \cup {NoCpe}, cpe : Cpes \cup {NoCpe}]
\* How an import builds its list: one item after the other.
ImportList ==
  [names : SUBSET (Names \cup Catalog!existing_names), prefixes : SUBSET (Cpes \cup {NoCpe} \cup Catalog!existing_prefixes),
   new : Seq(Rows)]
Existing == [names |-> Catalog!existing_names, prefixes |-> Catalog!existing_prefixes, new |-> << >>]
Imports(g, items) ==
  g = [k \in 0 .. Len(items) |-> IF k = 0 THEN Existing ELSE Catalog!Taking(g[k - 1], items[k])]

\* An item adds one row at most.
LEMMA TakingOne ==
  ASSUME NEW acc \in ImportList, NEW item \in Catalog!Components
  PROVE  LET more == Catalog!Taking(acc, item)
         IN more \in ImportList /\ Len(more.new) <= Len(acc.new) + 1
<1> DEFINE cpe == Catalog!Normal(item.cpe)
           row == [name |-> item.name, cpe |-> cpe]
           more == [names |-> acc.names \cup {Fold[item.name]}, prefixes |-> acc.prefixes \cup {cpe},
                    new |-> Append(acc.new, row)]
<1>1. item.name \in Names /\ item.cpe \in Cpes \cup {NoCpe}
  BY DEF Catalog!Components
<1>2. cpe \in Cpes \cup {NoCpe}
  BY <1>1, CatalogAssumptions DEF Catalog!Normal, Catalog!ProductAssumption
<1>3. Fold[item.name] \in Names
  BY <1>1, CatalogAssumptions DEF Catalog!NameAssumption
<1>4. Catalog!Taking(acc, item) = acc \/ Catalog!Taking(acc, item) = more
  BY DEF Catalog!Taking
<1> HIDE DEF cpe
<1>5. row \in Rows
  BY <1>1, <1>2 DEF Rows
<1> HIDE DEF row
<1>6. Append(acc.new, row) \in Seq(Rows) /\ Len(Append(acc.new, row)) = Len(acc.new) + 1 /\ Len(acc.new) \in Nat
  BY <1>5 DEF ImportList
<1>7. more \in ImportList /\ more.new = Append(acc.new, row)
  BY <1>2, <1>3, <1>6 DEF ImportList
<1> HIDE DEF more
<1> QED BY <1>4, <1>6, <1>7

LEMMA ImportSteps ==
  ASSUME NEW items \in Seq(Catalog!Components)
  PROVE  \E g \in [0 .. Len(items) -> ImportList] :
           /\ g[0] = Existing
           /\ \A k \in 1 .. Len(items) : g[k] = Catalog!Taking(g[k - 1], items[k])
           /\ Catalog!imported(items) = g[Len(items)].new
<1> DEFINE n == Len(items)
           next == [k \in 1 .. n |-> [acc \in ImportList |-> Catalog!Taking(acc, items[k])]]
<1>1. n \in Nat /\ \A k \in 1 .. n : items[k] \in Catalog!Components
  OBVIOUS
<1>2. Existing \in ImportList
  BY DEF Existing, ImportList
<1>3. next \in [1 .. n -> [ImportList -> ImportList]]
  BY <1>1, TakingOne
<1>4. \A k \in 1 .. n : \A acc \in ImportList : next[k][acc] = Catalog!Taking(acc, items[k])
  OBVIOUS
<1>5. PICK h : Built(h, ImportList, Existing, next, n)
  <2> HIDE DEF next, n
  <2> QED BY <1>1, <1>2, <1>3, Building
<1> HIDE DEF next
<1>6. /\ h \in [0 .. n -> ImportList] /\ h[0] = Existing
      /\ \A k \in 1 .. n : h[k - 1] \in ImportList /\ h[k] = next[k][h[k - 1]]
  BY <1>1, <1>5 DEF Built
<1>7. \A k \in 0 .. n : h[k] = IF k = 0 THEN Existing ELSE Catalog!Taking(h[k - 1], items[k])
  BY <1>4, <1>6
<1>8. \E g : Imports(g, items)
  <2>1. Imports(h, items)
    BY <1>6, <1>7 DEF Imports
  <2> QED BY <2>1
<1> DEFINE g == CHOOSE g : Imports(g, items)
<1>9. Imports(g, items)
  BY <1>8
<1>10. Catalog!imported(items) = g[n].new
  BY DEF Catalog!imported, Imports, Existing
<1> HIDE DEF g
<1>11. \A k \in 0 .. n : g[k] = IF k = 0 THEN Existing ELSE Catalog!Taking(g[k - 1], items[k])
  BY <1>9 DEF Imports
<1>12. \A k \in 0 .. n : g[k] \in ImportList
  <2> DEFINE T == {k \in 0 .. n : g[k] \in ImportList}
  <2>1. 0 \in T
    BY <1>1, <1>2, <1>11
  <2>2. ASSUME NEW k \in 1 .. n, k - 1 \in T PROVE k \in T
    <3>1. k \in 0 .. n /\ k # 0 /\ g[k - 1] \in ImportList
      BY <1>1, <2>2
    <3>2. Catalog!Taking(g[k - 1], items[k]) \in ImportList
      BY <1>1, <3>1, TakingOne
    <3> QED BY <1>11, <3>1, <3>2
  <2>3. \A k \in 0 .. n : k \in T
    <3> HIDE DEF T
    <3> QED BY <1>1, <2>1, <2>2, Upward
  <2> QED BY <2>3
<1>13. g \in [0 .. n -> ImportList]
  <2>1. g = [k \in 0 .. n |-> g[k]]
    BY <1>9 DEF Imports
  <2> QED BY <1>12, <2>1
<1>14. \A k \in 1 .. n : k # 0 /\ k \in 0 .. n
  BY <1>1
<1>15. g[0] = Existing /\ \A k \in 1 .. n : g[k] = Catalog!Taking(g[k - 1], items[k])
  BY <1>1, <1>11, <1>14
<1> QED BY <1>10, <1>13, <1>15

\* An import inserts no more rows than it has items.
LEMMA ImportIsShort ==
  ASSUME NEW items \in Seq(Catalog!Components)
  PROVE  Catalog!imported(items) \in Seq(Rows) /\ Len(Catalog!imported(items)) <= Len(items)
<1> DEFINE n == Len(items)
<1>1. PICK g \in [0 .. n -> ImportList] :
        /\ g[0] = Existing
        /\ \A k \in 1 .. n : g[k] = Catalog!Taking(g[k - 1], items[k])
        /\ Catalog!imported(items) = g[n].new
  BY ImportSteps
<1>2. n \in Nat /\ \A k \in 1 .. n : items[k] \in Catalog!Components
  OBVIOUS
<1> HIDE DEF n
<1>3. \A k \in 0 .. n : Len(g[k].new) <= k
  <2> DEFINE T == {k \in 0 .. n : Len(g[k].new) <= k}
  <2>1. 0 \in T
    BY <1>1, <1>2 DEF Existing
  <2>2. ASSUME NEW k \in 1 .. n, k - 1 \in T PROVE k \in T
    <3>1. k - 1 \in 0 .. n /\ k \in 0 .. n /\ g[k - 1] \in ImportList /\ g[k] \in ImportList
      BY <1>1, <1>2
    <3>2. Len(g[k].new) <= Len(g[k - 1].new) + 1
      BY <1>1, <1>2, <3>1, TakingOne
    <3>3. Len(g[k].new) \in Nat /\ Len(g[k - 1].new) \in Nat /\ Len(g[k - 1].new) <= k - 1
      BY <2>2, <3>1 DEF ImportList
    <3> QED BY <3>1, <3>2, <3>3
  <2>3. \A k \in 0 .. n : k \in T
    <3> HIDE DEF T
    <3> QED BY <1>2, <2>1, <2>2, Upward
  <2> QED BY <2>3
<1>4. g[n] \in ImportList /\ Len(g[n].new) <= n
  BY <1>1, <1>2, <1>3
<1> QED BY <1>1, <1>4 DEF ImportList, n

EditorRows ==
  [pc : {"idle", "checked"}, kind : {"none", "create", "update", "delete", "import"}, id : Nat, row : Rows, items : Seq(Rows)]
CatalogTypeOK == vendors \in Seq(Rows) /\ editor \in [Editors -> EditorRows]

\* What a request commits.
Sized ==
  \A e \in Editors :
    /\ editor[e].kind = "update" => Len(editor[e].items) = 1
    /\ editor[e].kind \in {"create", "import"} => Len(editor[e].items) <= MaxImport

Inserts(r) == r.pc = "checked" /\ r.kind \in {"create", "import"} /\ r.items # << >>
Pending == {e \in Editors : Inserts(editor[e])}
Rising(p) == p * MaxImport
Limit == MaxVendors + Rising(Cardinality(Editors) - 1)

\* There is room for what each request can insert, but for the one that has
\* checked last: there was room then for what it does insert.
Room ==
  \/ Cardinality(Catalog!Live) + Rising(Cardinality(Pending)) <= Limit
  \/ \E e \in Pending :
       Cardinality(Catalog!Live) + Len(editor[e].items) + Rising(Cardinality(Pending) - 1) <= Limit

CatalogInv == CatalogTypeOK /\ Sized /\ Room

LEMMA RisingSteps ==
  /\ Rising(0) = 0
  /\ \A p \in Nat : Rising(p) \in Nat /\ Rising(p + 1) = Rising(p) + MaxImport
  /\ \A p, q \in Nat : p <= q => Rising(p) <= Rising(q)
<1>1. MaxImport \in Nat
  BY CatalogAssumptions DEF Catalog!LimitAssumption
<1>2. \A p \in Nat : p * MaxImport \in Nat /\ (p + 1) * MaxImport = p * MaxImport + MaxImport
  BY <1>1
<1>3. 0 * MaxImport = 0
  BY <1>1
<1>4. ASSUME NEW p \in Nat, NEW q \in Nat, p <= q PROVE p * MaxImport <= q * MaxImport
  <2>1. q * MaxImport = p * MaxImport + (q - p) * MaxImport
    BY <1>1
  <2>2. q - p \in Nat
    BY <1>4
  <2>3. (q - p) * MaxImport \in Nat
    BY <1>2, <2>2
  <2> QED BY <1>2, <2>1, <2>3
<1> QED BY <1>2, <1>3, <1>4 DEF Rising

LEMMA PendingFinite ==
  /\ IsFiniteSet(Editors) /\ Cardinality(Editors) \in Nat /\ Cardinality(Editors) > 0
  /\ IsFiniteSet(Pending) /\ Cardinality(Pending) \in Nat /\ Cardinality(Pending) <= Cardinality(Editors)
<1>1. IsFiniteSet(Editors) /\ Editors # {}
  BY CatalogAssumptions, CatalogCounts DEF Catalog!EditorAssumption
<1>2. Cardinality(Editors) \in Nat /\ Cardinality(Editors) # 0
  BY <1>1, FS_CardinalityType, FS_EmptySet
<1>3. Pending \subseteq Editors
  BY DEF Pending
<1>4. IsFiniteSet(Pending) /\ Cardinality(Pending) <= Cardinality(Editors)
  BY <1>1, <1>3, FS_Subset
<1> QED BY <1>1, <1>2, <1>4, FS_CardinalityType

LEMMA LimitIsNumber == Limit \in Nat
<1>1. Cardinality(Editors) - 1 \in Nat
  BY PendingFinite
<1>2. Rising(Cardinality(Editors) - 1) \in Nat
  BY <1>1, RisingSteps
<1>3. MaxVendors \in Nat
  BY CatalogAssumptions DEF Catalog!LimitAssumption
<1> QED BY <1>2, <1>3 DEF Limit

LEMMA LiveFinite ==
  ASSUME vendors \in Seq(Rows)
  PROVE  IsFiniteSet(Catalog!Live) /\ Cardinality(Catalog!Live) \in Nat
<1>1. Catalog!Live \subseteq 1 .. Len(vendors)
  BY DEF Catalog!Live
<1>2. IsFiniteSet(1 .. Len(vendors))
  BY FS_Interval
<1> QED BY <1>1, <1>2, FS_Subset, FS_CardinalityType

LEMMA CatalogSoft == CatalogInv => SoftVendors
<1> SUFFICES ASSUME CatalogInv PROVE SoftVendors
  OBVIOUS
<1> DEFINE live == Cardinality(Catalog!Live)
           pending == Cardinality(Pending)
<1>1. live \in Nat /\ pending \in Nat /\ Cardinality(Editors) - 1 \in Nat
  BY LiveFinite, PendingFinite DEF CatalogInv, CatalogTypeOK
<1>2. Limit \in Nat
  BY LimitIsNumber
<1>3. live <= Limit
  <2>1. CASE live + Rising(pending) <= Limit
    <3>1. Rising(pending) \in Nat
      BY <1>1, RisingSteps
    <3> HIDE DEF live, pending
    <3> QED BY <1>1, <1>2, <2>1, <3>1
  <2>2. ASSUME NEW e \in Pending, live + Len(editor[e].items) + Rising(pending - 1) <= Limit
        PROVE  live <= Limit
    <3>1. pending # 0
      BY PendingFinite, FS_EmptySet
    <3>2. Rising(pending - 1) \in Nat
      BY <1>1, <3>1, RisingSteps
    <3>3. Len(editor[e].items) \in Nat
      BY DEF Pending, CatalogInv, CatalogTypeOK, EditorRows
    <3> HIDE DEF live, pending
    <3> QED BY <1>1, <1>2, <2>2, <3>2, <3>3
  <2> QED BY <2>1, <2>2 DEF CatalogInv, Room
<1> QED BY <1>3, CatalogCounts DEF SoftVendors, Catalog!SoftVendors, Limit, Rising

LEMMA ReadyRow == Catalog!Ready \in EditorRows /\ Catalog!Ready.pc = "idle" /\ Catalog!Ready.kind = "none"
<1>1. Catalog!NoVendor \in Rows
  BY DEF Catalog!NoVendor, Rows
<1> DEFINE none == Catalog!NoVendor
<1>2. Catalog!Ready = [pc |-> "idle", kind |-> "none", id |-> 0, row |-> none, items |-> << >>]
  BY DEF Catalog!Ready
<1> HIDE DEF none
<1>3. << >> \in Seq(Rows)
  OBVIOUS
<1> QED BY <1>1, <1>2, <1>3 DEF EditorRows, none

LEMMA CatalogInitially == Catalog!Init => CatalogInv
<1> SUFFICES ASSUME Catalog!Init PROVE CatalogInv
  OBVIOUS
<1>1. vendors = << >> /\ editor = [e \in Editors |-> Catalog!Ready]
  BY DEF Catalog!Init
<1>2. CatalogTypeOK
  BY <1>1, ReadyRow DEF CatalogTypeOK
<1>3. Sized
  BY <1>1, ReadyRow DEF Sized
<1>4. Catalog!Live = {} /\ Pending = {}
  BY <1>1, ReadyRow DEF Catalog!Live, Pending, Inserts
<1>5. Cardinality(Catalog!Live) = 0 /\ Cardinality(Pending) = 0
  BY <1>4, FS_EmptySet
<1>6. Rising(Cardinality(Editors) - 1) \in Nat /\ MaxVendors \in Nat /\ Rising(0) = 0
  <2>1. Cardinality(Editors) - 1 \in Nat
    BY PendingFinite
  <2> QED BY <2>1, RisingSteps, CatalogAssumptions DEF Catalog!LimitAssumption
<1>7. Room
  BY <1>5, <1>6 DEF Room, Limit
<1> QED BY <1>2, <1>3, <1>7 DEF CatalogInv

\* What a step does to one request.
LEMMA OneEditor ==
  ASSUME CatalogInv, NEW e \in Editors, NEW row \in EditorRows, editor' = [editor EXCEPT ![e] = row],
         vendors' \in Seq(Rows),
         row.kind = "update" => Len(row.items) = 1,
         row.kind \in {"create", "import"} => Len(row.items) <= MaxImport
  PROVE  /\ CatalogTypeOK' /\ Sized'
         /\ \A f \in Editors : editor'[f] = IF f = e THEN row ELSE editor[f]
         /\ Pending' = IF Inserts(row) THEN Pending \cup {e} ELSE Pending \ {e}
<1>1. editor \in [Editors -> EditorRows]
  BY DEF CatalogInv, CatalogTypeOK
<1>2. \A f \in Editors : editor'[f] = IF f = e THEN row ELSE editor[f]
  BY <1>1
<1>3. CatalogTypeOK'
  BY <1>1 DEF CatalogTypeOK
<1>4. Sized'
  BY <1>2 DEF Sized, CatalogInv
<1>5. \A f \in Editors : Inserts(editor[f])' = IF f = e THEN Inserts(row) ELSE Inserts(editor[f])
  BY <1>2 DEF Inserts
<1>6. Pending' = IF Inserts(row) THEN Pending \cup {e} ELSE Pending \ {e}
  BY <1>5 DEF Pending
<1> QED BY <1>2, <1>3, <1>4, <1>6

\* A request that has checked there to be room has it, and no other gets more.
LEMMA RoomChecked ==
  ASSUME CatalogInv, NEW e \in Editors, NEW row \in EditorRows, editor' = [editor EXCEPT ![e] = row],
         UNCHANGED vendors, ~Inserts(editor[e]), Inserts(row), Len(row.items) <= MaxImport, row.kind # "update",
         Cardinality(Catalog!Live) + Len(row.items) <= MaxVendors
  PROVE  CatalogInv'
<1> DEFINE live == Cardinality(Catalog!Live)
           pending == Cardinality(Pending)
           n == Cardinality(Editors)
           items == Len(row.items)
<1>1. /\ CatalogTypeOK' /\ Sized'
      /\ \A f \in Editors : editor'[f] = IF f = e THEN row ELSE editor[f]
      /\ Pending' = Pending \cup {e}
  BY OneEditor DEF CatalogInv, CatalogTypeOK
<1>2. e \notin Pending
  BY DEF Pending
<1>3. live \in Nat /\ pending \in Nat /\ n \in Nat
  BY LiveFinite, PendingFinite DEF CatalogInv, CatalogTypeOK
<1>4. Cardinality(Pending') = pending + 1
  BY <1>1, <1>2, PendingFinite, FS_AddElement
<1>5. pending + 1 <= n
  <2>1. Pending' \subseteq Editors
    BY <1>1 DEF Pending
  <2> QED BY <1>4, <2>1, PendingFinite, FS_Subset
<1>6. Catalog!Live' = Catalog!Live
  BY DEF Catalog!Live
<1>7. e \in Pending' /\ Len(editor'[e].items) = items
  BY <1>1
<1>8. Rising(pending) <= Rising(n - 1) /\ Rising(pending) \in Nat /\ Rising(n - 1) \in Nat
  <2>1. n - 1 \in Nat /\ pending <= n - 1
    BY <1>3, <1>5
  <2> QED BY <1>3, <2>1, RisingSteps
<1>9. live + items + Rising(pending) <= Limit
  <2>1. items \in Nat /\ MaxVendors \in Nat
    BY CatalogAssumptions DEF EditorRows, Catalog!LimitAssumption
  <2> HIDE DEF live, items, pending
  <2>2. live + items <= MaxVendors
    BY DEF live, items
  <2> QED BY <1>3, <1>8, <2>1, <2>2 DEF Limit, n
<1>10. Room'
  <2>1. Cardinality(Pending)' - 1 = pending
    BY <1>3, <1>4
  <2>2. /\ Cardinality(Catalog!Live)' + Len(editor[e].items)' + Rising(Cardinality(Pending) - 1)' <= Limit'
    BY <1>6, <1>7, <1>9, <2>1 DEF Rising, Limit
  <2> QED BY <1>7, <2>2 DEF Room
<1> QED BY <1>1, <1>10 DEF CatalogInv

\* A request that inserts no more than it may, or not at all, takes no room.
LEMMA RoomLeft ==
  ASSUME CatalogInv, NEW e \in Editors, NEW row \in EditorRows, editor' = [editor EXCEPT ![e] = row],
         vendors' \in Seq(Rows), ~Inserts(row), row.kind = "update" => Len(row.items) = 1,
         row.kind \in {"create", "import"} => Len(row.items) <= MaxImport,
         Cardinality(Catalog!Live') <=
           Cardinality(Catalog!Live) + IF Inserts(editor[e]) THEN Len(editor[e].items) ELSE 0
  PROVE  CatalogInv'
<1> DEFINE live == Cardinality(Catalog!Live)
           next == Cardinality(Catalog!Live')
           pending == Cardinality(Pending)
           left == Cardinality(Pending')
           items == Len(editor[e].items)
<1>1. /\ CatalogTypeOK' /\ Sized'
      /\ \A f \in Editors : editor'[f] = IF f = e THEN row ELSE editor[f]
      /\ Pending' = Pending \ {e}
  BY OneEditor
<1>2. live \in Nat /\ pending \in Nat /\ items \in Nat /\ MaxImport \in Nat /\ IsFiniteSet(Pending)
  <2>1. live \in Nat /\ pending \in Nat /\ IsFiniteSet(Pending)
    BY LiveFinite, PendingFinite DEF CatalogInv, CatalogTypeOK
  <2>2. items \in Nat
    BY DEF CatalogInv, CatalogTypeOK, EditorRows
  <2> QED BY <2>1, <2>2, CatalogAssumptions DEF Catalog!LimitAssumption
<1>3. Limit' = Limit /\ \A p : Rising(p)' = Rising(p)
  BY DEF Limit, Rising
<1>4. next \in Nat
  <2>1. Catalog!Live' \subseteq 1 .. Len(vendors')
    BY DEF Catalog!Live
  <2>2. Len(vendors') \in Nat
    OBVIOUS
  <2>3. IsFiniteSet(1 .. Len(vendors'))
    BY <2>2, FS_Interval
  <2> QED BY <2>1, <2>3, FS_Subset, FS_CardinalityType
<1>5. Limit \in Nat
  BY LimitIsNumber
<1>6. CASE e \notin Pending
  <2>1. Pending' = Pending /\ ~Inserts(editor[e])
    BY <1>1, <1>6 DEF Pending
  <2>2. next <= live
    BY <1>2, <2>1
  <2>3. CASE live + Rising(pending) <= Limit
    <3>1. Rising(pending) \in Nat
      BY <1>2, RisingSteps
    <3>2. next + Rising(pending) <= Limit
      <4> HIDE DEF next, live, pending
      <4> QED BY <1>2, <1>4, <1>5, <2>2, <2>3, <3>1
    <3>3. Room'
      BY <1>3, <2>1, <3>2 DEF Room
    <3> QED BY <1>1, <3>3 DEF CatalogInv
  <2>4. ASSUME NEW f \in Pending, live + Len(editor[f].items) + Rising(pending - 1) <= Limit
        PROVE  CatalogInv'
    <3>1. pending - 1 \in Nat
      BY <1>2, FS_EmptySet
    <3>2. Rising(pending - 1) \in Nat
      BY <3>1, RisingSteps
    <3>3. Len(editor[f].items) \in Nat /\ editor'[f] = editor[f] /\ f \in Pending'
      BY <1>1, <1>6, <2>1 DEF Pending, CatalogInv, CatalogTypeOK, EditorRows
    <3> DEFINE k == Len(editor[f].items)
    <3>4. next + k + Rising(pending - 1) <= Limit
      <4> HIDE DEF next, live, pending, k
      <4>1. k \in Nat /\ live + k + Rising(pending - 1) <= Limit
        BY <2>4, <3>3 DEF k, live, pending
      <4> QED BY <1>2, <1>4, <1>5, <2>2, <3>2, <4>1
    <3>5. Room'
      BY <1>3, <2>1, <3>3, <3>4 DEF Room
    <3> QED BY <1>1, <3>5 DEF CatalogInv
  <2> QED BY <2>3, <2>4 DEF CatalogInv, Room
<1>7. CASE e \in Pending
  <2>1. next <= live + items /\ items <= MaxImport
    BY <1>7 DEF Pending, Inserts, CatalogInv, Sized
  <2>2. left = pending - 1 /\ left \in Nat /\ pending = left + 1
    <3>1. IsFiniteSet(Pending') /\ Cardinality(Pending') = Cardinality(Pending) - 1
      BY <1>1, <1>2, <1>7, FS_RemoveElement
    <3>2. Cardinality(Pending') \in Nat
      BY <3>1, FS_CardinalityType
    <3> QED BY <1>2, <3>1, <3>2
  <2>3. Rising(pending) = Rising(left) + MaxImport /\ Rising(left) \in Nat
    BY <2>2, RisingSteps
  <2>4. CASE live + Rising(pending) <= Limit
    <3>1. next + Rising(left) <= Limit
      <4> HIDE DEF next, live, pending, left, items
      <4> QED BY <1>2, <1>4, <1>5, <2>1, <2>3, <2>4
    <3>2. Room'
      BY <1>3, <3>1 DEF Room
    <3> QED BY <1>1, <3>2 DEF CatalogInv
  <2>5. ASSUME NEW f \in Pending, live + Len(editor[f].items) + Rising(pending - 1) <= Limit
        PROVE  CatalogInv'
    <3> DEFINE k == Len(editor[f].items)
    <3>1. k \in Nat /\ k <= MaxImport
      BY DEF Pending, Inserts, CatalogInv, CatalogTypeOK, EditorRows, Sized
    <3>2. CASE f = e
      <4>1. next + Rising(left) <= Limit
        <5>1. live + items + Rising(left) <= Limit
          BY <2>2, <2>5, <3>2
        <5> HIDE DEF next, live, pending, left, items
        <5> QED BY <1>2, <1>4, <1>5, <2>1, <2>3, <5>1
      <4>2. Room'
        BY <1>3, <4>1 DEF Room
      <4> QED BY <1>1, <4>2 DEF CatalogInv
    <3>3. CASE f # e
      <4>1. f \in Pending' /\ editor'[f] = editor[f]
        BY <1>1, <3>3 DEF Pending
      <4>2. left - 1 \in Nat
        <5>1. left # 0
          BY <1>1, <1>2, <4>1, FS_EmptySet, FS_RemoveElement
        <5> HIDE DEF left
        <5> QED BY <2>2, <5>1
      <4>3. Rising(left) = Rising(left - 1) + MaxImport /\ Rising(left - 1) \in Nat
        <5>1. (left - 1) + 1 = left
          BY <2>2
        <5> HIDE DEF left
        <5> QED BY <4>2, <5>1, RisingSteps
      <4>4. next + k + Rising(left - 1) <= Limit
        <5>1. live + k + Rising(left) <= Limit
          BY <2>2, <2>5
        <5> HIDE DEF next, live, pending, left, items, k
        <5> QED BY <1>2, <1>4, <1>5, <2>1, <3>1, <4>3, <5>1
      <4>5. Room'
        BY <1>3, <4>1, <4>4 DEF Room
      <4> QED BY <1>1, <4>5 DEF CatalogInv
    <3> QED BY <3>2, <3>3
  <2> QED BY <2>4, <2>5 DEF CatalogInv, Room
<1> QED BY <1>6, <1>7

\* A row that was live and one that is written over it are rows.
LEMMA LiveRow ==
  ASSUME CatalogInv, NEW i \in Catalog!Live
  PROVE  i \in 1 .. Len(vendors) /\ i \in Nat /\ vendors[i] \in Rows
BY DEF Catalog!Live, CatalogInv, CatalogTypeOK

LEMMA IdleInserts ==
  ASSUME NEW e \in Editors, editor[e].pc = "idle"
  PROVE  ~Inserts(editor[e])
BY DEF Inserts

\* A request that only checks and will insert nothing.
LEMMA CheckKeeps ==
  ASSUME CatalogInv, NEW e \in Editors, NEW row \in EditorRows, Catalog!Checks(e, row), ~Inserts(row),
         row.kind = "update" => Len(row.items) = 1,
         row.kind \in {"create", "import"} => Len(row.items) <= MaxImport
  PROVE  CatalogInv'
<1>1. editor' = [editor EXCEPT ![e] = row] /\ vendors' = vendors /\ ~Inserts(editor[e])
  BY IdleInserts DEF Catalog!Checks
<1>2. Catalog!Live' = Catalog!Live
  BY <1>1 DEF Catalog!Live
<1>3. Cardinality(Catalog!Live) \in Nat /\ vendors' \in Seq(Rows)
  BY <1>1, LiveFinite DEF CatalogInv, CatalogTypeOK
<1>4. Cardinality(Catalog!Live') <=
        Cardinality(Catalog!Live) + IF Inserts(editor[e]) THEN Len(editor[e].items) ELSE 0
  BY <1>1, <1>2, <1>3
<1> QED BY <1>1, <1>3, <1>4, RoomLeft

LEMMA CreateChecked ==
  ASSUME CatalogInv, NEW e \in Editors, NEW r \in Catalog!Forms, Catalog!CheckCreate(e, r)
  PROVE  CatalogInv'
<1> DEFINE row == [Catalog!Ready EXCEPT !.pc = "checked", !.kind = "create", !.items = <<r>>]
<1>1. editor[e].pc = "idle" /\ editor' = [editor EXCEPT ![e] = row] /\ UNCHANGED vendors /\ Catalog!RoomFor(1)
  BY DEF Catalog!CheckCreate, Catalog!Checks
<1>2. r \in Rows
  BY CatalogAssumptions DEF Catalog!Forms, Rows, Catalog!NameAssumption, Catalog!ProductAssumption
<1>3. <<r>> \in Seq(Rows) /\ Len(<<r>>) = 1 /\ <<r>> # << >>
  BY <1>2
<1>4. row \in EditorRows /\ row.pc = "checked" /\ row.kind = "create" /\ row.items = <<r>>
  BY <1>3, ReadyRow DEF EditorRows
<1> HIDE DEF row
<1>5. Inserts(row) /\ Len(row.items) = 1 /\ 1 <= MaxImport
  BY <1>3, <1>4, CatalogAssumptions DEF Inserts, Catalog!LimitAssumption
<1>6. Cardinality(Catalog!Live) + 1 <= MaxVendors
  BY <1>1, CatalogCounts DEF Catalog!RoomFor
<1> QED BY <1>1, <1>4, <1>5, <1>6, IdleInserts, RoomChecked

LEMMA ImportChecked ==
  ASSUME CatalogInv, NEW e \in Editors, NEW items, Catalog!CheckImport(e, items)
  PROVE  CatalogInv'
<1> DEFINE new == Catalog!imported(items)
           row == [Catalog!Ready EXCEPT !.pc = "checked", !.kind = "import", !.items = new]
<1>1. /\ items \in Seq(Catalog!Components) /\ Len(items) \in 1 .. MaxImport /\ Catalog!RoomFor(Len(new))
      /\ Catalog!Checks(e, row)
  BY DEF Catalog!CheckImport
<1>2. new \in Seq(Rows) /\ Len(new) <= Len(items)
  BY <1>1, ImportIsShort
<1> HIDE DEF new
<1>3. Len(new) <= MaxImport /\ Len(new) \in Nat
  BY <1>1, <1>2, CatalogAssumptions DEF Catalog!LimitAssumption
<1>4. row \in EditorRows /\ row.pc = "checked" /\ row.kind = "import" /\ row.items = new
  BY <1>2, ReadyRow DEF EditorRows
<1> HIDE DEF row
<1>5. CASE new = << >>
  BY <1>1, <1>3, <1>4, <1>5, CheckKeeps DEF Inserts
<1>6. CASE new # << >>
  <2>1. Inserts(row) /\ Len(row.items) <= MaxImport /\ row.kind # "update"
    BY <1>3, <1>4, <1>6 DEF Inserts
  <2>2. Len(new) # 0
    BY <1>2, <1>6
  <2>3. Cardinality(Catalog!Live) + Len(row.items) <= MaxVendors
    BY <1>1, <1>4, <2>2, CatalogCounts DEF Catalog!RoomFor
  <2>4. editor[e].pc = "idle" /\ editor' = [editor EXCEPT ![e] = row] /\ UNCHANGED vendors
    BY <1>1 DEF Catalog!Checks
  <2> QED BY <1>4, <2>1, <2>3, <2>4, IdleInserts, RoomChecked
<1> QED BY <1>5, <1>6

LEMMA UpdateChecked ==
  ASSUME CatalogInv, NEW e \in Editors, NEW i \in Catalog!Live, NEW r \in Rows, Catalog!CheckUpdate(e, i, r)
  PROVE  CatalogInv'
<1> DEFINE old == vendors[i]
           row == [Catalog!Ready EXCEPT !.pc = "checked", !.kind = "update", !.id = i, !.row = old, !.items = <<r>>]
<1>1. Catalog!Checks(e, row)
  BY DEF Catalog!CheckUpdate
<1>2. i \in Nat /\ old \in Rows
  BY LiveRow
<1>3. <<r>> \in Seq(Rows) /\ Len(<<r>>) = 1
  OBVIOUS
<1> HIDE DEF old
<1>4. row \in EditorRows /\ row.kind = "update" /\ row.items = <<r>>
  BY <1>2, <1>3, ReadyRow DEF EditorRows
<1> HIDE DEF row
<1> QED BY <1>1, <1>3, <1>4, CheckKeeps DEF Inserts

LEMMA DeleteChecked ==
  ASSUME CatalogInv, NEW e \in Editors, NEW i \in Catalog!Live, Catalog!CheckDelete(e, i)
  PROVE  CatalogInv'
<1> DEFINE row == [Catalog!Ready EXCEPT !.pc = "checked", !.kind = "delete", !.id = i]
<1>1. Catalog!Checks(e, row)
  BY DEF Catalog!CheckDelete
<1>2. row \in EditorRows /\ row.kind = "delete"
  BY LiveRow, ReadyRow DEF EditorRows
<1> HIDE DEF row
<1> QED BY <1>1, <1>2, CheckKeeps DEF Inserts

\* A request that ends and inserts nothing.
LEMMA EndKeeps ==
  ASSUME CatalogInv, NEW e \in Editors, editor' = [editor EXCEPT ![e] = Catalog!Ready], vendors' \in Seq(Rows),
         Catalog!Live' \subseteq Catalog!Live
  PROVE  CatalogInv'
<1>1. IsFiniteSet(Catalog!Live) /\ Cardinality(Catalog!Live) \in Nat
  BY LiveFinite DEF CatalogInv, CatalogTypeOK
<1>2. Cardinality(Catalog!Live') <= Cardinality(Catalog!Live) /\ Cardinality(Catalog!Live') \in Nat
  BY <1>1, FS_Subset, FS_CardinalityType
<1>3. Len(editor[e].items) \in Nat
  BY DEF CatalogInv, CatalogTypeOK, EditorRows
<1>4. Cardinality(Catalog!Live') <=
        Cardinality(Catalog!Live) + IF Inserts(editor[e]) THEN Len(editor[e].items) ELSE 0
  <2> DEFINE k == IF Inserts(editor[e]) THEN Len(editor[e].items) ELSE 0
  <2>1. k \in Nat
    BY <1>3
  <2> HIDE DEF k
  <2>2. Cardinality(Catalog!Live') <= Cardinality(Catalog!Live) + k
    BY <1>1, <1>2, <2>1
  <2> QED BY <2>2 DEF k
<1> QED BY <1>4, ReadyRow, RoomLeft DEF Inserts

LEMMA InsertKeeps ==
  ASSUME CatalogInv, NEW e \in Editors, Catalog!Insert(e)
  PROVE  CatalogInv'
<1> DEFINE items == editor[e].items
           n == Len(vendors)
           k == Len(items)
           More == (n + 1) .. (n + k)
<1>1. /\ editor' = [editor EXCEPT ![e] = Catalog!Ready] /\ vendors' = vendors \o items
      /\ editor[e].pc = "checked" /\ editor[e].kind \in {"create", "import"}
  BY DEF Catalog!Insert, Catalog!Commits
<1>2. vendors \in Seq(Rows) /\ items \in Seq(Rows)
  BY DEF CatalogInv, CatalogTypeOK, EditorRows
<1>3. n \in Nat /\ k \in Nat
  BY <1>2
<1>4. vendors' \in Seq(Rows) /\ Len(vendors') = n + k /\ \A i \in 1 .. n : vendors'[i] = vendors[i]
  BY <1>1, <1>2
<1> HIDE DEF items
<1>5. Catalog!Live' \subseteq Catalog!Live \cup More
  <2> SUFFICES ASSUME NEW i \in Catalog!Live', i \notin More PROVE i \in Catalog!Live
    OBVIOUS
  <2>1. i \in 1 .. Len(vendors') /\ vendors'[i] # Catalog!NoVendor
    BY <1>4 DEF Catalog!Live, Catalog!NoVendor
  <2>2. i \in 1 .. n
    <3> HIDE DEF n, k
    <3> QED BY <1>3, <1>4, <2>1 DEF More
  <2> QED BY <1>2, <1>4, <2>1, <2>2 DEF Catalog!Live
<1>6. IsFiniteSet(More) /\ Cardinality(More) = k
  <2>1. n + 1 \in Int /\ n + k \in Int
    BY <1>3
  <2>2. IsFiniteSet(More) /\ Cardinality(More) = IF n + 1 > n + k THEN 0 ELSE (n + k) - (n + 1) + 1
    <3> HIDE DEF n, k
    <3> QED BY <2>1, FS_Interval DEF More
  <2> HIDE DEF n, k, More
  <2> QED BY <1>3, <2>2
<1>7. IsFiniteSet(Catalog!Live) /\ Cardinality(Catalog!Live) \in Nat
  BY <1>2, LiveFinite
<1>8. Cardinality(Catalog!Live') <= Cardinality(Catalog!Live) + k
  <2> DEFINE both == Catalog!Live \cup More
  <2> HIDE DEF More, k
  <2>1. IsFiniteSet(both) /\ Cardinality(both) = Cardinality(Catalog!Live) + Cardinality(More) - Cardinality(Catalog!Live \cap More)
    BY <1>6, <1>7, FS_Union
  <2>2. IsFiniteSet(Catalog!Live \cap More)
    BY <1>7, FS_Subset
  <2>3. Cardinality(Catalog!Live \cap More) \in Nat
    BY <2>2, FS_CardinalityType
  <2>4. IsFiniteSet(Catalog!Live') /\ Cardinality(Catalog!Live') <= Cardinality(both)
    BY <1>5, <2>1, FS_Subset
  <2>5. Cardinality(Catalog!Live') \in Nat
    BY <2>4, FS_CardinalityType
  <2> HIDE DEF both
  <2> QED BY <1>3, <1>6, <1>7, <2>1, <2>3, <2>4, <2>5
<1>9. k = IF Inserts(editor[e]) THEN Len(editor[e].items) ELSE 0
  BY <1>1, <1>2 DEF Inserts, items
<1> QED BY <1>1, <1>4, <1>8, <1>9, ReadyRow, RoomLeft DEF Inserts

\* A row written over another, or over none.
LEMMA RowWritten ==
  ASSUME NEW s \in Seq(Rows), NEW i \in Nat, NEW row \in Rows
  PROVE  LET t == [s EXCEPT ![i] = row] IN
         /\ t \in Seq(Rows) /\ Len(t) = Len(s) /\ \A j \in 1 .. Len(s) : t[j] = IF j = i THEN row ELSE s[j]
<1> DEFINE t == [s EXCEPT ![i] = row]
<1>1. s \in [1 .. Len(s) -> Rows] /\ Len(s) \in Nat
  OBVIOUS
<1>2. t \in [1 .. Len(s) -> Rows] /\ \A j \in 1 .. Len(s) : t[j] = IF j = i THEN row ELSE s[j]
  BY <1>1
<1> HIDE DEF t
<1>3. t \in Seq(Rows) /\ Len(t) = Len(s)
  BY <1>1, <1>2
<1> QED BY <1>2, <1>3 DEF t

LEMMA UpdateKeeps ==
  ASSUME CatalogInv, NEW e \in Editors, Catalog!Update(e)
  PROVE  CatalogInv'
<1> DEFINE i == editor[e].id
           row == Catalog!Written(vendors[i], editor[e].row, editor[e].items[1])
<1>1. /\ editor' = [editor EXCEPT ![e] = Catalog!Ready] /\ i \in Catalog!Live
      /\ editor[e].kind = "update" /\ vendors' = [vendors EXCEPT ![i] = row]
  BY DEF Catalog!Update, Catalog!Commits
<1>2. vendors[i] \in Rows /\ i \in 1 .. Len(vendors)
  BY <1>1, LiveRow
<1>3. editor[e].items[1] \in Rows
  BY <1>1 DEF CatalogInv, CatalogTypeOK, Sized, EditorRows
<1>4. row \in Rows
  BY <1>2, <1>3 DEF Catalog!Written, Rows
<1> HIDE DEF i, row
<1>5. vendors' \in Seq(Rows) /\ Len(vendors') = Len(vendors) /\ \A j \in 1 .. Len(vendors) : j # i => vendors'[j] = vendors[j]
  <2>1. i \in Nat /\ vendors \in Seq(Rows)
    BY <1>2 DEF CatalogInv, CatalogTypeOK
  <2> QED BY <1>1, <1>4, <2>1, RowWritten
<1>6. Catalog!Live' \subseteq Catalog!Live
  BY <1>1, <1>5 DEF Catalog!Live, CatalogInv, CatalogTypeOK, Catalog!NoVendor
<1> QED BY <1>1, <1>5, <1>6, EndKeeps

LEMMA DeleteKeeps ==
  ASSUME CatalogInv, NEW e \in Editors, Catalog!Delete(e)
  PROVE  CatalogInv'
<1> DEFINE i == editor[e].id
<1>1. editor' = [editor EXCEPT ![e] = Catalog!Ready] /\ vendors' = [vendors EXCEPT ![i] = Catalog!NoVendor]
  BY DEF Catalog!Delete, Catalog!Commits
<1>2. Catalog!NoVendor \in Rows
  BY DEF Catalog!NoVendor, Rows
<1> HIDE DEF i
<1>3. /\ vendors' \in Seq(Rows) /\ Len(vendors') = Len(vendors)
      /\ \A j \in 1 .. Len(vendors) : vendors'[j] = IF j = i THEN Catalog!NoVendor ELSE vendors[j]
  <2>1. i \in Nat /\ vendors \in Seq(Rows)
    BY DEF CatalogInv, CatalogTypeOK, EditorRows, i
  <2> QED BY <1>1, <1>2, <2>1, RowWritten
<1>4. Catalog!Live' \subseteq Catalog!Live
  <2> SUFFICES ASSUME NEW j \in Catalog!Live' PROVE j \in Catalog!Live
    OBVIOUS
  <2>1. j \in 1 .. Len(vendors) /\ vendors'[j] # Catalog!NoVendor
    BY <1>3 DEF Catalog!Live, Catalog!NoVendor
  <2>2. vendors[j] # Catalog!NoVendor
    BY <1>3, <2>1
  <2> QED BY <2>1, <2>2 DEF Catalog!Live, CatalogInv, CatalogTypeOK
<1> QED BY <1>1, <1>3, <1>4, EndKeeps

LEMMA RollBackKeeps ==
  ASSUME CatalogInv, NEW e \in Editors, Catalog!RollBack(e)
  PROVE  CatalogInv'
<1>1. editor' = [editor EXCEPT ![e] = Catalog!Ready] /\ vendors' = vendors
  BY DEF Catalog!RollBack
<1>2. Catalog!Live' \subseteq Catalog!Live /\ vendors' \in Seq(Rows)
  BY <1>1 DEF Catalog!Live, CatalogInv, CatalogTypeOK
<1> QED BY <1>1, <1>2, EndKeeps

LEMMA CatalogKept == CatalogInv /\ [Catalog!Next]_(Catalog!catalogVars) => CatalogInv'
<1> SUFFICES ASSUME CatalogInv, [Catalog!Next]_(Catalog!catalogVars) PROVE CatalogInv'
  OBVIOUS
<1>1. CASE UNCHANGED Catalog!catalogVars
  <2>1. vendors' = vendors /\ editor' = editor
    BY <1>1 DEF Catalog!catalogVars
  <2> QED BY <2>1 DEF CatalogInv, CatalogTypeOK, Sized, Room, Limit, Rising, Pending, Inserts, Catalog!Live, Catalog!NoVendor
<1>2. ASSUME NEW i \in Catalog!Live
      PROVE  /\ \A name \in Called : [vendors[i] EXCEPT !.name = name] \in Rows
             /\ \A cpe \in Typed \cup {NoCpe} : [vendors[i] EXCEPT !.cpe = cpe] \in Rows
  <2>1. vendors[i] \in Rows
    BY LiveRow
  <2>2. Called \subseteq Names /\ Typed \subseteq Cpes
    BY CatalogAssumptions DEF Catalog!NameAssumption, Catalog!ProductAssumption
  <2> DEFINE old == vendors[i]
  <2> HIDE DEF old
  <2>3. old \in Rows
    BY <2>1 DEF old
  <2>4. /\ \A name \in Called : [old EXCEPT !.name = name] \in Rows
        /\ \A cpe \in Typed \cup {NoCpe} : [old EXCEPT !.cpe = cpe] \in Rows
    BY <2>2, <2>3 DEF Rows
  <2> QED BY <2>4 DEF old
<1>3. ASSUME NEW e \in Editors,
             \/ \E row \in Catalog!Forms : Catalog!CheckCreate(e, row)
             \/ \E i \in Catalog!Live, name \in Called : Catalog!CheckUpdate(e, i, [vendors[i] EXCEPT !.name = name])
             \/ \E i \in Catalog!Live, cpe \in Typed \cup {NoCpe} : Catalog!CheckUpdate(e, i, [vendors[i] EXCEPT !.cpe = cpe])
      PROVE  CatalogInv'
  BY <1>2, <1>3, CreateChecked, UpdateChecked
<1>4. ASSUME NEW e \in Editors,
             \/ \E i \in Catalog!Live : Catalog!CheckDelete(e, i)
             \/ \E doc \in Documents : Catalog!CheckImport(e, Catalog!build_candidates(doc))
      PROVE  CatalogInv'
  BY <1>4, DeleteChecked, ImportChecked
<1>5. ASSUME NEW e \in Editors, Catalog!Insert(e) \/ Catalog!Update(e) \/ Catalog!Delete(e) \/ Catalog!RollBack(e)
      PROVE  CatalogInv'
  BY <1>5, InsertKeeps, UpdateKeeps, DeleteKeeps, RollBackKeeps
<1> QED BY <1>1, <1>3, <1>4, <1>5 DEF Catalog!Next

\* Requests that overlap pass the plan's limit by what they bring, and one alone
\* never does (require_vendor_capacity).
THEOREM VendorsWithinPlan == Spec => []SoftVendors
<1>1. Catalog!Spec => []CatalogInv
  BY CatalogInitially, CatalogKept, PTL DEF Catalog!Spec
<1> QED BY <1>1, CatalogSoft, CatalogRuns, PTL

------------------------------------------------------------------------------
(* VendorCatalog: what a preview calls new.                                  *)

Candidates == [name : Names, cpe : Products \cup {NoCpe}]
NoTwice(list) == \A i, j \in 1 .. Len(list) : i # j /\ list[i].cpe # NoCpe => list[i].cpe # list[j].cpe

\* Components in groups, one for each product.
Groups ==
  {g \in [mapped : Seq(Candidates), named : Seq(Candidates)] :
    NoTwice(g.mapped) /\ \A i \in 1 .. Len(g.named) : g.named[i].cpe = NoCpe}
NoGroups == [mapped |-> << >>, named |-> << >>]
Groupings(g, components) ==
  g = [k \in 0 .. Len(components) |-> IF k = 0 THEN NoGroups ELSE Catalog!Grouped(g[k - 1], components[k])]

LEMMA GroupedOne ==
  ASSUME NEW acc \in Groups, NEW c \in Catalog!Components
  PROVE  Catalog!Grouped(acc, c) \in Groups
<1> DEFINE new == Catalog!Candidate(c)
<1>1. new \in Candidates
  BY CatalogAssumptions
    DEF Catalog!Candidate, Catalog!Normal, Catalog!Components, Candidates, Catalog!ProductAssumption, Catalog!NameAssumption
<1> HIDE DEF new
<1>2. /\ acc.mapped \in Seq(Candidates) /\ acc.named \in Seq(Candidates)
      /\ NoTwice(acc.mapped) /\ \A i \in 1 .. Len(acc.named) : acc.named[i].cpe = NoCpe
  BY DEF Groups
<1>3. CASE new.cpe = NoCpe
  <2> DEFINE list == Catalog!With(acc.named, new)
  <2>1. list \in Seq(Candidates) /\ \A i \in 1 .. Len(list) : list[i].cpe = NoCpe
    BY <1>1, <1>2, <1>3 DEF Catalog!With
  <2>2. Catalog!Grouped(acc, c) = [acc EXCEPT !.named = list]
    BY <1>3 DEF Catalog!Grouped, new
  <2> HIDE DEF list
  <2> QED BY <1>2, <2>1, <2>2 DEF Groups
<1>4. CASE new.cpe # NoCpe
  <2> DEFINE list == Catalog!With(acc.mapped, new)
  <2>1. CASE \E i \in DOMAIN acc.mapped : Catalog!SameGroup(acc.mapped[i], new)
    <3>1. list = acc.mapped
      BY <2>1 DEF Catalog!With
    <3> QED BY <1>2, <1>4, <3>1 DEF Catalog!Grouped, new, Groups
  <2>2. CASE ~ \E i \in DOMAIN acc.mapped : Catalog!SameGroup(acc.mapped[i], new)
    <3>1. \A i \in 1 .. Len(acc.mapped) : acc.mapped[i].cpe # new.cpe
      BY <1>2, <1>4, <2>2 DEF Catalog!SameGroup
    <3>2. list = Append(acc.mapped, new)
      BY <2>2 DEF Catalog!With
    <3>3. list \in Seq(Candidates) /\ NoTwice(list)
      BY <1>1, <1>2, <3>1, <3>2 DEF NoTwice
    <3>4. Catalog!Grouped(acc, c) = [acc EXCEPT !.mapped = list]
      BY <1>4 DEF Catalog!Grouped, new
    <3> HIDE DEF list
    <3> QED BY <1>2, <3>3, <3>4 DEF Groups
  <2> QED BY <2>1, <2>2
<1> QED BY <1>3, <1>4

LEMMA GroupSteps ==
  ASSUME NEW components \in Seq(Catalog!Components)
  PROVE  \E g \in [0 .. Len(components) -> Groups] :
           /\ g[0] = NoGroups
           /\ \A k \in 1 .. Len(components) : g[k] = Catalog!Grouped(g[k - 1], components[k])
           /\ Catalog!build_candidates(components) = g[Len(components)].mapped \o g[Len(components)].named
<1> DEFINE n == Len(components)
           next == [k \in 1 .. n |-> [acc \in Groups |-> Catalog!Grouped(acc, components[k])]]
<1>1. n \in Nat /\ \A k \in 1 .. n : components[k] \in Catalog!Components
  OBVIOUS
<1>2. NoGroups \in Groups
  BY DEF NoGroups, Groups, NoTwice
<1>3. next \in [1 .. n -> [Groups -> Groups]]
  BY <1>1, GroupedOne
<1>4. \A k \in 1 .. n : \A acc \in Groups : next[k][acc] = Catalog!Grouped(acc, components[k])
  OBVIOUS
<1>5. PICK h : Built(h, Groups, NoGroups, next, n)
  <2> HIDE DEF next, n
  <2> QED BY <1>1, <1>2, <1>3, Building
<1> HIDE DEF next
<1>6. /\ h \in [0 .. n -> Groups] /\ h[0] = NoGroups
      /\ \A k \in 1 .. n : h[k - 1] \in Groups /\ h[k] = next[k][h[k - 1]]
  BY <1>1, <1>5 DEF Built
<1>7. \A k \in 0 .. n : h[k] = IF k = 0 THEN NoGroups ELSE Catalog!Grouped(h[k - 1], components[k])
  BY <1>4, <1>6
<1>8. \E g : Groupings(g, components)
  <2>1. Groupings(h, components)
    BY <1>6, <1>7 DEF Groupings
  <2> QED BY <2>1
<1> DEFINE g == CHOOSE g : Groupings(g, components)
<1>9. Groupings(g, components)
  BY <1>8
<1>10. Catalog!build_candidates(components) = g[n].mapped \o g[n].named
  BY DEF Catalog!build_candidates, Groupings, NoGroups
<1> HIDE DEF g
<1>11. \A k \in 0 .. n : g[k] = IF k = 0 THEN NoGroups ELSE Catalog!Grouped(g[k - 1], components[k])
  BY <1>9 DEF Groupings
<1>12. \A k \in 0 .. n : g[k] \in Groups
  <2> DEFINE T == {k \in 0 .. n : g[k] \in Groups}
  <2>1. 0 \in T
    BY <1>1, <1>2, <1>11
  <2>2. ASSUME NEW k \in 1 .. n, k - 1 \in T PROVE k \in T
    <3>1. k \in 0 .. n /\ k # 0 /\ g[k - 1] \in Groups
      BY <1>1, <2>2
    <3>2. Catalog!Grouped(g[k - 1], components[k]) \in Groups
      BY <1>1, <3>1, GroupedOne
    <3> QED BY <1>11, <3>1, <3>2
  <2>3. \A k \in 0 .. n : k \in T
    <3> HIDE DEF T
    <3> QED BY <1>1, <2>1, <2>2, Upward
  <2> QED BY <2>3
<1>13. g \in [0 .. n -> Groups]
  <2>1. g = [k \in 0 .. n |-> g[k]]
    BY <1>9 DEF Groupings
  <2> QED BY <1>12, <2>1
<1>14. \A k \in 1 .. n : k # 0 /\ k \in 0 .. n
  BY <1>1
<1>15. g[0] = NoGroups /\ \A k \in 1 .. n : g[k] = Catalog!Grouped(g[k - 1], components[k])
  BY <1>1, <1>11, <1>14
<1> QED BY <1>10, <1>13, <1>15

\* No product has two candidates.
LEMMA CandidatesDiffer ==
  ASSUME NEW components \in Seq(Catalog!Components)
  PROVE  LET list == Catalog!build_candidates(components) IN list \in Seq(Candidates) /\ NoTwice(list)
<1>1. PICK g \in [0 .. Len(components) -> Groups] :
        Catalog!build_candidates(components) = g[Len(components)].mapped \o g[Len(components)].named
  BY GroupSteps
<1> DEFINE ends == g[Len(components)]
           first == ends.mapped
           second == ends.named
           list == first \o second
<1>2. ends \in Groups
  BY <1>1
<1> HIDE DEF ends
<1>3. /\ first \in Seq(Candidates) /\ second \in Seq(Candidates)
      /\ NoTwice(first) /\ \A i \in 1 .. Len(second) : second[i].cpe = NoCpe
  BY <1>2 DEF Groups
<1> HIDE DEF first, second
<1>4. list \in Seq(Candidates) /\ Len(list) = Len(first) + Len(second) /\ Len(first) \in Nat /\ Len(second) \in Nat
  BY <1>3
<1>5. \A i \in 1 .. Len(list) :
        /\ i \in 1 .. Len(first) => list[i] = first[i]
        /\ i \notin 1 .. Len(first) => list[i].cpe = NoCpe
  <2>1. ASSUME NEW i \in 1 .. Len(first) PROVE list[i] = first[i]
    BY <1>3
  <2>2. ASSUME NEW i \in 1 .. Len(list), i \notin 1 .. Len(first) PROVE list[i].cpe = NoCpe
    <3>1. i - Len(first) \in 1 .. Len(second)
      BY <1>4, <2>2
    <3>2. list[i] = second[i - Len(first)]
      BY <1>3, <1>4, <2>2, <3>1
    <3> QED BY <1>3, <3>1, <3>2
  <2> QED BY <2>1, <2>2
<1>6. NoTwice(list)
  <2> HIDE DEF list
  <2> QED BY <1>3, <1>5 DEF NoTwice
<1> QED BY <1>1, <1>4, <1>6 DEF ends, first, second

\* What a preview calls new differs from the rows of the list and from each other.
Fresh(list) ==
  /\ \A i \in 1 .. Len(list) : Catalog!Lacks(list[i])
  /\ \A i, j \in 1 .. Len(list) : i # j => Fold[list[i].name] # Fold[list[j].name]
Marks ==
  {m \in [seen : SUBSET Names, new : Seq(Candidates)] :
    Fresh(m.new) /\ \A i \in 1 .. Len(m.new) : Fold[m.new[i].name] \in m.seen}
NoMarks == [seen |-> {}, new |-> << >>]
Markings(g, list) ==
  g = [k \in 0 .. Len(list) |-> IF k = 0 THEN NoMarks ELSE Catalog!Marking(g[k - 1], list[k])]

LEMMA MarkingOne ==
  ASSUME NEW acc \in Marks, NEW c \in Candidates
  PROVE  Catalog!Marking(acc, c) \in Marks
<1> DEFINE m == Catalog!Marking(acc, c)
<1>1. /\ acc.new \in Seq(Candidates) /\ acc.seen \in SUBSET Names /\ Fresh(acc.new)
      /\ \A i \in 1 .. Len(acc.new) : Fold[acc.new[i].name] \in acc.seen
  BY DEF Marks
<1>2. Fold[c.name] \in Names
  BY CatalogAssumptions DEF Candidates, Catalog!NameAssumption
<1>3. /\ m.seen = acc.seen \cup {Fold[c.name]} /\ m = [seen |-> m.seen, new |-> m.new]
      /\ m.new = IF Catalog!Lacks(c) /\ Fold[c.name] \notin acc.seen THEN Append(acc.new, c) ELSE acc.new
  BY DEF Catalog!Marking
<1> HIDE DEF m
<1>4. m.new \in Seq(Candidates) /\ Fresh(m.new) /\ \A i \in 1 .. Len(m.new) : Fold[m.new[i].name] \in m.seen
  <2>1. CASE m.new = acc.new
    BY <1>1, <1>3, <2>1
  <2>2. CASE Catalog!Lacks(c) /\ Fold[c.name] \notin acc.seen
    <3>1. m.new = Append(acc.new, c) /\ m.new \in Seq(Candidates) /\ Len(m.new) = Len(acc.new) + 1 /\ Len(acc.new) \in Nat
      BY <1>1, <1>3, <2>2
    <3>2. /\ \A i \in 1 .. Len(m.new) : i \in 1 .. Len(acc.new) \/ i = Len(m.new)
          /\ \A i \in 1 .. Len(acc.new) : m.new[i] = acc.new[i] /\ i # Len(m.new)
          /\ m.new[Len(m.new)] = c
      BY <1>1, <3>1
    <3>3. \A i \in 1 .. Len(acc.new) : Fold[acc.new[i].name] # Fold[c.name]
      BY <1>1, <2>2
    <3>4. \A i \in 1 .. Len(m.new) : Catalog!Lacks(m.new[i])
      BY <1>1, <2>2, <3>2 DEF Fresh
    <3>5. ASSUME NEW i \in 1 .. Len(m.new), NEW j \in 1 .. Len(m.new), i # j
          PROVE  Fold[m.new[i].name] # Fold[m.new[j].name]
      <4>1. CASE i \in 1 .. Len(acc.new) /\ j \in 1 .. Len(acc.new)
        BY <1>1, <3>2, <3>5, <4>1 DEF Fresh
      <4>2. CASE i = Len(m.new) \/ j = Len(m.new)
        BY <3>2, <3>3, <3>5, <4>2
      <4> QED BY <3>2, <4>1, <4>2
    <3>6. Fresh(m.new)
      BY <3>4, <3>5 DEF Fresh
    <3> QED BY <1>1, <1>3, <3>1, <3>2, <3>6
  <2> QED BY <1>3, <2>1, <2>2
<1>5. m.seen \in SUBSET Names
  BY <1>1, <1>2, <1>3
<1> QED BY <1>3, <1>4, <1>5 DEF Marks, m

LEMMA MarkingSteps ==
  ASSUME NEW components \in Seq(Catalog!Components)
  PROVE  LET list == Catalog!build_candidates(components) IN
         \E g \in [0 .. Len(list) -> Marks] :
           /\ g[0] = NoMarks
           /\ \A k \in 1 .. Len(list) : g[k] = Catalog!Marking(g[k - 1], list[k])
           /\ Catalog!preview(components) = g[Len(list)].new
<1> DEFINE list == Catalog!build_candidates(components)
           n == Len(list)
           next == [k \in 1 .. n |-> [acc \in Marks |-> Catalog!Marking(acc, list[k])]]
           g == CHOOSE g : Markings(g, list)
<1>1. Catalog!preview(components) = g[n].new
  BY DEF Catalog!preview, Markings, NoMarks
<1>2. list \in Seq(Candidates)
  BY CandidatesDiffer
<1> HIDE DEF list
<1>3. n \in Nat /\ \A k \in 1 .. n : list[k] \in Candidates
  BY <1>2
<1>4. NoMarks \in Marks
  BY DEF NoMarks, Marks, Fresh
<1>5. next \in [1 .. n -> [Marks -> Marks]]
  BY <1>3, MarkingOne
<1>6. \A k \in 1 .. n : \A acc \in Marks : next[k][acc] = Catalog!Marking(acc, list[k])
  OBVIOUS
<1>7. PICK h : Built(h, Marks, NoMarks, next, n)
  <2> HIDE DEF next, n
  <2> QED BY <1>3, <1>4, <1>5, Building
<1> HIDE DEF next
<1>8. /\ h \in [0 .. n -> Marks] /\ h[0] = NoMarks
      /\ \A k \in 1 .. n : h[k - 1] \in Marks /\ h[k] = next[k][h[k - 1]]
  BY <1>3, <1>7 DEF Built
<1>9. \A k \in 0 .. n : h[k] = IF k = 0 THEN NoMarks ELSE Catalog!Marking(h[k - 1], list[k])
  BY <1>6, <1>8
<1>10. \E f : Markings(f, list)
  <2>1. Markings(h, list)
    BY <1>8, <1>9 DEF Markings
  <2> QED BY <2>1
<1>11. Markings(g, list)
  BY <1>10
<1> HIDE DEF g
<1>12. \A k \in 0 .. n : g[k] = IF k = 0 THEN NoMarks ELSE Catalog!Marking(g[k - 1], list[k])
  BY <1>11 DEF Markings
<1>13. \A k \in 0 .. n : g[k] \in Marks
  <2> DEFINE T == {k \in 0 .. n : g[k] \in Marks}
  <2>1. 0 \in T
    BY <1>3, <1>4, <1>12
  <2>2. ASSUME NEW k \in 1 .. n, k - 1 \in T PROVE k \in T
    <3>1. k \in 0 .. n /\ k # 0 /\ g[k - 1] \in Marks
      BY <1>3, <2>2
    <3>2. Catalog!Marking(g[k - 1], list[k]) \in Marks
      BY <1>3, <3>1, MarkingOne
    <3> QED BY <1>12, <3>1, <3>2
  <2>3. \A k \in 0 .. n : k \in T
    <3> HIDE DEF T
    <3> QED BY <1>3, <2>1, <2>2, Upward
  <2> QED BY <2>3
<1>14. g \in [0 .. n -> Marks]
  <2>1. g = [k \in 0 .. n |-> g[k]]
    BY <1>11 DEF Markings
  <2> QED BY <1>13, <2>1
<1>15. \A k \in 1 .. n : k # 0 /\ k \in 0 .. n
  BY <1>3
<1>16. g[0] = NoMarks /\ \A k \in 1 .. n : g[k] = Catalog!Marking(g[k - 1], list[k])
  BY <1>3, <1>12, <1>15
<1> QED BY <1>1, <1>14, <1>16 DEF list

LEMMA PreviewIsFresh ==
  ASSUME NEW components \in Seq(Catalog!Components)
  PROVE  LET new == Catalog!preview(components) IN new \in Seq(Candidates) /\ Fresh(new) /\ NoTwice(new)
<1> DEFINE list == Catalog!build_candidates(components)
           n == Len(list)
<1>1. PICK g \in [0 .. n -> Marks] :
        /\ g[0] = NoMarks
        /\ \A k \in 1 .. n : g[k] = Catalog!Marking(g[k - 1], list[k])
        /\ Catalog!preview(components) = g[n].new
  BY MarkingSteps
<1>2. list \in Seq(Candidates) /\ NoTwice(list)
  BY CandidatesDiffer
<1> HIDE DEF list
<1>3. n \in Nat
  BY <1>2
<1> DEFINE Early(k) == \A i \in 1 .. Len(g[k].new) : \E j \in 1 .. k : g[k].new[i] = list[j]
           T == {k \in 0 .. n : NoTwice(g[k].new) /\ Early(k)}
<1>4. 0 \in T
  BY <1>1, <1>3 DEF NoMarks, NoTwice
<1>5. ASSUME NEW k \in 1 .. n, k - 1 \in T PROVE k \in T
  <2> DEFINE before == g[k - 1].new
             after == g[k].new
  <2>1. k - 1 \in 0 .. n /\ k \in 0 .. n /\ k \in Nat /\ g[k - 1] \in Marks
    BY <1>1, <1>3
  <2>2. before \in Seq(Candidates) /\ NoTwice(before) /\ \A i \in 1 .. Len(before) : \E j \in 1 .. k - 1 : before[i] = list[j]
    BY <1>5, <2>1 DEF Marks
  <2>3. after = before \/ after = Append(before, list[k])
    <3>1. g[k] = Catalog!Marking(g[k - 1], list[k])
      BY <1>1
    <3>2. \A acc, c : Catalog!Marking(acc, c).new = acc.new \/ Catalog!Marking(acc, c).new = Append(acc.new, c)
      BY DEF Catalog!Marking
    <3> QED BY <3>1, <3>2
  <2> HIDE DEF before, after
  <2>4. NoTwice(after) /\ \A i \in 1 .. Len(after) : \E j \in 1 .. k : after[i] = list[j]
    <3>1. CASE after = before
      BY <2>1, <2>2, <3>1
    <3>2. CASE after = Append(before, list[k])
      <4>1. list[k] \in Candidates
        BY <1>2
      <4>2. /\ \A i \in 1 .. Len(after) : i \in 1 .. Len(before) \/ i = Len(after)
            /\ \A i \in 1 .. Len(before) : after[i] = before[i] /\ i # Len(after)
            /\ after[Len(after)] = list[k]
        BY <2>2, <3>2, <4>1
      <4>3. \A j \in 1 .. k - 1 : j \in 1 .. n /\ j # k /\ j \in 1 .. k
        BY <1>3
      <4>4. \A i \in 1 .. Len(before) : list[k].cpe # NoCpe => before[i].cpe # list[k].cpe
        BY <1>2, <2>2, <4>3 DEF NoTwice
      <4>5. NoTwice(after)
        BY <2>2, <4>2, <4>4 DEF NoTwice
      <4>6. k \in 1 .. k
        BY <2>1
      <4> QED BY <2>2, <4>2, <4>3, <4>5, <4>6
    <3> QED BY <2>3, <3>1, <3>2
  <2> QED BY <2>1, <2>4 DEF after
<1>6. n \in T
  <2> HIDE DEF T
  <2>1. \A k \in 0 .. n : k \in T
    BY <1>3, <1>4, <1>5, Upward
  <2> QED BY <1>3, <2>1
<1>7. g[n] \in Marks
  BY <1>1, <1>3
<1> QED BY <1>1, <1>6, <1>7 DEF Marks

\* An import takes each row that differs from the list's and from the others.
LEMMA FreshIsTaken ==
  ASSUME NEW items \in Seq(Candidates), Fresh(items), NoTwice(items)
  PROVE  Catalog!imported(items) = items
<1> DEFINE n == Len(items)
<1>1. items \in Seq(Catalog!Components)
  <2>1. Candidates \subseteq Catalog!Components
    BY CatalogAssumptions DEF Candidates, Catalog!Components, Catalog!ProductAssumption
  <2> QED BY <2>1
<1>2. PICK g \in [0 .. n -> ImportList] :
        /\ g[0] = Existing
        /\ \A k \in 1 .. n : g[k] = Catalog!Taking(g[k - 1], items[k])
        /\ Catalog!imported(items) = g[n].new
  BY <1>1, ImportSteps
<1>3. n \in Nat /\ \A k \in 1 .. n : items[k] \in Candidates
  OBVIOUS
<1> DEFINE Named(k) == \A x \in g[k].names : x \in Catalog!existing_names \/ \E i \in 1 .. k : x = Fold[items[i].name]
           Prefixed(k) == \A x \in g[k].prefixes : x \in Catalog!existing_prefixes \/ \E i \in 1 .. k : x = items[i].cpe
           Same(k) == Len(g[k].new) = k /\ \A i \in 1 .. k : g[k].new[i] = items[i]
           T == {k \in 0 .. n : Named(k) /\ Prefixed(k) /\ Same(k)}
<1> HIDE DEF n
<1>4. 0 \in T
  BY <1>2, <1>3 DEF Existing
<1>5. ASSUME NEW k \in 1 .. n, k - 1 \in T PROVE k \in T
  <2> DEFINE acc == g[k - 1]
             item == items[k]
             row == [name |-> item.name, cpe |-> item.cpe]
             more == [names |-> acc.names \cup {Fold[item.name]}, prefixes |-> acc.prefixes \cup {item.cpe},
                      new |-> Append(acc.new, row)]
  <2>1. k - 1 \in 0 .. n /\ k \in 0 .. n /\ k \in Nat /\ acc \in ImportList /\ item \in Candidates
    BY <1>2, <1>3
  <2>2. \A i \in 1 .. k - 1 : i \in 1 .. k /\ i \in 1 .. n /\ i # k
    BY <1>3
  <2>3. row = item /\ Catalog!Normal(item.cpe) = item.cpe
    BY <2>1, CatalogAssumptions DEF Candidates, Catalog!Normal, Catalog!ProductAssumption
  <2>4. Named(k - 1) /\ Prefixed(k - 1) /\ Same(k - 1)
    BY <1>5
  <2>5. Fold[item.name] \notin acc.names
    <3>1. Fold[item.name] \notin Catalog!existing_names
      BY DEF Fresh, Catalog!Lacks, n
    <3>2. \A i \in 1 .. k - 1 : Fold[item.name] # Fold[items[i].name]
      BY <2>2 DEF Fresh, n
    <3> QED BY <2>4, <3>1, <3>2
  <2>6. item.cpe # NoCpe => item.cpe \notin acc.prefixes
    <3>1. item.cpe # NoCpe => item.cpe \notin Catalog!existing_prefixes
      BY DEF Fresh, Catalog!Lacks, n
    <3>2. \A i \in 1 .. k - 1 : item.cpe # NoCpe => item.cpe # items[i].cpe
      BY <2>2 DEF NoTwice, n
    <3> QED BY <2>4, <3>1, <3>2
  <2>7. g[k] = more
    <3>1. g[k] = Catalog!Taking(acc, item)
      BY <1>2
    <3> HIDE DEF acc, item
    <3> QED BY <2>3, <2>5, <2>6, <3>1 DEF Catalog!Taking
  <2>8. Named(k) /\ Prefixed(k)
    <3>1. g[k].names = acc.names \cup {Fold[items[k].name]} /\ g[k].prefixes = acc.prefixes \cup {items[k].cpe}
      BY <2>7
    <3>2. k \in 1 .. k
      BY <2>1
    <3> QED BY <2>2, <2>4, <3>1, <3>2
  <2>9. Same(k)
    <3>1. g[k].new = Append(acc.new, items[k]) /\ acc.new \in Seq(Rows) /\ Len(acc.new) = k - 1
      BY <2>1, <2>3, <2>4, <2>7 DEF ImportList
    <3>2. /\ \A i \in 1 .. k - 1 : g[k].new[i] = acc.new[i]
          /\ Len(g[k].new) = k /\ g[k].new[k] = items[k]
      BY <2>1, <3>1
    <3>3. \A i \in 1 .. k : i \in 1 .. k - 1 \/ i = k
      BY <2>1
    <3> QED BY <2>4, <3>2, <3>3
  <2> QED BY <2>1, <2>8, <2>9
<1>6. n \in T
  <2> HIDE DEF T
  <2>1. \A k \in 0 .. n : k \in T
    BY <1>3, <1>4, <1>5, Upward
  <2> QED BY <1>3, <2>1
<1>7. g[n].new \in Seq(Rows) /\ Len(g[n].new) = Len(items) /\ \A i \in 1 .. Len(items) : g[n].new[i] = items[i]
  BY <1>2, <1>3, <1>6 DEF ImportList, n
<1>8. g[n].new = items
  <2> DEFINE new == g[n].new
  <2>1. new \in Seq(Rows) /\ Len(new) = Len(items) /\ \A i \in 1 .. Len(items) : new[i] = items[i]
    BY <1>7
  <2> HIDE DEF new
  <2>2. new = [i \in 1 .. Len(new) |-> new[i]]
    BY <2>1
  <2>3. items = [i \in 1 .. Len(items) |-> items[i]]
    OBVIOUS
  <2> QED BY <2>1, <2>2, <2>3 DEF new
<1> QED BY <1>2, <1>8

\* An import of what the preview calls new creates all of it, as it was shown,
\* for any SBOM and any list of vendors (sbom_service.preview, import_vendors).
THEOREM PreviewComesTrue == Spec => []PreviewHolds
<1>1. PreviewHolds
  <2> SUFFICES ASSUME NEW doc \in Documents
               PROVE  Catalog!imported(Catalog!preview(doc)) = Catalog!preview(doc)
    BY DEF PreviewHolds, Catalog!PreviewHolds
  <2>1. doc \in Seq(Catalog!Components)
    BY CatalogAssumptions DEF Catalog!DocumentAssumption
  <2> QED BY <2>1, PreviewIsFresh, FreshIsTaken
<1> QED BY <1>1, PTL
=============================================================================
