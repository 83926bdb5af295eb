------------------------------ MODULE MCTenant ------------------------------
(* The rows of a tenant for TLC.  The parts share no state, so that each step *)
(* of one commutes with each of another: a behaviour runs one of them.        *)
EXTENDS Tenant, TLC

CONSTANTS
  acme, acmeCaps, zed, yak, log4j, log4jTyped,  \* vendors and their CPEs
  r1, g1, g2, ann, bob                          \* a rule, Google accounts, addresses

VARIABLE part  \* the one that runs

MCFold == [n \in Names |-> IF n = acmeCaps THEN acme ELSE n]
MCProduct == [c \in Cpes |-> log4j]
MCLabel == [p \in Products |-> acme]
MCDocuments ==
  {<<[name |-> n, cpe |-> c], [name |-> zed, cpe |-> NoCpe]>> : n \in {acmeCaps, yak}, c \in {NoCpe, log4jTyped}}
  \cup {<<[name |-> acme, cpe |-> NoCpe], [name |-> yak, cpe |-> log4j]>>}

MCAssessments == {[tier |-> "Low", kev_count |-> 0], [tier |-> "High", kev_count |-> 0], [tier |-> "High", kev_count |-> 1]}
MCFirst == [r \in Rules |-> [type |-> IF r = r1 THEN "tier_change" ELSE "new_kev", active |-> TRUE, days |-> 1]]
MCFacts ==
  {[threat |-> "T2", cve_count |-> 1, kev_count |-> 0], [threat |-> "T4", cve_count |-> 2, kev_count |-> 1]}

\* Two people with an address each, or one address of which only one account is
\* the verified owner.
MCAtFirst ==
  {[s \in Subjects |-> [email |-> IF s = g1 THEN ann ELSE bob, verified |-> TRUE]],
   [s \in Subjects |-> [email |-> ann, verified |-> s = g1]]}

\* Requests of every kind have the same names.
Symmetry == Permutations(Requests)

MCInit ==
  /\ part \in {"catalog", "settings", "risk", "alerts", "accounts", "photo", "portfolio", "keys", "logins"}
  /\ Init
  /\ part # "accounts" => google[g2].email = bob

\* To keep it small, there are no changes at Google or of an account by an operator
\* in a behaviour where a sign-in is cancelled or loses its cookie on the way.
Undisturbed == \A b \in Browsers : \A tab \in tabs'[b] : tab.answer # Cancelled /\ cookie'[b] = tab.flow

MCNext ==
  /\ UNCHANGED part
  /\ \/ part = "catalog" /\ CatalogStep
     \/ part = "settings" /\ SettingsStep
     \/ part = "risk" /\ RiskStep
     \/ part = "alerts" /\ AlertsStep
     \/ part = "accounts" /\ AccountsStep /\ (changes' = 0 \/ Undisturbed)
     \/ part = "photo" /\ PhotoStep
     \/ part = "portfolio" /\ ReportsStep
     \/ part = "keys" /\ GoogleStep
     \/ part = "logins" /\ HistoryStep

MCSpec == MCInit /\ [][MCNext]_<<part, tenantVars>>
=============================================================================
