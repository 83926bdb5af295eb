--------------------------- MODULE OrgIntegration ---------------------------
(* The settings of one organisation: its own NVD key, which is confirmed     *)
(* with NVD before it is saved, and how often its vendors are synced.        *)
EXTENDS Integers

CONSTANTS
  Admins,         \* requests that can be served at the same time
  Keys,           \* NVD keys that are tried
  NoKey,          \* none is stored
  Absent,         \* a field that the patch leaves out
  Hours,          \* cadences that are asked for
  MinHours        \* the shortest cadence that the plan allows

KeyAssumption == NoKey \notin Keys /\ Absent \notin Keys \cup {NoKey}
HourAssumption == Hours \subseteq Nat /\ MinHours \in Nat /\ Absent \notin Hours

VARIABLES
  integration,  \* org_integrations
  admin,        \* the requests
  confirmed,    \* history: the keys that NVD has confirmed
  overlapped    \* history: two requests have been served at once

settingsVars == <<integration, admin, confirmed, overlapped>>

Default == [row |-> FALSE, key |-> NoKey, verified |-> FALSE, cadence |-> MinHours]
Waiting == [pc |-> "idle", key |-> Absent, valid |-> FALSE, hours |-> Absent, found |-> Default]

Init ==
  /\ integration = Default
  /\ admin = [a \in Admins |-> Waiting]
  /\ confirmed = {} /\ overlapped = FALSE

\* apply_patch: an empty patch changes nothing.
Patches(key, hours) == key # Absent \/ hours # Absent

\* require_sync_interval
Allowed(hours) == hours # Absent => hours >= MinHours

\* update_integration up to its commit: NVD is asked about a new key, which it
\* confirms, or has no verdict on (valid = FALSE); one that it refuses ends the
\* request, as does a cadence that the plan does not allow.
Ask(a, key, valid, hours) ==
  /\ admin[a].pc = "idle"
  /\ Patches(key, hours) /\ Allowed(hours)
  /\ valid => key \in Keys
  /\ admin' = [admin EXCEPT ![a] =
       [pc |-> "asked", key |-> key, valid |-> valid, hours |-> hours, found |-> integration]]
  /\ confirmed' = IF valid THEN confirmed \cup {key} ELSE confirmed
  /\ overlapped' = (overlapped \/ \E b \in Admins : admin[b].pc # "idle")
  /\ UNCHANGED integration

\* What the commit writes: a column whose value is not the one that was read.
\* Mutant of Verified: a key without a verdict leaves the mark as it is.
StillVerified(r) == r.key # Absent /\ (r.valid \/ (r.key \in Keys /\ r.found.verified))
Verified(r) == IF r.key = Absent THEN r.found.verified ELSE r.valid

\* get_or_create has inserted the row that was not there: only one request can.
Save(a) ==
  LET r == admin[a]
      Column(new, read, old) == IF new = read THEN old ELSE new
  IN /\ r.pc = "asked"
     /\ integration.row = r.found.row
     /\ integration' =
          [row |-> TRUE,
           key |-> IF r.key = Absent \/ (r.key = NoKey /\ r.found.key = NoKey) THEN integration.key ELSE r.key,
           verified |-> Column(Verified(r), r.found.verified, integration.verified) \/ (r.valid /\ r.key # Absent),
           cadence |-> IF r.hours = Absent THEN integration.cadence
                       ELSE Column(r.hours, r.found.cadence, integration.cadence)]
     /\ admin' = [admin EXCEPT ![a] = Waiting]
     /\ UNCHANGED <<confirmed, overlapped>>

\* NVD refuses the key, the plan refuses the cadence, the row is there by now.
Refused(a) ==
  /\ admin[a].pc = "asked"
  /\ admin' = [admin EXCEPT ![a] = Waiting]
  /\ UNCHANGED <<integration, confirmed, overlapped>>

Next ==
  \E a \in Admins :
    \/ \E key \in Keys \cup {NoKey, Absent}, valid \in BOOLEAN, hours \in Hours \cup {Absent} : Ask(a, key, valid, hours)
    \/ Save(a) \/ Refused(a)

Spec == Init /\ [][Next]_settingsVars
------------------------------------------------------------------------------
(* Properties.                                                               *)

\* A key that is shown as confirmed is the one that NVD has confirmed: another
\* key, one without a verdict or none at all does not inherit the mark
\* (update_integration).  Two changes at once can mix their columns.
KeyConfirmed == integration.verified /\ ~overlapped => integration.key \in confirmed
=============================================================================
