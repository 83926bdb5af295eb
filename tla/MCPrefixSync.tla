---------------------------- MODULE MCPrefixSync ----------------------------
(* Instances of PrefixSync for TLC.                                         *)
EXTENDS PrefixSync, TLC

CONSTANTS v1, v2, acme, globex

OneOrg == [v \in Vendors |-> acme]
TwoOrgs == [v \in Vendors |-> IF v = v1 THEN acme ELSE globex]
Daily == [v \in Vendors |-> 2]
Hourly == [v \in Vendors |-> 1]
OnlyV1 == {v1}

\* To keep it small, a behaviour has faults, or else edits and uses of the Sync
\* button; and NVD revises no CVE when there is an edit and a use of the button.
Revised == \E c \in Cves : nvd'[c].mod # nvd'[c].pub
Apart ==
  \/ spent'.edits = 0 /\ spent'.clicks = 0
  \/ spent'.faults + spent'.lapses = 0 /\ (spent'.edits = 0 \/ spent'.clicks = 0 \/ ~Revised)

WorkerSymmetry == Permutations(Workers)
WorkerCveSymmetry == Permutations(Workers) \cup Permutations(Cves)
=============================================================================
