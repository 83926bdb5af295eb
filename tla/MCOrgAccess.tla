---------------------------- MODULE MCOrgAccess ----------------------------
(* Instances of OrgAccess for TLC.                                          *)
EXTENDS OrgAccess, TLC

Seats == [p \in Plans |-> IF p = "free" THEN 1 ELSE 2]
Symmetry == Permutations(Users \ {Creator}) \cup Permutations(Requests)
=============================================================================
