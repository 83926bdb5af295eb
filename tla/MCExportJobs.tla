---------------------------- MODULE MCExportJobs ----------------------------
(* Instances of ExportJobs for TLC.                                         *)
EXTENDS ExportJobs, TLC

CONSTANTS acme

AllAcme == [j \in Jobs |-> acme]
SomeSymmetry == Permutations(Workers) \cup Permutations(Clients) \cup Permutations(Purgers)
Symmetry == SomeSymmetry \cup Permutations(Jobs)
=============================================================================
