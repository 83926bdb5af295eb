---------------------------- MODULE MCNvdBucket ----------------------------
(* Instances of NvdBucket for TLC.                                          *)
EXTENDS NvdBucket

CONSTANTS backfill, sync

Waits == [c \in Callers |-> 3]
=============================================================================
