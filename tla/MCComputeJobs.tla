----------------------------- MODULE MCComputeJobs -----------------------------
(* Instances of ComputeJobs for TLC. *)
EXTENDS ComputeJobs

CONSTANTS t1, t2, j1

TwoThreads == {t1, t2}
OneJob     == {j1}
=============================================================================
