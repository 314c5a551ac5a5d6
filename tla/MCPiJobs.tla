-------------------------------- MODULE MCPiJobs --------------------------------
(* Instances of PiJobs for TLC. *)
EXTENDS PiJobs

CONSTANTS u1, u2, n1, n2

TwoUploads == {u1, u2}
OneName    == {n1}
TwoNames   == {n1, n2}
=============================================================================
