---------------------------- MODULE MCNodeActivity ----------------------------
(* Instances of NodeActivity for TLC. *)
EXTENDS NodeActivity

CONSTANTS c1, c2

OneClient  == {c1}
TwoClients == {c1, c2}
=============================================================================
