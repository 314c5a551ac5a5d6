----------------------------- MODULE MCPlanStore -----------------------------
(* Instances of PlanStore for TLC. *)
EXTENDS PlanStore

CONSTANTS t1, t2, p1

TwoThreads == {t1, t2}
OneThread  == {t1}
OnePlan    == {p1}
=============================================================================
