---------------------------- MODULE MCPlannerPool ----------------------------
(* Instances of PlannerPool for TLC.                                       *)
EXTENDS PlannerPool

CONSTANTS t1, t2, t3, t4

MCBatch4 == <<t1, t2, t3, t4>>
=============================================================================
