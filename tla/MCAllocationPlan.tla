--------------------------- MODULE MCAllocationPlan ---------------------------
(* Model-checking instance of AllocationPlan: more blocks than the nodes can *)
(* hold, so that blocks displace one another.                                *)
EXTENDS AllocationPlan, TLC
=============================================================================
