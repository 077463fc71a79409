----------------------------- MODULE MCEdgeQuery -----------------------------
(* Model-checking instances of EdgeQuery.                                    *)
EXTENDS EdgeQuery, TLC

CONSTANTS n1, n2

\* The second node is nearer than the first.
Latencies == [n \in Nodes |-> IF n = n1 THEN 20 ELSE 5]
Addresses == [n \in Nodes |-> IF n = n1 THEN 1 ELSE 2]
QuerySymmetry == Permutations(Queries)
=============================================================================
