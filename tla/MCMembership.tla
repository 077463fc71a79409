---------------------------- MODULE MCMembership ----------------------------
(* A model-checking instance of Membership: both servers are near to the     *)
(* first, but only the second itself to the second.                          *)
EXTENDS Membership

CONSTANTS n1, n2

Addresses == [n \in Nodes |-> IF n = n1 THEN 1 ELSE 2]
NearMap == [n \in Nodes |-> IF n = n1 THEN Nodes ELSE {n}]
=============================================================================
