-------------------------- MODULE MCCacheReplacement --------------------------
(* Model-checking instances of CacheReplacement: two edge servers, each      *)
(* nearer to the other than the center is.  The first keeps Bloom filters,   *)
(* the second a MixIndex about the first.                                    *)
EXTENDS CacheReplacement, TLC

CONSTANTS n1, n2

AllNear == [n \in Nodes |-> Nodes]
SecondExact == {<<n2, n1>>}
BlockSymmetry == Permutations(Blocks)
=============================================================================
