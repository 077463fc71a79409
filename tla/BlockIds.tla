------------------------------- MODULE BlockIds -------------------------------
(***************************************************************************)
(* Block ids: uint32, their width scaled down.                             *)
(***************************************************************************)
EXTENDS Integers

CONSTANT IdModulus      \* 2^32

ASSUME IdsArePositive == IdModulus \in Nat \ {0}

MaxId == IdModulus - 1      \* UINT32_MAX
Ids == 0..MaxId
=============================================================================
