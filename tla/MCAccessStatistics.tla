-------------------------- MODULE MCAccessStatistics --------------------------
(* Model-checking instance of AccessStatistics.                              *)
EXTENDS AccessStatistics, TLC
=============================================================================
