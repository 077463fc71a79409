--------------------------- MODULE MCConnectionPool ---------------------------
(* A model-checking instance of ConnectionPool: five callers compete for     *)
(* three connections.                                                        *)
EXTENDS ConnectionPool

CONSTANTS c1, c2, c3, c4, c5
=============================================================================
