------------------------------ MODULE BlockRange ------------------------------
(***************************************************************************)
(* From a WHERE clause to blocks, and back to the sub-query of each block: *)
(* parseWhereClause, getBlockRange and addBlockConditions at an edge.      *)
(* Abstracted: of the clauses of a SELECT only WHERE; a query without it   *)
(* has the clause NoWhere.                                                 *)
(***************************************************************************)
EXTENDS WhereClause

-----------------------------------------------------------------------------
\* The bounds of the time.

Larger(a, b) == IF a >= b THEN a ELSE b
Smaller(a, b) == IF a <= b THEN a ELSE b

NoWhere == [op |-> "none"]
NoBounds == [lo |-> MinTime, hi |-> MaxTime]

\* A comparison counts when it has the column on its left and a literal on its
\* right; what is not below AND is not looked at.
IsTimeBound(e) ==
    /\ e.op \in {">=", ">", "<=", "<"}
    /\ e.l = [op |-> "column", name |-> "date_time"]
    /\ e.r.op = "int"

\* One more or less than the literal may not be an int64: it wraps.
\* Mutant: a strict upper bound is taken one too low.
TightenTwice(b, e) ==
    CASE e.op = ">=" -> [b EXCEPT !.lo = Larger(@, e.r.value)]
      [] e.op = ">" -> [b EXCEPT !.lo = Larger(@, Signed(e.r.value + 1))]
      [] e.op = "<=" -> [b EXCEPT !.hi = Smaller(@, e.r.value)]
      [] e.op = "<" -> [b EXCEPT !.hi = Smaller(@, Signed(e.r.value - 2))]
Tighten(b, e) ==
    CASE e.op = ">=" -> [b EXCEPT !.lo = Larger(@, e.r.value)]
      [] e.op = ">" -> [b EXCEPT !.lo = Larger(@, Signed(e.r.value + 1))]
      [] e.op = "<=" -> [b EXCEPT !.hi = Smaller(@, e.r.value)]
      [] e.op = "<" -> [b EXCEPT !.hi = Smaller(@, Signed(e.r.value - 1))]

\* parseWhereClause, on the bounds found so far.  OR forgets all of them, those
\* of conjuncts before it too.
Narrow[e \in Conditions] ==
    [b \in [lo : Literals, hi : Literals] |->
        CASE e.op = "and" -> Narrow[e.r][Narrow[e.l][b]]
          [] e.op = "or" -> NoBounds
          [] e.op \notin {"and", "or"} /\ IsTimeBound(e) -> Tighten(b, e)
          [] OTHER -> b]

\* parseSQLQuery.
Bounds(where) == IF where = NoWhere THEN NoBounds ELSE Narrow[where][NoBounds]

\* getBlockRange.
FirstBlock(meta, where) == BlockId(meta, Bounds(where).lo)
LastBlock(meta, where) == BlockId(meta, Bounds(where).hi)

\* The blocks the grouping loop visits.  For MaxId the loop variable wraps and
\* the loop has no end.
Unbounded(meta, where) == LastBlock(meta, where) = MaxId
BlocksOf(meta, where) == FirstBlock(meta, where)..LastBlock(meta, where)

-----------------------------------------------------------------------------
\* The sub-query of a block.

\* The text of the WHERE clause addBlockConditions writes.
\* Mutant: the end of the block is included.
SubQueryTextClosed(meta, where, b) ==
    LET Bound(op, t) == << <<"column", "date_time">>, Word(op), <<"int", t>> >>
        original == IF where = NoWhere THEN << >>
                    ELSE <<Open>> \o Text[where] \o <<Close, Word("and")>>
    IN original \o Bound(">=", BlockBegin(meta, b)) \o <<Word("and")>>
       \o Bound("<=", BlockEnd(meta, b))
SubQueryText(meta, where, b) ==
    LET Bound(op, t) == << <<"column", "date_time">>, Word(op), <<"int", t>> >>
        original == IF where = NoWhere THEN << >>
                    ELSE <<Open>> \o Text[where] \o <<Close, Word("and")>>
    IN original \o Bound(">=", BlockBegin(meta, b)) \o <<Word("and")>>
       \o Bound("<", BlockEnd(meta, b))

\* The conditions a database reads from it; when the end of the block does not
\* come after its begin, the query is sent as it came.
SubQueries(meta, where, b) ==
    IF BlockEnd(meta, b) <= BlockBegin(meta, b) THEN {where}
    ELSE Read[SubQueryText(meta, where, b)]
=============================================================================
