--------------------------- MODULE MCQueryPlanning ---------------------------
(* Model-checking instance of QueryPlanning: a neighbour that pushes enough  *)
(* blocks for every kind of container, one that pushes few.                  *)
EXTENDS QueryPlanning, TLC

CONSTANTS n1, n2, s1, s2

PushedBlocks ==
    n1 :> [mix |-> {s1} \X (0..5), bloom |-> {<<s1, 0>>, <<s2, 0>>}] @@
    n2 :> [mix |-> {<<s1, 0>>}, bloom |-> {<<s1, 0>>, <<s1, 5>>}]

KeyHash ==
    [k \in Keys |-> CASE k = <<s1, 0>> -> <<0, 1>>
                      [] k = <<s1, 5>> -> <<0, 4>>
                      [] OTHER -> <<2, 3>>]

RowTimes == {<<3, 4>>, <<1, 4>>}

Time == [op |-> "column", name |-> "date_time"]
Reading == [op |-> "column", name |-> "value"]
Lit(n) == [op |-> "int", value |-> n]
Op(o, a, b) == [op |-> o, l |-> a, r |-> b]

\* Two bounds, and what is no bound before, between or after them: conditions
\* on another column, a disjunction, a negation, arithmetic, a bound with the
\* literal on its left; and what expressionToString cannot write.
Bounded == {Op("and", Op(l, Time, Lit(a)), Op(h, Time, Lit(b))) :
              l \in {">=", ">"}, h \in {"<=", "<"}, a \in {0, 4, 7}, b \in {7, 9, 10}}
One == Op("and", Op(">", Time, Lit(3)), Op("<=", Time, Lit(9)))
Others ==
    {Op("=", Reading, Lit(1)), Op(">=", Time, Lit(8)),
     Op("<", Lit(5), Time),
     Op("or", Op("=", Reading, Lit(0)), Op("<", Time, Lit(6))),
     [op |-> "not", l |-> Op("or", Op("=", Reading, Lit(0)), Op("<", Time, Lit(6)))],
     [op |-> "not", l |-> Op(">", Time, Lit(6))],
     Op(">", Op("-", Op("-", Time, Reading), Op("*", Lit(2), Reading)), Lit(4)),
     [op |-> "in", l |-> Reading, list |-> <<Lit(0), Lit(2)>>],
     [op |-> "between", l |-> Time, list |-> <<Lit(4), Lit(8)>>],
     Op(">", Reading, [op |-> "minus", l |-> Lit(1)])}
WhereClauses ==
    Bounded \cup Others \cup {NoWhere}
    \cup {Op("and", One, e) : e \in Others} \cup {Op("and", e, One) : e \in Others}
    \cup {Op("or", One, e) : e \in Others}
    \cup {[op |-> "not", l |-> One]}
=============================================================================
