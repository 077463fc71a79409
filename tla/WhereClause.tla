----------------------------- MODULE WhereClause -----------------------------
(***************************************************************************)
(* The WHERE clause of a query, from the edge that takes it apart to the   *)
(* database that gets it: the expression as hsql's parser hands it over,   *)
(* the text expressionToString makes of it, and what PostgreSQL reads in   *)
(* that text.  expressionToString sets parentheses around AND and OR only; *)
(* the precedence of the operators has to do the rest.                     *)
(* Abstracted: a text is its sequence of tokens; columns and literals are  *)
(* integers (no NULL, no strings, no functions, no subqueries).            *)
(***************************************************************************)
EXTENDS BlockTimes, Sequences, FiniteSets

CONSTANT MaxHeight      \* bound: the height of a clause; the parser's stack has one

ASSUME HeightAssumption == MaxHeight \in Nat /\ MaxHeight >= 2

Comparisons == {"=", "!=", "<", "<=", ">", ">="}
Arithmetic == {"+", "-", "*"}
Columns == {"date_time", "value"}
Literals == MinTime..MaxTime

-----------------------------------------------------------------------------
\* The expressions, by their height.  Arithmetic that needs parentheses is not
\* among them, since its text says something else: the right operand binds more
\* strongly than the operation, the left one as strongly at least.

Atoms == [op : {"column"}, name : Columns] \cup [op : {"int"}, value : Literals]
Nothing == [factor |-> {}, product |-> {}, sum |-> {}, condition |-> {}]
Extended(below) ==
    LET factors == Atoms \cup [op : {"minus"}, l : below.sum]
        products == factors \cup [op : {"*"}, l : below.product, r : below.factor]
    IN  [factor |-> factors,
         product |-> products,
         sum |-> products \cup [op : {"+", "-"}, l : below.sum, r : below.product],
         condition |->
            [op : {"and", "or"}, l : below.condition, r : below.condition]
            \cup [op : {"not"}, l : below.condition]
            \cup [op : Comparisons, l : below.sum, r : below.sum]
            \cup [op : {"between"}, l : below.sum, list : below.sum \X below.sum]
            \cup [op : {"in"}, l : below.sum, list : Seq(below.sum)]]
Language[h \in 0..(MaxHeight + 2)] ==
    IF h = 0 THEN Nothing ELSE Extended(Language[h - 1])

\* What a query may ask, and what a sub-query may: it has two bounds more.
Written == Language[MaxHeight].condition
Terms == Language[MaxHeight + 2].sum
Conditions == Language[MaxHeight + 2].condition

-----------------------------------------------------------------------------
\* expressionToString.  A token is a pair: what it is and its text or value.

Open == <<"mark", "(">>
Close == <<"mark", ")">>
Word(w) == <<"word", w>>

\* Mutant: no parentheses around AND and OR.
JoinedBare(op, left, right) == left \o <<Word(op)>> \o right
Joined(op, left, right) ==
    IF op \in {"and", "or"} THEN <<Open>> \o left \o <<Word(op)>> \o right \o <<Close>>
    ELSE left \o <<Word(op)>> \o right

\* BETWEEN and IN keep their operands in exprList, where the function does not
\* look; a minus sign before an operand is none of the operators it knows.
Text[e \in Terms \cup Conditions] ==
    CASE e.op = "column" -> << <<"column", e.name>> >>
      [] e.op = "int" -> << <<"int", e.value>> >>
      [] e.op = "not" -> <<Word("not")>> \o Text[e.l]
      [] e.op = "between" -> Text[e.l] \o <<Word("between"), Word("and")>>
      [] e.op = "in" -> Text[e.l] \o <<Word("in")>>
      [] e.op = "minus" -> Text[e.l] \o <<Word("??")>>
      [] OTHER -> Joined(e.op, Text[e.l], Text[e.r])

-----------------------------------------------------------------------------
\* PostgreSQL's grammar: how strongly an operator binds.

Words == Comparisons \cup Arithmetic \cup {"and", "or", "not", "between", "in", "??"}
Strength(w) ==
    CASE w = "or" -> 1 [] w = "and" -> 2 [] w = "not" -> 3
      [] w \in Comparisons -> 4
      [] w \in {"between", "in"} -> 5
      [] w = "??" -> 6
      [] w \in {"+", "-"} -> 7
      [] w = "*" -> 8

Tokens ==
    ({"mark"} \X {"(", ")"}) \cup ({"word"} \X Words)
    \cup ({"column"} \X Columns) \cup ({"int"} \X Literals)

\* The operators of a text outside its parentheses, those that bind least, and
\* the last of these.
Depth(text, i) ==
    Cardinality({j \in 1..i : text[j] = Open}) - Cardinality({j \in 1..i : text[j] = Close})
Outer(text) == {i \in 1..Len(text) : text[i][1] = "word" /\ Depth(text, i) = 0}
Weakest(text) ==
    {i \in Outer(text) : \A j \in Outer(text) : Strength(text[i][2]) <= Strength(text[j][2])}
Root(text) == CHOOSE i \in Weakest(text) : \A j \in Weakest(text) : j <= i

\* The expressions a text can be read as: one, or none when the text is refused.
\* Binary operators associate to the left, comparisons not at all.
Read[text \in Seq(Tokens)] ==
    LET root == Root(text)
        w == text[root][2]
        left == SubSeq(text, 1, root - 1)
        right == SubSeq(text, root + 1, Len(text))
    IN
    CASE Outer(text) # {} ->
            IF w = "not"
            THEN IF 1 \in Weakest(text) THEN {[op |-> "not", l |-> e] : e \in Read[Tail(text)]}
                 ELSE {}
            ELSE IF \/ w \in {"between", "in", "??"}
                    \/ w \in Comparisons /\ Weakest(text) # {root}
            THEN {}
            ELSE {[op |-> w, l |-> e[1], r |-> e[2]] : e \in Read[left] \X Read[right]}
      [] Outer(text) = {} /\ Len(text) = 1 ->
            CASE text[1][1] = "column" -> {[op |-> "column", name |-> text[1][2]]}
              [] text[1][1] = "int" -> {[op |-> "int", value |-> text[1][2]]}
              [] OTHER -> {}
      [] OTHER ->
            IF Len(text) > 2 /\ text[1] = Open /\ text[Len(text)] = Close
            THEN Read[SubSeq(text, 2, Len(text) - 1)] ELSE {}

-----------------------------------------------------------------------------
\* What an expression says of a row.

Rows == [date_time : MinTime..MaxTime, value : Int]

\* A term, given the values of its parts.
Computed(value, e, row) ==
    CASE e.op = "column" -> row[e.name]
      [] e.op = "int" -> e.value
      [] e.op = "+" -> value[e.l][row] + value[e.r][row]
      [] e.op = "-" -> value[e.l][row] - value[e.r][row]
      [] e.op = "*" -> value[e.l][row] * value[e.r][row]
      [] e.op = "minus" -> -value[e.l][row]
Value[e \in Terms] == [row \in Rows |-> Computed(Value, e, row)]

\* A condition, given which of its parts hold.
Satisfied(holds, e, row) ==
    \/ e.op = "and" /\ holds[e.l][row] /\ holds[e.r][row]
    \/ e.op = "or" /\ (holds[e.l][row] \/ holds[e.r][row])
    \/ e.op = "not" /\ ~holds[e.l][row]
    \/ e.op = "=" /\ Value[e.l][row] = Value[e.r][row]
    \/ e.op = "!=" /\ Value[e.l][row] # Value[e.r][row]
    \/ e.op = "<" /\ Value[e.l][row] < Value[e.r][row]
    \/ e.op = "<=" /\ Value[e.l][row] <= Value[e.r][row]
    \/ e.op = ">" /\ Value[e.l][row] > Value[e.r][row]
    \/ e.op = ">=" /\ Value[e.l][row] >= Value[e.r][row]
    \/ /\ e.op = "between"
       /\ Value[e.list[1]][row] <= Value[e.l][row]
       /\ Value[e.l][row] <= Value[e.list[2]][row]
    \/ e.op = "in" /\ \E i \in DOMAIN e.list : Value[e.list[i]][row] = Value[e.l][row]
Holds[e \in Conditions] == [row \in Rows |-> Satisfied(Holds, e, row)]
=============================================================================
