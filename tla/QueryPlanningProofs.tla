------------------------- MODULE QueryPlanningProofs -------------------------
(***************************************************************************)
(* A query and its sub-queries, for any tables and clauses: the text an    *)
(* edge writes for the database means the condition it was made of, the    *)
(* bounds found in a clause hold for every row it selects, and the blocks  *)
(* of a range share no row.                                                *)
(***************************************************************************)
EXTENDS QueryPlanning, CacheIndexProofs

-----------------------------------------------------------------------------
\* The expressions by their height.

Top == MaxHeight + 2

LEMMA TopIsNat == Top \in Nat /\ MaxHeight \in Nat /\ Top = MaxHeight + 2 /\ MaxHeight >= 2
BY HeightAssumption DEF Top

Levels(f, n) == f = [h \in 0..n |-> IF h = 0 THEN Nothing ELSE Extended(f[h - 1])]

LEMMA LevelsExist == \A n \in Nat : \E f : Levels(f, n)
<1> DEFINE Bad == {n \in Nat : ~\E f : Levels(f, n)}
<1>1. SUFFICES ASSUME Bad # {} PROVE FALSE
  OBVIOUS
<1>2. PICK n \in Bad : \A m \in Bad : n <= m
  BY <1>1, Least
<1>3. n # 0
  <2> DEFINE g == [h \in 0..0 |-> Nothing]
  <2>1. Levels(g, 0)
    BY DEF Levels
  <2> QED BY <2>1
<1>4. n \in Nat /\ n - 1 \in Nat /\ n - 1 \notin Bad
  BY <1>2, <1>3
<1>5. PICK g : Levels(g, n - 1)
  BY <1>4
<1> DEFINE f == [h \in 0..n |-> IF h = n THEN Extended(g[n - 1]) ELSE g[h]]
<1>6. \A h \in 0..(n - 1) : f[h] = g[h]
  BY <1>4
<1>7. \A h \in 0..(n - 1) : g[h] = IF h = 0 THEN Nothing ELSE Extended(g[h - 1])
  BY <1>4, <1>5 DEF Levels
<1>8. f[n] = Extended(g[n - 1]) /\ f = [h \in 0..n |-> f[h]]
  BY <1>4
<1> HIDE DEF f
<1>9. \A h \in 0..n : f[h] = IF h = 0 THEN Nothing ELSE Extended(f[h - 1])
  <2> SUFFICES ASSUME NEW h \in 0..n
               PROVE  f[h] = IF h = 0 THEN Nothing ELSE Extended(f[h - 1])
    OBVIOUS
  <2>1. CASE h = n
    <3>1. f[h - 1] = g[n - 1]
      BY <1>4, <1>6, <2>1
    <3> QED BY <1>3, <1>8, <2>1, <3>1
  <2>2. CASE h # n
    <3>1. h \in 0..(n - 1) /\ (h # 0 => h - 1 \in 0..(n - 1))
      BY <1>4, <2>2
    <3> QED BY <1>6, <1>7, <3>1
  <2> QED BY <2>1, <2>2
<1>10. f = [h \in 0..n |-> IF h = 0 THEN Nothing ELSE Extended(f[h - 1])]
  BY <1>8, <1>9
<1> QED BY <1>2, <1>10 DEF Levels

LEMMA LanguageIs ==
    \A h \in 0..Top : Language[h] = IF h = 0 THEN Nothing ELSE Extended(Language[h - 1])
<1>1. Levels(Language, Top)
  <2>1. \E f : Levels(f, Top)
    BY LevelsExist, TopIsNat
  <2>2. Language = CHOOSE f : Levels(f, Top)
    BY DEF Language, Levels, Top
  <2> QED BY <2>1, <2>2
<1> HIDE DEF Language
<1> QED BY <1>1 DEF Levels

\* What is an expression of some height is one of each larger height.
Within(a, b) ==
    /\ a.factor \subseteq b.factor /\ a.product \subseteq b.product
    /\ a.sum \subseteq b.sum /\ a.condition \subseteq b.condition

LEMMA ExtendedGrows ==
    ASSUME NEW a, NEW b, Within(a, b)
    PROVE  Within(Extended(a), Extended(b))
<1>1. \A s : s \in Seq(a.sum) => s \in Seq(b.sum)
  BY DEF Within
<1>2. Extended(a).factor \subseteq Extended(b).factor
  BY DEF Within, Extended
<1>3. Extended(a).product \subseteq Extended(b).product
  BY DEF Within, Extended
<1>4. Extended(a).sum \subseteq Extended(b).sum
  BY DEF Within, Extended
<1>5. Extended(a).condition \subseteq Extended(b).condition
  BY <1>1 DEF Within, Extended
<1> QED BY <1>2, <1>3, <1>4, <1>5 DEF Within

LEMMA LanguageGrows == \A h \in 0..(Top - 1) : Within(Language[h], Language[h + 1])
<1> DEFINE Bad == {h \in Nat : h < Top /\ ~Within(Language[h], Language[h + 1])}
<1>1. SUFFICES ASSUME Bad # {} PROVE FALSE
  <2>1. \A h \in 0..(Top - 1) : h \in Nat /\ h < Top
    BY TopIsNat
  <2> QED BY <2>1
<1>2. PICK h \in Bad : \A k \in Bad : h <= k
  BY <1>1, Least
<1>3. h \in Nat /\ h \in 0..Top /\ h + 1 \in 0..Top /\ h + 1 # 0 /\ (h + 1) - 1 = h
  BY <1>2, TopIsNat
<1>4. Language[h + 1] = Extended(Language[h])
  BY <1>3, LanguageIs
<1>5. CASE h = 0
  <2>1. Language[h] = Nothing
    BY <1>3, <1>5, LanguageIs
  <2> QED BY <1>2, <2>1 DEF Within, Nothing
<1>6. CASE h # 0
  <2>1. h - 1 \in Nat /\ h - 1 < Top /\ (h - 1) + 1 = h /\ ~(h <= h - 1)
    <3>1. h < Top
      BY <1>2
    <3> QED BY <1>3, <1>6, <3>1, TopIsNat
  <2>2. Within(Language[h - 1], Language[h])
    <3>1. h - 1 \notin Bad
      BY <1>2, <2>1
    <3> QED BY <2>1, <3>1
  <2>3. Language[h] = Extended(Language[h - 1])
    BY <1>3, <1>6, LanguageIs
  <2>4. Within(Language[h], Language[h + 1])
    BY <1>4, <2>2, <2>3, ExtendedGrows
  <2> QED BY <1>2, <2>4
<1> QED BY <1>5, <1>6

\* The parts of an expression are expressions of the height below.
Upto(h) == Language[h].sum \cup Language[h].condition

LEMMA UptoZero == Upto(0) = {}
<1>1. Language[0] = Nothing
  BY LanguageIs, TopIsNat
<1> QED BY <1>1 DEF Upto, Nothing

LEMMA Heights ==
    ASSUME NEW h \in 0..Top, h # 0
    PROVE  h - 1 \in 0..Top /\ h - 1 \in 0..(Top - 1) /\ h \in Nat /\ (h - 1) + 1 = h
BY TopIsNat

LEMMA Sorts ==
    ASSUME NEW h \in 0..Top
    PROVE  Language[h].factor \subseteq Language[h].product
           /\ Language[h].product \subseteq Language[h].sum
<1>1. CASE h = 0
  <2>1. Language[h] = Nothing
    BY <1>1, LanguageIs
  <2> QED BY <2>1 DEF Nothing
<1>2. CASE h # 0
  <2>1. Language[h] = Extended(Language[h - 1])
    BY <1>2, LanguageIs
  <2> QED BY <2>1 DEF Extended
<1> QED BY <1>1, <1>2

LEMMA FactorParts ==
    ASSUME NEW h \in 0..Top, h # 0, NEW e \in Language[h].factor
    PROVE  \/ e \in Atoms
           \/ e.op = "minus" /\ e.l \in Language[h - 1].sum
<1>1. Language[h] = Extended(Language[h - 1])
  BY LanguageIs
<1> QED BY <1>1 DEF Extended

LEMMA ProductParts ==
    ASSUME NEW h \in 0..Top, h # 0, NEW e \in Language[h].product
    PROVE  \/ e \in Language[h].factor
           \/ /\ e = [op |-> "*", l |-> e.l, r |-> e.r]
              /\ e.l \in Language[h - 1].product /\ e.r \in Language[h - 1].factor
<1>1. Language[h] = Extended(Language[h - 1])
  BY LanguageIs
<1> QED BY <1>1 DEF Extended

LEMMA SumParts ==
    ASSUME NEW h \in 0..Top, h # 0, NEW e \in Language[h].sum
    PROVE  \/ e \in Language[h].product
           \/ /\ e = [op |-> e.op, l |-> e.l, r |-> e.r] /\ e.op \in {"+", "-"}
              /\ e.l \in Language[h - 1].sum /\ e.r \in Language[h - 1].product
<1>1. Language[h] = Extended(Language[h - 1])
  BY LanguageIs
<1> QED BY <1>1 DEF Extended

LEMMA ConditionParts ==
    ASSUME NEW h \in 0..Top, h # 0, NEW e \in Language[h].condition
    PROVE  \/ /\ e = [op |-> e.op, l |-> e.l, r |-> e.r] /\ e.op \in {"and", "or"}
              /\ e.l \in Language[h - 1].condition /\ e.r \in Language[h - 1].condition
           \/ /\ e = [op |-> "not", l |-> e.l]
              /\ e.l \in Language[h - 1].condition
           \/ /\ e = [op |-> e.op, l |-> e.l, r |-> e.r] /\ e.op \in Comparisons
              /\ e.l \in Language[h - 1].sum /\ e.r \in Language[h - 1].sum
           \/ /\ e.op = "between" /\ e.l \in Language[h - 1].sum
              /\ e.list[1] \in Language[h - 1].sum /\ e.list[2] \in Language[h - 1].sum
           \/ /\ e.op = "in" /\ e.l \in Language[h - 1].sum
              /\ \A i \in DOMAIN e.list : e.list[i] \in Language[h - 1].sum
<1>1. Language[h] = Extended(Language[h - 1])
  BY LanguageIs
<1> DEFINE L == Language[h - 1]
<1> HIDE DEF L
<1>2. \/ e \in [op : {"and", "or"}, l : L.condition, r : L.condition]
      \/ e \in [op : {"not"}, l : L.condition]
      \/ e \in [op : Comparisons, l : L.sum, r : L.sum]
      \/ e \in [op : {"between"}, l : L.sum, list : L.sum \X L.sum]
      \/ e \in [op : {"in"}, l : L.sum, list : Seq(L.sum)]
  BY <1>1 DEF Extended, L
<1>3. CASE e \in [op : {"and", "or"}, l : L.condition, r : L.condition]
  BY <1>3 DEF L
<1>4. CASE e \in [op : {"not"}, l : L.condition]
  BY <1>4 DEF L
<1>5. CASE e \in [op : Comparisons, l : L.sum, r : L.sum]
  BY <1>5 DEF L
<1>6. CASE e \in [op : {"between"}, l : L.sum, list : L.sum \X L.sum]
  BY <1>6 DEF L
<1>7. CASE e \in [op : {"in"}, l : L.sum, list : Seq(L.sum)]
  <2>1. e.op = "in" /\ e.l \in L.sum /\ e.list \in Seq(L.sum)
    BY <1>7
  <2>2. \A i \in DOMAIN e.list : e.list[i] \in L.sum
    BY <2>1
  <2> QED BY <2>1, <2>2 DEF L
<1> QED BY <1>2, <1>3, <1>4, <1>5, <1>6, <1>7

\* All that the functions on expressions look at.
Unary == {"minus", "not", "between", "in"}
Binary == Arithmetic \cup Comparisons \cup {"and", "or"}

LEMMA AtomParts ==
    ASSUME NEW e \in Atoms
    PROVE  \/ e.op = "column" /\ e.name \in Columns /\ e = [op |-> "column", name |-> e.name]
           \/ e.op = "int" /\ e.value \in Literals /\ e = [op |-> "int", value |-> e.value]
BY DEF Atoms

LEMMA TermParts ==
    ASSUME NEW h \in 0..Top, h # 0, NEW e \in Language[h].sum
    PROVE  \/ e \in Atoms
           \/ e.op = "minus" /\ e.l \in Language[h - 1].sum
           \/ /\ e.op \in Arithmetic
              /\ e.l \in Language[h - 1].sum /\ e.r \in Language[h - 1].sum
<1>1. h - 1 \in 0..Top
  BY Heights
<1>2. /\ Language[h - 1].factor \subseteq Language[h - 1].sum
      /\ Language[h - 1].product \subseteq Language[h - 1].sum
  BY <1>1, Sorts
<1>3. CASE e \in Language[h].product
  <2>1. CASE e \in Language[h].factor
    BY <2>1, FactorParts
  <2>2. CASE /\ e = [op |-> "*", l |-> e.l, r |-> e.r]
             /\ e.l \in Language[h - 1].product /\ e.r \in Language[h - 1].factor
    <3>1. e.op = "*"
      BY <2>2
    <3> QED BY <1>2, <2>2, <3>1 DEF Arithmetic
  <2> QED BY <1>3, <2>1, <2>2, ProductParts
<1>4. CASE e.op \in {"+", "-"} /\ e.l \in Language[h - 1].sum /\ e.r \in Language[h - 1].product
  BY <1>2, <1>4 DEF Arithmetic
<1> QED BY <1>3, <1>4, SumParts

LEMMA Parts ==
    ASSUME NEW h \in 0..Top, h # 0, NEW e \in Upto(h)
    PROVE  \/ e \in Atoms
           \/ e.op \in Unary /\ e.l \in Upto(h - 1)
           \/ e.op \in Binary /\ e.l \in Upto(h - 1) /\ e.r \in Upto(h - 1)
<1>1. CASE e \in Language[h].sum
  BY <1>1, TermParts DEF Unary, Binary, Upto
<1>2. CASE e \in Language[h].condition
  <2>1. \/ /\ e.op \in {"and", "or"}
           /\ e.l \in Language[h - 1].condition /\ e.r \in Language[h - 1].condition
        \/ e = [op |-> "not", l |-> e.l] /\ e.l \in Language[h - 1].condition
        \/ e.op \in Comparisons /\ e.l \in Language[h - 1].sum /\ e.r \in Language[h - 1].sum
        \/ e.op = "between" /\ e.l \in Language[h - 1].sum
        \/ e.op = "in" /\ e.l \in Language[h - 1].sum
    BY <1>2, ConditionParts
  <2>2. e = [op |-> "not", l |-> e.l] => e.op = "not"
    OBVIOUS
  <2> QED BY <2>1, <2>2 DEF Unary, Binary, Upto
<1> QED BY <1>1, <1>2 DEF Upto

LEMMA UptoGrows ==
    ASSUME NEW h \in 0..Top, h # 0
    PROVE  /\ Language[h - 1].sum \subseteq Language[h].sum
           /\ Language[h - 1].condition \subseteq Language[h].condition
           /\ Upto(h - 1) \subseteq Upto(h)
<1>1. h - 1 \in 0..(Top - 1) /\ (h - 1) + 1 = h
  BY Heights
<1>2. Within(Language[h - 1], Language[h])
  BY <1>1, LanguageGrows
<1> QED BY <1>2 DEF Within, Upto

-----------------------------------------------------------------------------
\* The functions on expressions satisfy their definitions.  Each is built up
\* height by height: a step looks at parts only.

\* expressionToString.
TextStep(f, e) ==
    CASE e.op = "column" -> << <<"column", e.name>> >>
      [] e.op = "int" -> << <<"int", e.value>> >>
      [] e.op = "not" -> <<Word("not")>> \o f[e.l]
      [] e.op = "between" -> f[e.l] \o <<Word("between"), Word("and")>>
      [] e.op = "in" -> f[e.l] \o <<Word("in")>>
      [] e.op = "minus" -> f[e.l] \o <<Word("??")>>
      [] OTHER -> Joined(e.op, f[e.l], f[e.r])
TextUpto(f, h) == f = [e \in Upto(h) |-> TextStep(f, e)]

LEMMA TextAgrees ==
    ASSUME NEW h \in 0..Top, h # 0, NEW e \in Upto(h), NEW f, NEW g,
           \A x \in Upto(h - 1) : f[x] = g[x]
    PROVE  TextStep(g, e) = TextStep(f, e)
<1>1. CASE e \in Atoms
  <2>1. e.op = "column" \/ e.op = "int"
    BY <1>1, AtomParts
  <2> QED BY <2>1 DEF TextStep
<1>2. CASE e.op \in Unary /\ e.l \in Upto(h - 1)
  <2>1. f[e.l] = g[e.l]
    BY <1>2
  <2> QED BY <1>2, <2>1 DEF TextStep, Unary
<1>3. CASE e.op \in Binary /\ e.l \in Upto(h - 1) /\ e.r \in Upto(h - 1)
  <2>1. f[e.l] = g[e.l] /\ f[e.r] = g[e.r]
    BY <1>3
  <2> QED BY <2>1 DEF TextStep
<1> QED BY <1>1, <1>2, <1>3, Parts

LEMMA TextExists == \A h \in 0..Top : \E f : TextUpto(f, h)
<1> DEFINE Bad == {h \in Nat : h <= Top /\ ~\E f : TextUpto(f, h)}
<1>1. SUFFICES ASSUME Bad # {} PROVE FALSE
  BY TopIsNat
<1>2. PICK h \in Bad : \A k \in Bad : h <= k
  BY <1>1, Least
<1>3. h \in 0..Top
  BY <1>2, TopIsNat
<1>4. h # 0
  <2> DEFINE g == [e \in {} |-> TextStep(<< >>, e)]
  <2>1. TextUpto(g, 0)
    BY UptoZero DEF TextUpto, Upto
  <2> QED BY <1>2, <2>1
<1>5. h - 1 \in Nat /\ h - 1 <= Top /\ h - 1 \notin Bad
  BY <1>2, <1>3, <1>4, Heights
<1>6. PICK g : TextUpto(g, h - 1)
  BY <1>5
<1>7. \A e \in Upto(h - 1) : e \in Upto(h) /\ g[e] = TextStep(g, e)
  BY <1>3, <1>4, <1>6, UptoGrows DEF TextUpto
<1> DEFINE f == [e \in Upto(h) |-> TextStep(g, e)]
<1>8. \A e \in Upto(h - 1) : f[e] = g[e]
  BY <1>7
<1>9. \A e \in Upto(h) : TextStep(g, e) = TextStep(f, e)
  BY <1>3, <1>4, <1>8, TextAgrees
<1>10. f = [e \in Upto(h) |-> TextStep(f, e)]
  BY <1>9
<1> HIDE DEF f
<1>11. TextUpto(f, h)
  BY <1>10 DEF TextUpto
<1> QED BY <1>2, <1>11

LEMMA TextIs == \A e \in Terms \cup Conditions : Text[e] = TextStep(Text, e)
<1>1. TextUpto(Text, Top)
  <2>1. \E f : TextUpto(f, Top)
    BY TextExists, TopIsNat
  <2>2. Text = CHOOSE f : TextUpto(f, Top)
    BY DEF Text, TextUpto, TextStep, Upto, Top, Terms, Conditions
  <2> QED BY <2>1, <2>2
<1> HIDE DEF Text
<1> QED BY <1>1 DEF TextUpto, Upto, Top, Terms, Conditions

\* The value of a term.
ValueStep(f, e) == [row \in Rows |-> Computed(f, e, row)]
ValueUpto(f, h) == f = [e \in Language[h].sum |-> ValueStep(f, e)]

LEMMA ValueAgrees ==
    ASSUME NEW h \in 0..Top, h # 0, NEW e \in Language[h].sum, NEW f, NEW g,
           \A x \in Language[h - 1].sum : f[x] = g[x]
    PROVE  ValueStep(g, e) = ValueStep(f, e)
<1>1. CASE e \in Atoms
  <2>1. e.op = "column" \/ e.op = "int"
    BY <1>1, AtomParts
  <2> QED BY <2>1 DEF ValueStep, Computed
<1>2. CASE e.op = "minus" /\ e.l \in Language[h - 1].sum
  <2>1. f[e.l] = g[e.l]
    BY <1>2
  <2> QED BY <1>2, <2>1 DEF ValueStep, Computed
<1>3. CASE e.op \in Arithmetic /\ e.l \in Language[h - 1].sum /\ e.r \in Language[h - 1].sum
  <2>1. f[e.l] = g[e.l] /\ f[e.r] = g[e.r]
    BY <1>3
  <2> QED BY <2>1 DEF ValueStep, Computed
<1> QED BY <1>1, <1>2, <1>3, TermParts

LEMMA ValueExists == \A h \in 0..Top : \E f : ValueUpto(f, h)
<1> DEFINE Bad == {h \in Nat : h <= Top /\ ~\E f : ValueUpto(f, h)}
<1>1. SUFFICES ASSUME Bad # {} PROVE FALSE
  BY TopIsNat
<1>2. PICK h \in Bad : \A k \in Bad : h <= k
  BY <1>1, Least
<1>3. h \in 0..Top
  BY <1>2, TopIsNat
<1>4. h # 0
  <2> DEFINE g == [e \in {} |-> ValueStep(<< >>, e)]
  <2>1. Language[0].sum = {}
    BY UptoZero DEF Upto
  <2>2. ValueUpto(g, 0)
    BY <2>1 DEF ValueUpto
  <2> QED BY <1>2, <2>2
<1>5. h - 1 \in Nat /\ h - 1 <= Top /\ h - 1 \notin Bad
  BY <1>2, <1>3, <1>4, Heights
<1>6. PICK g : ValueUpto(g, h - 1)
  BY <1>5
<1>7. \A e \in Language[h - 1].sum : e \in Language[h].sum /\ g[e] = ValueStep(g, e)
  BY <1>3, <1>4, <1>6, UptoGrows DEF ValueUpto
<1> DEFINE f == [e \in Language[h].sum |-> ValueStep(g, e)]
<1>8. \A e \in Language[h - 1].sum : f[e] = g[e]
  BY <1>7
<1>9. \A e \in Language[h].sum : ValueStep(g, e) = ValueStep(f, e)
  BY <1>3, <1>4, <1>8, ValueAgrees
<1>10. f = [e \in Language[h].sum |-> ValueStep(f, e)]
  BY <1>9
<1> HIDE DEF f
<1>11. ValueUpto(f, h)
  BY <1>10 DEF ValueUpto
<1> QED BY <1>2, <1>11

LEMMA ValueIs == \A e \in Terms : Value[e] = ValueStep(Value, e)
<1>1. ValueUpto(Value, Top)
  <2>1. \E f : ValueUpto(f, Top)
    BY ValueExists, TopIsNat
  <2>2. Value = CHOOSE f : ValueUpto(f, Top)
    BY DEF Value, ValueUpto, ValueStep, Top, Terms
  <2> QED BY <2>1, <2>2
<1> HIDE DEF Value
<1> QED BY <1>1 DEF ValueUpto, Top, Terms

\* Whether a condition holds.
HoldsStep(f, e) == [row \in Rows |-> Satisfied(f, e, row)]
HoldsUpto(f, h) == f = [e \in Language[h].condition |-> HoldsStep(f, e)]

LEMMA HoldsAgrees ==
    ASSUME NEW h \in 0..Top, h # 0, NEW e \in Language[h].condition, NEW f, NEW g,
           \A x \in Language[h - 1].condition : f[x] = g[x]
    PROVE  HoldsStep(g, e) = HoldsStep(f, e)
<1>1. CASE /\ e.op \in {"and", "or"}
           /\ e.l \in Language[h - 1].condition /\ e.r \in Language[h - 1].condition
  <2>1. f[e.l] = g[e.l] /\ f[e.r] = g[e.r]
    BY <1>1
  <2> QED BY <2>1 DEF HoldsStep, Satisfied
<1>2. CASE e.op = "not" /\ e.l \in Language[h - 1].condition
  <2>1. f[e.l] = g[e.l]
    BY <1>2
  <2> QED BY <1>2, <2>1 DEF HoldsStep, Satisfied
<1>3. CASE e.op \in Comparisons \cup {"between", "in"}
  <2>1. e.op # "and" /\ e.op # "or" /\ e.op # "not"
    BY <1>3 DEF Comparisons
  <2> QED BY <2>1 DEF HoldsStep, Satisfied
<1>4. e = [op |-> "not", l |-> e.l] => e.op = "not"
  OBVIOUS
<1> QED BY <1>1, <1>2, <1>3, <1>4, ConditionParts

LEMMA HoldsExists == \A h \in 0..Top : \E f : HoldsUpto(f, h)
<1> DEFINE Bad == {h \in Nat : h <= Top /\ ~\E f : HoldsUpto(f, h)}
<1>1. SUFFICES ASSUME Bad # {} PROVE FALSE
  BY TopIsNat
<1>2. PICK h \in Bad : \A k \in Bad : h <= k
  BY <1>1, Least
<1>3. h \in 0..Top
  BY <1>2, TopIsNat
<1>4. h # 0
  <2> DEFINE g == [e \in {} |-> HoldsStep(<< >>, e)]
  <2>1. Language[0].condition = {}
    BY UptoZero DEF Upto
  <2>2. HoldsUpto(g, 0)
    BY <2>1 DEF HoldsUpto
  <2> QED BY <1>2, <2>2
<1>5. h - 1 \in Nat /\ h - 1 <= Top /\ h - 1 \notin Bad
  BY <1>2, <1>3, <1>4, Heights
<1>6. PICK g : HoldsUpto(g, h - 1)
  BY <1>5
<1>7. \A e \in Language[h - 1].condition : e \in Language[h].condition /\ g[e] = HoldsStep(g, e)
  BY <1>3, <1>4, <1>6, UptoGrows DEF HoldsUpto
<1> DEFINE f == [e \in Language[h].condition |-> HoldsStep(g, e)]
<1>8. \A e \in Language[h - 1].condition : f[e] = g[e]
  BY <1>7
<1>9. \A e \in Language[h].condition : HoldsStep(g, e) = HoldsStep(f, e)
  BY <1>3, <1>4, <1>8, HoldsAgrees
<1>10. f = [e \in Language[h].condition |-> HoldsStep(f, e)]
  BY <1>9
<1> HIDE DEF f
<1>11. HoldsUpto(f, h)
  BY <1>10 DEF HoldsUpto
<1> QED BY <1>2, <1>11

LEMMA HoldsIs == \A e \in Conditions : Holds[e] = HoldsStep(Holds, e)
<1>1. HoldsUpto(Holds, Top)
  <2>1. \E f : HoldsUpto(f, Top)
    BY HoldsExists, TopIsNat
  <2>2. Holds = CHOOSE f : HoldsUpto(f, Top)
    BY DEF Holds, HoldsUpto, HoldsStep, Top, Conditions
  <2> QED BY <2>1, <2>2
<1> HIDE DEF Holds
<1> QED BY <1>1 DEF HoldsUpto, Top, Conditions

\* parseWhereClause.
TimeBounds == [lo : Literals, hi : Literals]
NarrowStep(f, e) ==
    [b \in [lo : Literals, hi : Literals] |->
        CASE e.op = "and" -> f[e.r][f[e.l][b]]
          [] e.op = "or" -> NoBounds
          [] e.op \notin {"and", "or"} /\ IsTimeBound(e) -> Tighten(b, e)
          [] OTHER -> b]
NarrowUpto(f, h) == f = [e \in Language[h].condition |-> NarrowStep(f, e)]

LEMMA NarrowAgrees ==
    ASSUME NEW h \in 0..Top, h # 0, NEW e \in Language[h].condition, NEW f, NEW g,
           \A x \in Language[h - 1].condition : f[x] = g[x]
    PROVE  NarrowStep(g, e) = NarrowStep(f, e)
<1>1. CASE e.op = "and"
  <2>1. e.l \in Language[h - 1].condition /\ e.r \in Language[h - 1].condition
    BY <1>1, ConditionParts DEF Comparisons
  <2>2. f[e.l] = g[e.l] /\ f[e.r] = g[e.r]
    BY <2>1
  <2> QED BY <1>1, <2>2 DEF NarrowStep
<1>2. CASE e.op # "and"
  BY <1>2 DEF NarrowStep
<1> QED BY <1>1, <1>2

LEMMA NarrowExists == \A h \in 0..Top : \E f : NarrowUpto(f, h)
<1> DEFINE Bad == {h \in Nat : h <= Top /\ ~\E f : NarrowUpto(f, h)}
<1>1. SUFFICES ASSUME Bad # {} PROVE FALSE
  BY TopIsNat
<1>2. PICK h \in Bad : \A k \in Bad : h <= k
  BY <1>1, Least
<1>3. h \in 0..Top
  BY <1>2, TopIsNat
<1>4. h # 0
  <2> DEFINE g == [e \in {} |-> NarrowStep(<< >>, e)]
  <2>1. Language[0].condition = {}
    BY UptoZero DEF Upto
  <2>2. NarrowUpto(g, 0)
    BY <2>1 DEF NarrowUpto
  <2> QED BY <1>2, <2>2
<1>5. h - 1 \in Nat /\ h - 1 <= Top /\ h - 1 \notin Bad
  BY <1>2, <1>3, <1>4, Heights
<1>6. PICK g : NarrowUpto(g, h - 1)
  BY <1>5
<1>7. \A e \in Language[h - 1].condition : e \in Language[h].condition /\ g[e] = NarrowStep(g, e)
  BY <1>3, <1>4, <1>6, UptoGrows DEF NarrowUpto
<1> DEFINE f == [e \in Language[h].condition |-> NarrowStep(g, e)]
<1>8. \A e \in Language[h - 1].condition : f[e] = g[e]
  BY <1>7
<1>9. \A e \in Language[h].condition : NarrowStep(g, e) = NarrowStep(f, e)
  BY <1>3, <1>4, <1>8, NarrowAgrees
<1>10. f = [e \in Language[h].condition |-> NarrowStep(f, e)]
  BY <1>9
<1> HIDE DEF f
<1>11. NarrowUpto(f, h)
  BY <1>10 DEF NarrowUpto
<1> QED BY <1>2, <1>11

LEMMA NarrowIs == \A e \in Conditions : Narrow[e] = NarrowStep(Narrow, e)
<1>1. NarrowUpto(Narrow, Top)
  <2>1. \E f : NarrowUpto(f, Top)
    BY NarrowExists, TopIsNat
  <2>2. Narrow = CHOOSE f : NarrowUpto(f, Top)
    BY DEF Narrow, NarrowUpto, NarrowStep, Top, Conditions
  <2> QED BY <2>1, <2>2
<1> HIDE DEF Narrow
<1> QED BY <1>1 DEF NarrowUpto, Top, Conditions

-----------------------------------------------------------------------------
\* What PostgreSQL reads in a text.
ReadStep(f, text) ==
    LET root == Root(text)
        w == text[root][2]
        left == SubSeq(text, 1, root - 1)
        right == SubSeq(text, root + 1, Len(text))
    IN
    CASE Outer(text) # {} ->
            IF w = "not"
            THEN IF 1 \in Weakest(text) THEN {[op |-> "not", l |-> e] : e \in f[Tail(text)]}
                 ELSE {}
            ELSE IF \/ w \in {"between", "in", "??"}
                    \/ w \in Comparisons /\ Weakest(text) # {root}
            THEN {}
            ELSE {[op |-> w, l |-> e[1], r |-> e[2]] : e \in f[left] \X f[right]}
      [] Outer(text) = {} /\ Len(text) = 1 ->
            CASE text[1][1] = "column" -> {[op |-> "column", name |-> text[1][2]]}
              [] text[1][1] = "int" -> {[op |-> "int", value |-> text[1][2]]}
              [] OTHER -> {}
      [] OTHER ->
            IF Len(text) > 2 /\ text[1] = Open /\ text[Len(text)] = Close
            THEN f[SubSeq(text, 2, Len(text) - 1)] ELSE {}

ShorterThan(n) == {text \in Seq(Tokens) : Len(text) < n}

LEMMA StrengthIs ==
    /\ \A w \in Words : Strength(w) \in 1..8
    /\ \A w \in Comparisons : Strength(w) = 4
    /\ Strength("and") = 2 /\ Strength("or") = 1 /\ Strength("not") = 3
    /\ Strength("+") = 7 /\ Strength("-") = 7 /\ Strength("*") = 8
BY DEF Words, Comparisons, Arithmetic, Strength

LEMMA WordTokens ==
    ASSUME NEW text \in Seq(Tokens), NEW i \in 1..Len(text), text[i][1] = "word"
    PROVE  text[i][2] \in Words /\ text[i] = Word(text[i][2])
<1>1. text[i] \in Tokens
  OBVIOUS
<1> QED BY <1>1 DEF Tokens, Word

LEMMA RootIs ==
    ASSUME NEW text \in Seq(Tokens), Outer(text) # {}
    PROVE  /\ Root(text) \in Weakest(text) /\ Root(text) \in Outer(text)
           /\ Root(text) \in 1..Len(text)
           /\ \A j \in Weakest(text) : j <= Root(text)
<1>1. \A i \in Outer(text) : i \in 1..Len(text) /\ Strength(text[i][2]) \in Nat
  BY WordTokens, StrengthIs DEF Outer
<1>2. Weakest(text) # {}
  <2> DEFINE Strengths == {n \in Nat : \E i \in Outer(text) : n = Strength(text[i][2])}
  <2>1. Strengths # {}
    BY <1>1
  <2>2. PICK n \in Strengths : \A m \in Strengths : n <= m
    BY <2>1, Least
  <2>3. PICK i \in Outer(text) : n = Strength(text[i][2])
    BY <2>2
  <2>4. \A j \in Outer(text) : Strength(text[j][2]) \in Strengths
    BY <1>1
  <2>5. i \in Weakest(text)
    BY <2>2, <2>3, <2>4 DEF Weakest
  <2> QED BY <2>5
<1>3. \E i \in Weakest(text) : \A j \in Weakest(text) : j <= i
  <2> DEFINE Behind == {n \in Nat : \E i \in Weakest(text) : n = Len(text) - i}
  <2>0. Weakest(text) \subseteq Outer(text) /\ Len(text) \in Nat
    BY DEF Weakest
  <2>1. \A i \in Weakest(text) : i \in 1..Len(text) /\ Len(text) - i \in Behind
    BY <1>1, <2>0
  <2>2. PICK n \in Behind : \A m \in Behind : n <= m
    BY <1>2, <2>1, Least
  <2>3. PICK i \in Weakest(text) : n = Len(text) - i
    BY <2>2
  <2>4. ASSUME NEW j \in Weakest(text) PROVE j <= i
    <3>1. n <= Len(text) - j
      BY <2>1, <2>2
    <3>2. i \in Int /\ j \in Int /\ n = Len(text) - i
      BY <2>1, <2>3
    <3> QED BY <2>0, <3>1, <3>2
  <2> QED BY <2>4
<1>4. Root(text) \in Weakest(text) /\ \A j \in Weakest(text) : j <= Root(text)
  BY <1>3 DEF Root
<1> QED BY <1>1, <1>4 DEF Weakest

\* The texts around the root, and inside parentheses, are shorter.
LEMMA PartsOfText ==
    ASSUME NEW text \in Seq(Tokens)
    PROVE  /\ \A i \in 1..Len(text) :
                /\ SubSeq(text, 1, i - 1) \in Seq(Tokens)
                /\ Len(SubSeq(text, 1, i - 1)) = i - 1
                /\ SubSeq(text, i + 1, Len(text)) \in Seq(Tokens)
                /\ Len(SubSeq(text, i + 1, Len(text))) = Len(text) - i
                /\ \A k \in 1..(i - 1) : SubSeq(text, 1, i - 1)[k] = text[k]
                /\ \A k \in 1..(Len(text) - i) : SubSeq(text, i + 1, Len(text))[k] = text[i + k]
           /\ Len(text) >= 1 =>
                /\ Tail(text) \in Seq(Tokens) /\ Len(Tail(text)) = Len(text) - 1
                /\ \A k \in 1..(Len(text) - 1) : Tail(text)[k] = text[k + 1]
           /\ Len(text) >= 2 =>
                /\ SubSeq(text, 2, Len(text) - 1) \in Seq(Tokens)
                /\ Len(SubSeq(text, 2, Len(text) - 1)) = Len(text) - 2
                /\ \A k \in 1..(Len(text) - 2) : SubSeq(text, 2, Len(text) - 1)[k] = text[k + 1]
<1>0. Len(text) \in Nat /\ \A k \in 1..Len(text) : text[k] \in Tokens
  OBVIOUS
<1>1. ASSUME NEW i \in 1..Len(text)
      PROVE  /\ SubSeq(text, 1, i - 1) \in Seq(Tokens)
             /\ Len(SubSeq(text, 1, i - 1)) = i - 1
             /\ SubSeq(text, i + 1, Len(text)) \in Seq(Tokens)
             /\ Len(SubSeq(text, i + 1, Len(text))) = Len(text) - i
             /\ \A k \in 1..(i - 1) : SubSeq(text, 1, i - 1)[k] = text[k]
             /\ \A k \in 1..(Len(text) - i) : SubSeq(text, i + 1, Len(text))[k] = text[i + k]
  <2>1. \A k \in 1..(i - 1) : k \in 1..Len(text)
    BY <1>0
  <2>2. \A k \in (i + 1)..Len(text) : k \in 1..Len(text)
    BY <1>0
  <2>3. SubSeq(text, 1, i - 1) \in Seq(Tokens) /\ Len(SubSeq(text, 1, i - 1)) = i - 1
        /\ \A k \in 1..(i - 1) : SubSeq(text, 1, i - 1)[k] = text[k]
    BY <1>0, <2>1
  <2>4. SubSeq(text, i + 1, Len(text)) \in Seq(Tokens)
        /\ Len(SubSeq(text, i + 1, Len(text))) = Len(text) - i
        /\ \A k \in 1..(Len(text) - i) : SubSeq(text, i + 1, Len(text))[k] = text[i + k]
    BY <1>0, <2>2
  <2> QED BY <2>3, <2>4
<1>2. ASSUME Len(text) >= 1
      PROVE  /\ Tail(text) \in Seq(Tokens) /\ Len(Tail(text)) = Len(text) - 1
             /\ \A k \in 1..(Len(text) - 1) : Tail(text)[k] = text[k + 1]
  BY <1>2, <1>0
<1>3. ASSUME Len(text) >= 2
      PROVE  /\ SubSeq(text, 2, Len(text) - 1) \in Seq(Tokens)
             /\ Len(SubSeq(text, 2, Len(text) - 1)) = Len(text) - 2
             /\ \A k \in 1..(Len(text) - 2) : SubSeq(text, 2, Len(text) - 1)[k] = text[k + 1]
  <2>1. \A k \in 2..(Len(text) - 1) : k \in 1..Len(text)
    BY <1>0
  <2>2. SubSeq(text, 2, Len(text) - 1) \in Seq(Tokens)
        /\ Len(SubSeq(text, 2, Len(text) - 1)) = Len(text) - 2
    <3>1. \A k \in 2..(Len(text) - 1) : text[k] \in Tokens
      BY <1>0, <2>1
    <3>2. 2 \in Int /\ Len(text) - 1 \in Int
      BY <1>0
    <3> DEFINE inner == SubSeq(text, 2, Len(text) - 1)
    <3>3. inner \in Seq(Tokens)
          /\ Len(inner) = IF 2 <= Len(text) - 1 THEN (Len(text) - 1) - 2 + 1 ELSE 0
      BY <3>1, <3>2, SubSeqProperties
    <3> HIDE DEF inner
    <3>4. (IF 2 <= Len(text) - 1 THEN (Len(text) - 1) - 2 + 1 ELSE 0) = Len(text) - 2
      <4> DEFINE n == Len(text)
      <4>1. n \in Nat /\ n >= 2
        BY <1>0, <1>3
      <4> HIDE DEF n
      <4>2. (IF 2 <= n - 1 THEN (n - 1) - 2 + 1 ELSE 0) = n - 2
        BY <4>1
      <4> QED BY <4>2 DEF n
    <3>5. inner \in Seq(Tokens) /\ Len(inner) = Len(text) - 2
      BY <3>3, <3>4
    <3> QED BY <3>5 DEF inner
  <2>3. \A k \in 1..(Len(text) - 2) : SubSeq(text, 2, Len(text) - 1)[k] = text[k + 1]
    BY <1>0, <1>3
  <2> QED BY <2>2, <2>3
<1> QED BY <1>1, <1>2, <1>3

LEMMA ReadAgrees ==
    ASSUME NEW text \in Seq(Tokens), NEW f, NEW g,
           \A t \in ShorterThan(Len(text)) : f[t] = g[t]
    PROVE  ReadStep(g, text) = ReadStep(f, text)
<1>1. CASE Outer(text) # {}
  <2>1. Root(text) \in 1..Len(text) /\ Len(text) \in Nat
    BY <1>1, RootIs
  <2>2. /\ SubSeq(text, 1, Root(text) - 1) \in ShorterThan(Len(text))
        /\ SubSeq(text, Root(text) + 1, Len(text)) \in ShorterThan(Len(text))
        /\ Tail(text) \in ShorterThan(Len(text))
    BY <2>1, PartsOfText DEF ShorterThan
  <2>3. /\ f[SubSeq(text, 1, Root(text) - 1)] = g[SubSeq(text, 1, Root(text) - 1)]
        /\ f[SubSeq(text, Root(text) + 1, Len(text))] = g[SubSeq(text, Root(text) + 1, Len(text))]
        /\ f[Tail(text)] = g[Tail(text)]
    BY <2>2
  <2> QED BY <1>1, <2>3 DEF ReadStep
<1>2. CASE Outer(text) = {} /\ Len(text) = 1
  BY <1>2 DEF ReadStep
<1>3. CASE Outer(text) = {} /\ Len(text) # 1
  <2>1. Len(text) > 2 => SubSeq(text, 2, Len(text) - 1) \in ShorterThan(Len(text))
    BY PartsOfText DEF ShorterThan
  <2>2. Len(text) > 2 => f[SubSeq(text, 2, Len(text) - 1)] = g[SubSeq(text, 2, Len(text) - 1)]
    BY <2>1
  <2> QED BY <1>3, <2>2 DEF ReadStep
<1> QED BY <1>1, <1>2, <1>3

ReadBelow(f, n) == f = [text \in ShorterThan(n) |-> ReadStep(f, text)]

LEMMA ReadBelowAt ==
    ASSUME NEW n, NEW f, ReadBelow(f, n), NEW text \in ShorterThan(n)
    PROVE  f[text] = ReadStep(f, text)
BY DEF ReadBelow

\* Two of these functions agree where both are defined.
LEMMA ReadsAgree ==
    ASSUME NEW m \in Nat, NEW n \in Nat, NEW f, NEW g, ReadBelow(f, m), ReadBelow(g, n)
    PROVE  \A text \in ShorterThan(m) : text \in ShorterThan(n) => f[text] = g[text]
<1> DEFINE Bad == {k \in Nat : \E text \in ShorterThan(m) :
                                  text \in ShorterThan(n) /\ f[text] # g[text] /\ k = Len(text)}
<1>1. SUFFICES ASSUME Bad # {} PROVE FALSE
  <2>1. \A text \in ShorterThan(m) : Len(text) \in Nat
    BY DEF ShorterThan
  <2> QED BY <2>1
<1>2. PICK k \in Bad : \A j \in Bad : k <= j
  BY <1>1, Least
<1>3. PICK text \in ShorterThan(m) : text \in ShorterThan(n) /\ f[text] # g[text] /\ k = Len(text)
  BY <1>2
<1>4. text \in Seq(Tokens) /\ k < m /\ k < n /\ k \in Nat
  BY <1>3 DEF ShorterThan
<1>5. ASSUME NEW t \in ShorterThan(k) PROVE f[t] = g[t]
  <2>1. t \in ShorterThan(m) /\ t \in ShorterThan(n) /\ Len(t) \in Nat /\ Len(t) < k
    BY <1>4 DEF ShorterThan
  <2>2. Len(t) \notin Bad
    BY <1>2, <1>4, <2>1
  <2> QED BY <2>1, <2>2
<1>6. ReadStep(g, text) = ReadStep(f, text)
  BY <1>3, <1>4, <1>5, ReadAgrees
<1>7. f[text] = ReadStep(f, text) /\ g[text] = ReadStep(g, text)
  BY <1>3, ReadBelowAt
<1> QED BY <1>3, <1>6, <1>7

LEMMA ReadExists == \A n \in Nat : \E f : ReadBelow(f, n)
<1> DEFINE Bad == {n \in Nat : ~\E f : ReadBelow(f, n)}
<1>1. SUFFICES ASSUME Bad # {} PROVE FALSE
  OBVIOUS
<1>2. PICK n \in Bad : \A k \in Bad : n <= k
  BY <1>1, Least
<1>3. n # 0
  <2> DEFINE g == [text \in {} |-> ReadStep(<< >>, text)]
  <2>1. ShorterThan(0) = {}
    BY DEF ShorterThan
  <2>2. ReadBelow(g, 0)
    BY <2>1 DEF ReadBelow
  <2> QED BY <2>2
<1>4. n \in Nat /\ n - 1 \in Nat /\ n - 1 \notin Bad
  BY <1>2, <1>3
<1>5. PICK g : ReadBelow(g, n - 1)
  BY <1>4
<1> DEFINE f == [text \in ShorterThan(n) |-> ReadStep(g, text)]
<1>6. \A t \in ShorterThan(n - 1) : t \in ShorterThan(n) /\ g[t] = ReadStep(g, t)
  <2>1. \A t \in ShorterThan(n - 1) : t \in ShorterThan(n)
    BY <1>4 DEF ShorterThan
  <2> QED BY <2>1, <1>5, ReadBelowAt
<1>7. \A t \in ShorterThan(n - 1) : f[t] = g[t]
  BY <1>6
<1>8. ASSUME NEW text \in ShorterThan(n) PROVE ReadStep(g, text) = ReadStep(f, text)
  <2>1. text \in Seq(Tokens) /\ ShorterThan(Len(text)) \subseteq ShorterThan(n - 1)
    BY <1>4 DEF ShorterThan
  <2>2. \A t \in ShorterThan(Len(text)) : f[t] = g[t]
    BY <2>1, <1>7
  <2> HIDE DEF f
  <2> QED BY <2>1, <2>2, ReadAgrees
<1>9. f = [text \in ShorterThan(n) |-> ReadStep(f, text)]
  BY <1>8
<1> HIDE DEF f
<1>10. ReadBelow(f, n)
  BY <1>9 DEF ReadBelow
<1> QED BY <1>2, <1>10

LEMMA ReadIs == \A text \in Seq(Tokens) : Read[text] = ReadStep(Read, text)
<1> DEFINE part(n) == CHOOSE f : ReadBelow(f, n)
           f == [text \in Seq(Tokens) |-> part(Len(text) + 1)[text]]
           ReadAll(g) == g = [text \in Seq(Tokens) |-> ReadStep(g, text)]
<1>1. \A n \in Nat : ReadBelow(part(n), n)
  BY ReadExists
<1> HIDE DEF part
<1>2. \A text \in Seq(Tokens) : Len(text) \in Nat /\ Len(text) + 1 \in Nat
  OBVIOUS
<1>3. ASSUME NEW text \in Seq(Tokens), NEW n \in Nat, text \in ShorterThan(n)
      PROVE  f[text] = part(n)[text]
  <2>1. text \in ShorterThan(Len(text) + 1)
    BY <1>2 DEF ShorterThan
  <2>2. ReadBelow(part(n), n) /\ ReadBelow(part(Len(text) + 1), Len(text) + 1)
    BY <1>1, <1>2
  <2>3. part(Len(text) + 1)[text] = part(n)[text]
    BY <1>2, <1>3, <2>1, <2>2, ReadsAgree
  <2> QED BY <2>3
<1>4. ASSUME NEW text \in Seq(Tokens) PROVE f[text] = ReadStep(f, text)
  <2> DEFINE n == Len(text) + 1
  <2>1. n \in Nat /\ text \in ShorterThan(n)
    BY <1>2 DEF ShorterThan
  <2>2. ReadBelow(part(n), n)
    BY <1>1, <2>1
  <2>3. f[text] = ReadStep(part(n), text)
    <3>1. part(n)[text] = ReadStep(part(n), text)
      BY <2>1, <2>2, ReadBelowAt
    <3>2. f[text] = part(n)[text]
      BY <1>3, <2>1
    <3> QED BY <3>1, <3>2
  <2>4. ASSUME NEW t \in ShorterThan(Len(text)) PROVE f[t] = part(n)[t]
    <3>1. t \in Seq(Tokens) /\ t \in ShorterThan(n)
      BY <1>2 DEF ShorterThan
    <3> QED BY <1>3, <2>1, <3>1
  <2> HIDE DEF f
  <2>5. ReadStep(f, text) = ReadStep(part(n), text)
    BY <2>4, ReadAgrees
  <2> QED BY <2>3, <2>5
<1>5. f = [text \in Seq(Tokens) |-> ReadStep(f, text)]
  BY <1>4
<1> HIDE DEF f
<1>6. ReadAll(f)
  BY <1>5
<1>7. Read = CHOOSE g : ReadAll(g)
  BY DEF Read, ReadStep
<1> HIDE DEF Read
<1>8. ReadAll(Read)
  BY <1>6, <1>7
<1> QED BY <1>8
-----------------------------------------------------------------------------
\* The parentheses of a text.

Tick(token) == IF token = Open THEN 1 ELSE IF token = Close THEN -1 ELSE 0

Count(text, token, n) == Cardinality({j \in 1..n : text[j] = token})

LEMMA CountNext ==
    ASSUME NEW text, NEW token, NEW i \in Nat
    PROVE  /\ Count(text, token, 0) = 0 /\ Count(text, token, i) \in Nat
           /\ Count(text, token, i + 1)
                = Count(text, token, i) + (IF text[i + 1] = token THEN 1 ELSE 0)
<1> DEFINE C(n) == {j \in 1..n : text[j] = token}
<1>1. C(0) = {}
  OBVIOUS
<1>2. IsFiniteSet(C(i)) /\ Cardinality(C(i)) \in Nat
  <2>1. IsFiniteSet(1..i)
    BY FS_Interval
  <2>2. C(i) \subseteq 1..i
    OBVIOUS
  <2> QED BY <2>1, <2>2, FS_Subset, FS_CardinalityType
<1>3. Cardinality(C(i + 1)) = Cardinality(C(i)) + (IF text[i + 1] = token THEN 1 ELSE 0)
  <2>1. CASE text[i + 1] = token
    <3>1. C(i + 1) = C(i) \cup {i + 1} /\ i + 1 \notin C(i)
      BY <2>1
    <3> QED BY <1>2, <2>1, <3>1, FS_AddElement
  <2>2. CASE text[i + 1] # token
    <3>1. C(i + 1) = C(i)
      BY <2>2
    <3> QED BY <1>2, <2>2, <3>1
  <2> QED BY <2>1, <2>2
<1>4. Cardinality(C(0)) = 0
  BY <1>1, FS_EmptySet
<1> QED BY <1>2, <1>3, <1>4 DEF Count

LEMMA DepthNext ==
    ASSUME NEW text, NEW i \in Nat
    PROVE  /\ Depth(text, 0) = 0 /\ Depth(text, i) \in Int
           /\ Depth(text, i + 1) = Depth(text, i) + Tick(text[i + 1])
<1> DEFINE opened(n) == Count(text, Open, n)
           closed(n) == Count(text, Close, n)
<1>1. /\ opened(0) = 0 /\ opened(i) \in Nat
      /\ opened(i + 1) = opened(i) + (IF text[i + 1] = Open THEN 1 ELSE 0)
  BY CountNext
<1>2. /\ closed(0) = 0 /\ closed(i) \in Nat
      /\ closed(i + 1) = closed(i) + (IF text[i + 1] = Close THEN 1 ELSE 0)
  BY CountNext
<1>3. \A n : Depth(text, n) = opened(n) - closed(n)
  BY DEF Depth, Count
<1>4. Open # Close
  BY DEF Open, Close
<1> HIDE DEF opened, closed
<1>5. Depth(text, 0) = 0 /\ Depth(text, i) \in Int
  BY <1>1, <1>2, <1>3
<1>6. Depth(text, i + 1) = Depth(text, i) + Tick(text[i + 1])
  <2>1. Depth(text, i + 1) = opened(i + 1) - closed(i + 1) /\ Depth(text, i) = opened(i) - closed(i)
    BY <1>3
  <2>2. CASE text[i + 1] = Open
    BY <1>1, <1>2, <1>4, <2>1, <2>2 DEF Tick
  <2>3. CASE text[i + 1] = Close
    BY <1>1, <1>2, <1>4, <2>1, <2>3 DEF Tick
  <2>4. CASE text[i + 1] # Open /\ text[i + 1] # Close
    BY <1>1, <1>2, <2>1, <2>4 DEF Tick
  <2> QED BY <2>2, <2>3, <2>4
<1> QED BY <1>5, <1>6

\* A text within a text counts its parentheses from where it begins.
ReadsFrom(u, k, v, n) == \A j \in 1..n : u[k + j] = v[j]

LEMMA DepthWithin ==
    ASSUME NEW u, NEW v, NEW k \in Nat, NEW n \in Nat, ReadsFrom(u, k, v, n)
    PROVE  \A i \in 0..n : Depth(u, k + i) = Depth(u, k) + Depth(v, i)
<1> DEFINE Bad == {i \in Nat : i <= n /\ Depth(u, k + i) # Depth(u, k) + Depth(v, i)}
<1>1. SUFFICES ASSUME Bad # {} PROVE FALSE
  OBVIOUS
<1>2. PICK i \in Bad : \A j \in Bad : i <= j
  BY <1>1, Least
<1>3. CASE i = 0
  <2>1. Depth(u, k) \in Int /\ Depth(v, 0) = 0
    BY DepthNext
  <2> QED BY <1>2, <1>3, <2>1
<1>4. CASE i # 0
  <2>1. i - 1 \in Nat /\ k + (i - 1) \in Nat /\ i - 1 \notin Bad /\ i - 1 <= n /\ i \in 1..n
    BY <1>2, <1>4
  <2>2. Depth(u, k + (i - 1)) = Depth(u, k) + Depth(v, i - 1)
    BY <2>1
  <2>3. (i - 1) + 1 = i /\ (k + (i - 1)) + 1 = k + i
    BY <2>1
  <2>4. Depth(v, i) = Depth(v, i - 1) + Tick(v[i]) /\ Depth(v, i - 1) \in Int
    BY <2>1, <2>3, DepthNext
  <2>5. Depth(u, k + i) = Depth(u, k + (i - 1)) + Tick(u[k + i]) /\ Depth(u, k + (i - 1)) \in Int
    BY <2>1, <2>3, DepthNext
  <2>6. u[k + i] = v[i]
    BY <2>1 DEF ReadsFrom
  <2>7. Tick(v[i]) \in Int /\ Depth(u, k) \in Int
    BY DepthNext DEF Tick
  <2>8. Depth(u, k + i) = Depth(u, k) + Depth(v, i)
    BY <2>2, <2>4, <2>5, <2>6, <2>7
  <2> QED BY <1>2, <2>8
<1> QED BY <1>3, <1>4

Balanced(s) ==
    /\ s \in Seq(Tokens) /\ Depth(s, Len(s)) = 0
    /\ \A i \in 0..Len(s) : Depth(s, i) >= 0
Infix(s, w, t) == s \o <<Word(w)>> \o t
Enclosed(s) == <<Open>> \o s \o <<Close>>

LEMMA MarksAreTokens ==
    /\ Open \in Tokens /\ Close \in Tokens /\ Open # Close
    /\ \A w \in Words : /\ Word(w) \in Tokens /\ Word(w) # Open /\ Word(w) # Close
                        /\ Word(w)[1] = "word" /\ Word(w)[2] = w
    /\ Open[1] = "mark" /\ Close[1] = "mark"
BY DEF Open, Close, Word, Tokens

LEMMA InfixIs ==
    ASSUME NEW s \in Seq(Tokens), NEW t \in Seq(Tokens), NEW w \in Words
    PROVE  /\ Infix(s, w, t) \in Seq(Tokens) /\ Len(Infix(s, w, t)) = Len(s) + 1 + Len(t)
           /\ \A i \in 1..Len(s) : Infix(s, w, t)[i] = s[i]
           /\ Infix(s, w, t)[Len(s) + 1] = Word(w)
           /\ \A i \in 1..Len(t) : Infix(s, w, t)[(Len(s) + 1) + i] = t[i]
<1>1. Word(w) \in Tokens
  BY MarksAreTokens
<1> QED BY <1>1 DEF Infix

LEMMA EnclosedIs ==
    ASSUME NEW s \in Seq(Tokens)
    PROVE  /\ Enclosed(s) \in Seq(Tokens) /\ Len(Enclosed(s)) = Len(s) + 2
           /\ Enclosed(s)[1] = Open /\ Enclosed(s)[Len(s) + 2] = Close
           /\ \A i \in 1..Len(s) : Enclosed(s)[1 + i] = s[i]
<1>1. Open \in Tokens /\ Close \in Tokens
  BY MarksAreTokens
<1> QED BY <1>1 DEF Enclosed

LEMMA InfixDepth ==
    ASSUME NEW s, NEW t, NEW w \in Words, Balanced(s), Balanced(t)
    PROVE  /\ \A i \in 0..Len(s) : Depth(Infix(s, w, t), i) = Depth(s, i)
           /\ \A i \in 0..Len(t) : Depth(Infix(s, w, t), (Len(s) + 1) + i) = Depth(t, i)
<1> DEFINE u == Infix(s, w, t)
<1>1. /\ s \in Seq(Tokens) /\ t \in Seq(Tokens) /\ Len(s) \in Nat /\ Len(t) \in Nat
      /\ Depth(s, Len(s)) = 0
  BY DEF Balanced
<1>2. /\ \A i \in 1..Len(s) : u[i] = s[i]
      /\ u[Len(s) + 1] = Word(w)
      /\ \A i \in 1..Len(t) : u[(Len(s) + 1) + i] = t[i]
  BY <1>1, InfixIs
<1> HIDE DEF u
<1>3. ASSUME NEW i \in 0..Len(s) PROVE Depth(u, i) = Depth(s, i)
  <2>1. ReadsFrom(u, 0, s, Len(s)) /\ 0 \in Nat /\ i \in Nat
    BY <1>1, <1>2 DEF ReadsFrom
  <2>2. \A j \in 0..Len(s) : Depth(u, 0 + j) = Depth(u, 0) + Depth(s, j)
    BY <1>1, <2>1, DepthWithin
  <2>3. Depth(u, 0) = 0 /\ Depth(s, i) \in Int /\ 0 + i = i
    BY <2>1, DepthNext
  <2> QED BY <2>2, <2>3
<1>4. Depth(u, Len(s) + 1) = 0
  <2>1. Depth(u, Len(s)) = 0
    BY <1>1, <1>3
  <2>2. Depth(u, Len(s) + 1) = Depth(u, Len(s)) + Tick(u[Len(s) + 1])
    BY <1>1, DepthNext
  <2>3. Tick(u[Len(s) + 1]) = 0
    BY <1>2, MarksAreTokens DEF Tick
  <2> QED BY <2>1, <2>2, <2>3
<1>5. ASSUME NEW i \in 0..Len(t) PROVE Depth(u, (Len(s) + 1) + i) = Depth(t, i)
  <2>1. Len(s) + 1 \in Nat /\ i \in Nat /\ ReadsFrom(u, Len(s) + 1, t, Len(t))
    BY <1>1, <1>2 DEF ReadsFrom
  <2>2. \A j \in 0..Len(t) : Depth(u, (Len(s) + 1) + j) = Depth(u, Len(s) + 1) + Depth(t, j)
    BY <1>1, <2>1, DepthWithin
  <2>3. Depth(t, i) \in Int
    BY <2>1, DepthNext
  <2> QED BY <1>4, <2>2, <2>3
<1> QED BY <1>3, <1>5 DEF u

LEMMA InfixBalanced ==
    ASSUME NEW s, NEW t, NEW w \in Words, Balanced(s), Balanced(t)
    PROVE  Balanced(Infix(s, w, t))
<1> DEFINE u == Infix(s, w, t)
<1>1. /\ s \in Seq(Tokens) /\ t \in Seq(Tokens) /\ Len(s) \in Nat /\ Len(t) \in Nat
      /\ Depth(t, Len(t)) = 0
      /\ \A i \in 0..Len(s) : Depth(s, i) >= 0
      /\ \A i \in 0..Len(t) : Depth(t, i) >= 0
  BY DEF Balanced
<1>2. u \in Seq(Tokens) /\ Len(u) = Len(s) + 1 + Len(t)
  BY <1>1, InfixIs
<1>3. /\ \A i \in 0..Len(s) : Depth(u, i) = Depth(s, i)
      /\ \A i \in 0..Len(t) : Depth(u, (Len(s) + 1) + i) = Depth(t, i)
  BY InfixDepth
<1> HIDE DEF u
<1>4. ASSUME NEW i \in 0..Len(u) PROVE Depth(u, i) >= 0
  <2>1. CASE i <= Len(s)
    BY <1>1, <1>3, <2>1
  <2>2. CASE i > Len(s)
    <3>1. i - (Len(s) + 1) \in 0..Len(t) /\ (Len(s) + 1) + (i - (Len(s) + 1)) = i
      BY <1>1, <1>2, <2>2
    <3>2. Depth(u, (Len(s) + 1) + (i - (Len(s) + 1))) >= 0
      BY <1>1, <1>3, <3>1
    <3> QED BY <3>1, <3>2
  <2> QED BY <1>1, <2>1, <2>2
<1>5. Depth(u, Len(u)) = 0
  <2>1. Len(u) = (Len(s) + 1) + Len(t) /\ Len(t) \in 0..Len(t)
    BY <1>1, <1>2
  <2>2. Depth(u, (Len(s) + 1) + Len(t)) = Depth(t, Len(t))
    BY <1>3, <2>1
  <2> QED BY <1>1, <2>1, <2>2
<1> QED BY <1>2, <1>4, <1>5 DEF Balanced, u

\* The operators outside the parentheses: those of both operands, and the one
\* between them.
LEMMA InfixOuter ==
    ASSUME NEW s, NEW t, NEW w \in Words, Balanced(s), Balanced(t)
    PROVE  /\ Len(s) + 1 \in Outer(Infix(s, w, t))
           /\ \A i \in Outer(Infix(s, w, t)) :
                 \/ i \in Outer(s) /\ Infix(s, w, t)[i] = s[i] /\ i <= Len(s)
                 \/ i = Len(s) + 1
                 \/ \E j \in Outer(t) : i = (Len(s) + 1) + j /\ Infix(s, w, t)[i] = t[j]
<1> DEFINE u == Infix(s, w, t)
<1>1. /\ s \in Seq(Tokens) /\ t \in Seq(Tokens) /\ Len(s) \in Nat /\ Len(t) \in Nat
      /\ Depth(s, Len(s)) = 0
  BY DEF Balanced
<1>2. /\ Len(u) = Len(s) + 1 + Len(t)
      /\ \A i \in 1..Len(s) : u[i] = s[i]
      /\ u[Len(s) + 1] = Word(w)
      /\ \A i \in 1..Len(t) : u[(Len(s) + 1) + i] = t[i]
  BY <1>1, InfixIs
<1>3. /\ \A i \in 0..Len(s) : Depth(u, i) = Depth(s, i)
      /\ \A i \in 0..Len(t) : Depth(u, (Len(s) + 1) + i) = Depth(t, i)
  BY InfixDepth
<1> HIDE DEF u
<1>4. Len(s) + 1 \in Outer(u)
  <2>1. Depth(u, (Len(s) + 1) + 0) = Depth(t, 0)
    BY <1>1, <1>3
  <2>2. (Len(s) + 1) + 0 = Len(s) + 1 /\ Depth(t, 0) = 0
    BY <1>1, DepthNext
  <2>3. u[Len(s) + 1][1] = "word" /\ Len(s) + 1 \in 1..Len(u)
    BY <1>1, <1>2, MarksAreTokens
  <2> QED BY <2>1, <2>2, <2>3 DEF Outer
<1>5. ASSUME NEW i \in Outer(u), i # Len(s) + 1
      PROVE  \/ i \in Outer(s) /\ u[i] = s[i] /\ i <= Len(s)
             \/ \E j \in Outer(t) : i = (Len(s) + 1) + j /\ u[i] = t[j]
  <2>1. i \in 1..Len(u) /\ u[i][1] = "word" /\ Depth(u, i) = 0
    BY DEF Outer
  <2>2. CASE i <= Len(s)
    <3>1. i \in 1..Len(s) /\ i \in 0..Len(s)
      BY <1>1, <2>1, <2>2
    <3> QED BY <1>2, <1>3, <2>1, <2>2, <3>1 DEF Outer
  <2>3. CASE i > Len(s)
    <3> DEFINE j == i - (Len(s) + 1)
    <3>1. j \in 1..Len(t) /\ j \in 0..Len(t) /\ (Len(s) + 1) + j = i
      BY <1>1, <1>2, <1>5, <2>1, <2>3
    <3>2. u[i] = t[j] /\ Depth(t, j) = 0
      BY <1>2, <1>3, <2>1, <3>1
    <3>3. j \in Outer(t)
      BY <2>1, <3>1, <3>2 DEF Outer
    <3> QED BY <3>1, <3>2, <3>3
  <2> QED BY <1>1, <2>1, <2>2, <2>3
<1> QED BY <1>4, <1>5 DEF u

LEMMA EnclosedOuter ==
    ASSUME NEW s, Balanced(s)
    PROVE  Balanced(Enclosed(s)) /\ Outer(Enclosed(s)) = {}
<1> DEFINE u == Enclosed(s)
<1>1. /\ s \in Seq(Tokens) /\ Len(s) \in Nat /\ Depth(s, Len(s)) = 0
      /\ \A i \in 0..Len(s) : Depth(s, i) >= 0
  BY DEF Balanced
<1>2. /\ u \in Seq(Tokens) /\ Len(u) = Len(s) + 2
      /\ u[1] = Open /\ u[Len(s) + 2] = Close
      /\ \A i \in 1..Len(s) : u[1 + i] = s[i]
  BY <1>1, EnclosedIs
<1> HIDE DEF u
<1>3. Depth(u, 0) = 0 /\ Depth(u, 1) = 1
  <2>1. Depth(u, 0) = 0 /\ Depth(u, 0 + 1) = Depth(u, 0) + Tick(u[0 + 1])
    BY DepthNext
  <2> QED BY <1>2, <2>1 DEF Tick
<1>4. ASSUME NEW i \in 0..Len(s) PROVE Depth(u, 1 + i) = 1 + Depth(s, i) /\ Depth(u, 1 + i) > 0
  <2>1. \A j \in 0..Len(s) : Depth(u, 1 + j) = Depth(u, 1) + Depth(s, j)
    <3>1. 1 \in Nat /\ ReadsFrom(u, 1, s, Len(s))
      BY <1>2 DEF ReadsFrom
    <3> QED BY <1>1, <3>1, DepthWithin
  <2>2. Depth(s, i) \in Int /\ Depth(s, i) >= 0
    <3>1. i \in Nat
      BY <1>1
    <3> QED BY <1>1, <3>1, DepthNext
  <2> QED BY <1>3, <2>1, <2>2
<1>5. Depth(u, Len(s) + 2) = 0
  <2>1. Depth(u, 1 + Len(s)) = 1
    BY <1>1, <1>4
  <2>2. Depth(u, (1 + Len(s)) + 1) = Depth(u, 1 + Len(s)) + Tick(u[(1 + Len(s)) + 1])
    BY <1>1, DepthNext
  <2>3. (1 + Len(s)) + 1 = Len(s) + 2
    BY <1>1
  <2>4. Tick(u[Len(s) + 2]) = -1
    BY <1>2, MarksAreTokens DEF Tick
  <2> QED BY <2>1, <2>2, <2>3, <2>4
<1>6. ASSUME NEW i \in 0..Len(u)
      PROVE  i = 0 \/ i = Len(s) + 2 \/ (i - 1 \in 0..Len(s) /\ 1 + (i - 1) = i)
  BY <1>1, <1>2
<1>7. \A i \in 0..Len(u) : i = 0 \/ i = Len(s) + 2 \/ Depth(u, i) > 0
  BY <1>4, <1>6
<1>8. Balanced(u)
  <2>1. ASSUME NEW i \in 0..Len(u) PROVE Depth(u, i) >= 0
    <3>1. i \in Nat /\ (i = 0 \/ i = Len(s) + 2 \/ Depth(u, i) > 0)
      BY <1>1, <1>2, <1>7
    <3>2. Depth(u, i) \in Int
      BY <3>1, DepthNext
    <3> QED BY <1>3, <1>5, <3>1, <3>2
  <2> QED BY <1>2, <1>5, <2>1 DEF Balanced
<1>9. Outer(u) = {}
  <2>1. SUFFICES ASSUME NEW i \in Outer(u) PROVE FALSE
    OBVIOUS
  <2>2. i \in 1..Len(u) /\ i \in 0..Len(u) /\ u[i][1] = "word" /\ Depth(u, i) = 0
    BY DEF Outer
  <2>3. i = Len(s) + 2
    BY <1>7, <2>2
  <2> QED BY <1>2, <2>2, <2>3, MarksAreTokens
<1> QED BY <1>8, <1>9 DEF u

-----------------------------------------------------------------------------
\* What is read in a text put together of two.

\* The operators outside the parentheses bind at least so strongly.
BindsFrom(s, k) == \A i \in Outer(s) : Strength(s[i][2]) >= k

LEMMA OuterStrength ==
    ASSUME NEW text \in Seq(Tokens), NEW i \in Outer(text)
    PROVE  i \in 1..Len(text) /\ Strength(text[i][2]) \in Nat
<1>1. i \in 1..Len(text) /\ text[i][1] = "word"
  BY DEF Outer
<1> QED BY <1>1, WordTokens, StrengthIs

LEMMA SameText ==
    ASSUME NEW a \in Seq(Tokens), NEW b \in Seq(Tokens), Len(a) = Len(b),
           \A i \in 1..Len(a) : a[i] = b[i]
    PROVE  a = b
OBVIOUS

LEMMA InfixStrength ==
    ASSUME NEW s, NEW t, NEW w \in Words, Balanced(s), Balanced(t), NEW m \in Nat, NEW n \in Nat,
           BindsFrom(s, m), BindsFrom(t, n), NEW i \in Outer(Infix(s, w, t))
    PROVE  LET k == Strength(Infix(s, w, t)[i][2]) IN
           \/ i <= Len(s) /\ k >= m
           \/ i = Len(s) + 1 /\ k = Strength(w)
           \/ i > Len(s) + 1 /\ k >= n
<1> DEFINE u == Infix(s, w, t)
<1>1. s \in Seq(Tokens) /\ t \in Seq(Tokens) /\ Len(s) \in Nat
  BY DEF Balanced
<1>2. \/ i \in Outer(s) /\ u[i] = s[i] /\ i <= Len(s)
      \/ i = Len(s) + 1
      \/ \E j \in Outer(t) : i = (Len(s) + 1) + j /\ u[i] = t[j]
  BY InfixOuter
<1>3. u[Len(s) + 1][2] = w
  BY <1>1, InfixIs, MarksAreTokens
<1> HIDE DEF u
<1>4. CASE i \in Outer(s) /\ u[i] = s[i] /\ i <= Len(s)
  BY <1>4 DEF BindsFrom, u
<1>5. CASE i = Len(s) + 1
  BY <1>3, <1>5 DEF u
<1>6. ASSUME NEW j \in Outer(t), i = (Len(s) + 1) + j, u[i] = t[j]
      PROVE  i > Len(s) + 1 /\ Strength(u[i][2]) >= n
  <2>1. j \in 1..Len(t)
    BY <1>1, OuterStrength
  <2> QED BY <1>1, <1>6, <2>1 DEF BindsFrom
<1> QED BY <1>2, <1>4, <1>5, <1>6 DEF u

LEMMA InfixParts ==
    ASSUME NEW s, NEW t, NEW w \in Words, Balanced(s), Balanced(t)
    PROVE  /\ SubSeq(Infix(s, w, t), 1, (Len(s) + 1) - 1) = s
           /\ SubSeq(Infix(s, w, t), (Len(s) + 1) + 1, Len(Infix(s, w, t))) = t
<1> DEFINE u == Infix(s, w, t)
           p == Len(s) + 1
           left == SubSeq(u, 1, p - 1)
           right == SubSeq(u, p + 1, Len(u))
<1>1. s \in Seq(Tokens) /\ t \in Seq(Tokens) /\ Len(s) \in Nat /\ Len(t) \in Nat
  BY DEF Balanced
<1>2. /\ u \in Seq(Tokens) /\ Len(u) = Len(s) + 1 + Len(t)
      /\ \A i \in 1..Len(s) : u[i] = s[i]
      /\ \A i \in 1..Len(t) : u[p + i] = t[i]
  BY <1>1, InfixIs
<1> HIDE DEF u
<1>3. p \in 1..Len(u) /\ p - 1 = Len(s) /\ Len(u) - p = Len(t)
  BY <1>1, <1>2
<1>4. /\ left \in Seq(Tokens) /\ Len(left) = p - 1
      /\ right \in Seq(Tokens) /\ Len(right) = Len(u) - p
      /\ \A k \in 1..(p - 1) : left[k] = u[k]
      /\ \A k \in 1..(Len(u) - p) : right[k] = u[p + k]
  BY <1>2, <1>3, PartsOfText
<1> HIDE DEF p, left, right
<1>5. left = s
  <2>1. Len(left) = Len(s) /\ \A i \in 1..Len(left) : left[i] = s[i]
    BY <1>2, <1>3, <1>4
  <2> QED BY <1>1, <1>4, <2>1, SameText
<1>6. right = t
  <2>1. Len(right) = Len(t) /\ \A i \in 1..Len(right) : right[i] = t[i]
    BY <1>2, <1>3, <1>4
  <2> QED BY <1>1, <1>4, <2>1, SameText
<1> QED BY <1>5, <1>6 DEF u, p, left, right

\* Neither operand is torn apart when what it shows outside its parentheses
\* binds strongly enough.
LEMMA InfixReads ==
    ASSUME NEW s, NEW t, Balanced(s), Balanced(t),
           NEW w \in Words \ {"not", "between", "in", "??"},
           NEW m \in Nat, NEW n \in Nat, BindsFrom(s, m), BindsFrom(t, n),
           m >= Strength(w), n > Strength(w), w \in Comparisons => m > Strength(w)
    PROVE  /\ Read[Infix(s, w, t)]
                = {[op |-> w, l |-> e[1], r |-> e[2]] : e \in Read[s] \X Read[t]}
           /\ BindsFrom(Infix(s, w, t), Strength(w))
<1> DEFINE u == Infix(s, w, t)
           p == Len(s) + 1
           strength(i) == Strength(u[i][2])
<1>1. s \in Seq(Tokens) /\ t \in Seq(Tokens) /\ Len(s) \in Nat /\ Strength(w) \in Nat
  BY StrengthIs DEF Balanced
<1>2. u \in Seq(Tokens) /\ u[p][2] = w /\ p \in Outer(u)
  BY <1>1, InfixIs, InfixOuter, MarksAreTokens
<1>3. \A i \in Outer(u) : \/ i <= Len(s) /\ strength(i) >= m
                          \/ i = p /\ strength(i) = Strength(w)
                          \/ i > p /\ strength(i) >= n
  BY InfixStrength
<1>4. /\ SubSeq(u, 1, p - 1) = s /\ SubSeq(u, p + 1, Len(u)) = t
  BY InfixParts
<1>5. \A i \in Outer(u) : strength(i) \in Nat /\ i \in Nat
  BY <1>2, OuterStrength
<1>6. \A i \in Weakest(u) : i \in Outer(u) /\ \A j \in Outer(u) : strength(i) <= strength(j)
  BY DEF Weakest
<1>7. \A i \in Outer(u) : (\A j \in Outer(u) : strength(i) <= strength(j)) => i \in Weakest(u)
  BY DEF Weakest
<1>8. strength(p) = Strength(w)
  BY <1>2
<1>9. Read[u] = ReadStep(Read, u)
  BY <1>2, ReadIs
<1> HIDE DEF u, p, strength
<1>10. \A i \in Outer(u) : strength(i) >= Strength(w)
  BY <1>1, <1>3, <1>5
<1>11. p \in Weakest(u)
  BY <1>2, <1>7, <1>8, <1>10, <1>1, <1>5
<1>12. \A i \in Weakest(u) : i <= p
  <2>1. SUFFICES ASSUME NEW i \in Weakest(u), ~(i <= p) PROVE FALSE
    OBVIOUS
  <2>2. i \in Outer(u) /\ strength(i) <= Strength(w)
    BY <1>2, <1>6, <1>8
  <2>3. p = Len(s) + 1
    BY DEF p
  <2> QED BY <1>1, <1>3, <1>5, <2>1, <2>2, <2>3
<1>13. Root(u) = p
  <2>1. Root(u) \in Weakest(u) /\ Root(u) \in Outer(u) /\ p <= Root(u)
    BY <1>2, <1>11, RootIs
  <2>2. Root(u) <= p /\ Root(u) \in Nat /\ p \in Nat
    BY <1>2, <1>5, <1>12, <2>1
  <2> QED BY <2>1, <2>2
<1>14. w \in Comparisons => Weakest(u) = {p}
  <2>1. SUFFICES ASSUME w \in Comparisons, NEW i \in Weakest(u) PROVE i = p
    BY <1>11
  <2>2. i \in Outer(u) /\ strength(i) <= Strength(w)
    BY <1>2, <1>6, <1>8, <2>1
  <2> QED BY <1>1, <1>3, <1>5, <2>1, <2>2
<1>15. Read[u] = {[op |-> w, l |-> e[1], r |-> e[2]] : e \in Read[s] \X Read[t]}
  <2>1. Outer(u) # {} /\ w # "not" /\ w \notin {"between", "in", "??"}
        /\ ~(w \in Comparisons /\ Weakest(u) # {p})
    BY <1>2, <1>14
  <2> HIDE DEF Read
  <2> QED BY <1>2, <1>4, <1>9, <1>13, <2>1 DEF ReadStep
<1>16. BindsFrom(u, Strength(w))
  BY <1>10 DEF BindsFrom, strength
<1> QED BY <1>15, <1>16 DEF u

LEMMA EmptyBalanced == Balanced(<< >>) /\ Outer(<< >>) = {} /\ Len(<< >>) = 0
<1>1. Depth(<< >>, 0) = 0
  BY DepthNext
<1>2. << >> \in Seq(Tokens) /\ Len(<< >>) = 0
  OBVIOUS
<1>3. \A i \in 0..0 : Depth(<< >>, i) >= 0
  BY <1>1
<1> QED BY <1>1, <1>2, <1>3 DEF Balanced, Outer

LEMMA NotReads ==
    ASSUME NEW t, Balanced(t), BindsFrom(t, 3)
    PROVE  /\ Balanced(<<Word("not")>> \o t) /\ BindsFrom(<<Word("not")>> \o t, 3)
           /\ Read[<<Word("not")>> \o t] = {[op |-> "not", l |-> e] : e \in Read[t]}
<1> DEFINE u == Infix(<< >>, "not", t)
           s == << >>
           strength(i) == Strength(u[i][2])
<1>1. t \in Seq(Tokens) /\ Len(t) \in Nat /\ s \in Seq(Tokens) /\ Balanced(s) /\ Outer(s) = {}
      /\ Len(s) = 0 /\ "not" \in Words
  BY EmptyBalanced DEF Balanced, Words
<1>2. u = <<Word("not")>> \o t
  BY <1>1, MarksAreTokens DEF Infix
<1>3. Balanced(u)
  BY <1>1, InfixBalanced
<1>4. u \in Seq(Tokens) /\ Len(u) = 1 + Len(t) /\ \A i \in 1..Len(t) : u[1 + i] = t[i]
  <2>1. /\ u \in Seq(Tokens) /\ Len(u) = Len(s) + 1 + Len(t)
        /\ \A i \in 1..Len(t) : u[(Len(s) + 1) + i] = t[i]
    BY <1>1, InfixIs
  <2> HIDE DEF u
  <2> QED BY <1>1, <2>1
<1>5. 1 \in Outer(u)
  <2>1. Len(s) + 1 \in Outer(u)
    BY <1>1, InfixOuter
  <2> HIDE DEF u
  <2> QED BY <1>1, <2>1
<1>6. ASSUME NEW i \in Outer(u) PROVE strength(i) >= 3 /\ strength(i) \in Nat
  <2>1. BindsFrom(s, 3) /\ 3 \in Nat
    BY <1>1 DEF BindsFrom
  <2>2. \/ i <= Len(s) /\ strength(i) >= 3
        \/ i = Len(s) + 1 /\ strength(i) = Strength("not")
        \/ i > Len(s) + 1 /\ strength(i) >= 3
    BY <1>1, <2>1, InfixStrength
  <2>3. strength(i) \in Nat
    BY <1>4, OuterStrength
  <2> HIDE DEF strength
  <2> QED BY <2>2, <2>3, StrengthIs
<1>7. strength(1) = 3
  <2>1. u[Len(s) + 1] = Word("not")
    BY <1>1, InfixIs
  <2>2. u[1][2] = "not"
    BY <1>1, <2>1, MarksAreTokens
  <2> QED BY <2>2, StrengthIs
<1>8. Read[u] = ReadStep(Read, u)
  BY <1>4, ReadIs
<1>9. 1 \in Weakest(u)
  BY <1>5, <1>6, <1>7 DEF Weakest
<1>10. u[Root(u)][2] = "not"
  <2>1. Root(u) \in Weakest(u) /\ Root(u) \in Outer(u)
    BY <1>4, <1>5, RootIs
  <2>2. strength(Root(u)) <= strength(1)
    BY <1>5, <2>1 DEF Weakest
  <2>3. strength(Root(u)) = 3
    BY <1>6, <1>7, <2>1, <2>2
  <2>4. u[Root(u)][2] \in Words
    BY <1>4, <2>1, WordTokens DEF Outer
  <2>5. \A w \in Words : Strength(w) = 3 => w = "not"
    BY DEF Words, Comparisons, Arithmetic, Strength
  <2> QED BY <2>3, <2>4, <2>5
<1>11. Tail(u) = t
  <2>1. Tail(u) \in Seq(Tokens) /\ Len(Tail(u)) = Len(u) - 1
        /\ \A k \in 1..(Len(u) - 1) : Tail(u)[k] = u[k + 1]
    BY <1>1, <1>4, PartsOfText
  <2>2. Len(Tail(u)) = Len(t) /\ \A k \in 1..Len(Tail(u)) : Tail(u)[k] = t[k]
    <3> HIDE DEF u
    <3> QED BY <1>1, <1>4, <2>1
  <2> QED BY <1>1, <2>1, <2>2, SameText
<1>12. BindsFrom(u, 3)
  BY <1>6 DEF BindsFrom
<1> HIDE DEF u
<1>13. Read[u] = {[op |-> "not", l |-> e] : e \in Read[t]}
  BY <1>5, <1>8, <1>9, <1>10, <1>11 DEF ReadStep
<1> QED BY <1>2, <1>3, <1>12, <1>13

LEMMA EnclosedReads ==
    ASSUME NEW s, Balanced(s), Len(s) >= 1
    PROVE  /\ Read[Enclosed(s)] = Read[s] /\ Balanced(Enclosed(s))
           /\ Outer(Enclosed(s)) = {} /\ Len(Enclosed(s)) >= 1
<1> DEFINE u == Enclosed(s)
           inner == SubSeq(u, 2, Len(u) - 1)
<1>1. s \in Seq(Tokens) /\ Len(s) \in Nat
  BY DEF Balanced
<1>2. /\ u \in Seq(Tokens) /\ Len(u) = Len(s) + 2
      /\ u[1] = Open /\ u[Len(s) + 2] = Close
      /\ \A i \in 1..Len(s) : u[1 + i] = s[i]
  BY <1>1, EnclosedIs
<1>3. Balanced(u) /\ Outer(u) = {}
  BY EnclosedOuter
<1>4. Read[u] = ReadStep(Read, u)
  BY <1>2, ReadIs
<1> HIDE DEF u
<1>5. inner = s
  <2>1. Len(u) >= 2
    BY <1>1, <1>2
  <2>2. inner \in Seq(Tokens) /\ Len(inner) = Len(u) - 2
        /\ \A k \in 1..(Len(u) - 2) : inner[k] = u[k + 1]
    BY <1>2, <2>1, PartsOfText
  <2> HIDE DEF inner
  <2>3. Len(inner) = Len(s) /\ \A k \in 1..Len(inner) : inner[k] = s[k]
    BY <1>1, <1>2, <2>2
  <2> QED BY <1>1, <2>2, <2>3, SameText
<1>6. Len(u) > 2 /\ Len(u) # 1 /\ u[Len(u)] = Close
  BY <1>1, <1>2
<1>7. Read[u] = Read[inner]
  BY <1>2, <1>3, <1>4, <1>6 DEF ReadStep
<1> HIDE DEF inner
<1> QED BY <1>3, <1>5, <1>6, <1>7 DEF u

-----------------------------------------------------------------------------
\* A text with an operator the database does not read is refused.

Unread == {Word("between"), Word("in"), Word("??")}
Clean(text) == \A i \in 1..Len(text) : text[i] \notin Unread

LEMMA UnreadIs == \A w \in Words : Word(w) \in Unread <=> w \in {"between", "in", "??"}
BY DEF Word, Unread

LEMMA ReadableIsClean == \A text \in Seq(Tokens) : Read[text] # {} => Clean(text)
<1> DEFINE Bad == {n \in Nat : \E text \in Seq(Tokens) :
                                  Len(text) = n /\ Read[text] # {} /\ ~Clean(text)}
<1>1. SUFFICES ASSUME Bad # {} PROVE FALSE
  OBVIOUS
<1>2. PICK n \in Bad : \A k \in Bad : n <= k
  BY <1>1, Least
<1>3. PICK text \in Seq(Tokens) : Len(text) = n /\ Read[text] # {} /\ ~Clean(text)
  BY <1>2
<1>4. n \in Nat /\ Read[text] = ReadStep(Read, text)
  BY ReadIs
<1>5. ASSUME NEW t \in Seq(Tokens), Len(t) < n, Read[t] # {} PROVE Clean(t)
  <2>1. Len(t) \in Nat /\ Len(t) \notin Bad
    BY <1>2, <1>4, <1>5
  <2> QED BY <1>5, <2>1
<1>6. PICK i \in 1..Len(text) : text[i] \in Unread
  BY <1>3 DEF Clean
<1>7. CASE Outer(text) # {}
  <2> DEFINE p == Root(text)
             w == text[p][2]
             left == SubSeq(text, 1, p - 1)
             right == SubSeq(text, p + 1, Len(text))
  <2>1. p \in 1..Len(text) /\ p \in Outer(text) /\ p \in Weakest(text)
    BY <1>7, RootIs
  <2>2. w \in Words /\ text[p] = Word(w)
    BY <2>1, WordTokens DEF Outer
  <2>3. CASE w = "not"
    <3>1. 1 \in Weakest(text) /\ Read[Tail(text)] # {}
      BY <1>3, <1>4, <1>7, <2>3 DEF ReadStep
    <3>2. Tail(text) \in Seq(Tokens) /\ Len(Tail(text)) = n - 1
          /\ \A k \in 1..(n - 1) : Tail(text)[k] = text[k + 1]
      BY <1>3, <1>4, <2>1, PartsOfText
    <3>3. Clean(Tail(text))
      <4> DEFINE rest == Tail(text)
      <4>1. rest \in Seq(Tokens) /\ Len(rest) = n - 1 /\ Read[rest] # {}
        BY <3>1, <3>2
      <4> HIDE DEF rest
      <4>2. Clean(rest)
        BY <1>4, <1>5, <4>1
      <4> QED BY <4>2 DEF rest
    <3>4. text[1] \notin Unread
      <4>1. 1 \in Outer(text) /\ Strength(text[1][2]) <= Strength(text[p][2])
        BY <2>1, <3>1 DEF Weakest
      <4>2. text[1][2] \in Words /\ text[1] = Word(text[1][2])
        BY <4>1, WordTokens DEF Outer
      <4>3. Strength(text[1][2]) <= 3
        BY <2>3, <4>1, StrengthIs
      <4>4. \A v \in {"between", "in", "??"} : ~(Strength(v) <= 3)
        BY DEF Strength, Comparisons
      <4>5. text[1][2] \notin {"between", "in", "??"}
        BY <4>3, <4>4
      <4> QED BY <4>2, <4>5, UnreadIs
    <3>5. i # 1 => i - 1 \in 1..(n - 1) /\ (i - 1) + 1 = i
      BY <1>3, <1>4
    <3>6. i # 1 => Tail(text)[i - 1] \in Unread /\ i - 1 \in 1..Len(Tail(text))
      BY <1>6, <3>2, <3>5
    <3> QED BY <1>6, <3>3, <3>4, <3>6 DEF Clean
  <2>4. CASE w # "not"
    <3>1. w \notin {"between", "in", "??"} /\ Read[left] # {} /\ Read[right] # {}
      BY <1>3, <1>4, <1>7, <2>4 DEF ReadStep
    <3>2. /\ left \in Seq(Tokens) /\ Len(left) = p - 1
          /\ right \in Seq(Tokens) /\ Len(right) = n - p
          /\ \A k \in 1..(p - 1) : left[k] = text[k]
          /\ \A k \in 1..(n - p) : right[k] = text[p + k]
      BY <1>3, <2>1, PartsOfText
    <3> HIDE DEF left, right
    <3>3. Len(left) < n /\ Len(right) < n
      <4> HIDE DEF p
      <4> QED BY <1>3, <1>4, <2>1, <3>2
    <3>4. Clean(left) /\ Clean(right)
      BY <1>5, <3>1, <3>2, <3>3
    <3>5. i # p
      BY <1>6, <2>2, <3>1, UnreadIs
    <3> HIDE DEF p
    <3>6. i < p => i \in 1..Len(left) /\ left[i] \in Unread
      <4>1. i < p => i \in 1..(p - 1)
        BY <1>3, <1>4, <1>6, <2>1
      <4> QED BY <1>6, <3>2, <4>1
    <3>7. i > p => i - p \in 1..Len(right) /\ p + (i - p) = i
      BY <1>3, <1>4, <1>6, <2>1, <3>2
    <3>8. i > p => right[i - p] \in Unread
      BY <1>6, <3>2, <3>7
    <3> QED BY <2>1, <3>4, <3>5, <3>6, <3>7, <3>8 DEF Clean
  <2> QED BY <2>3, <2>4
<1>8. CASE Outer(text) = {} /\ Len(text) = 1
  <2>1. text[1][1] = "column" \/ text[1][1] = "int"
    BY <1>3, <1>4, <1>8 DEF ReadStep
  <2>2. text[1] \in Unread
    BY <1>6, <1>8
  <2> QED BY <2>1, <2>2 DEF Unread, Word
<1>9. CASE Outer(text) = {} /\ Len(text) # 1
  <2> DEFINE inner == SubSeq(text, 2, Len(text) - 1)
  <2>1. Len(text) > 2 /\ text[1] = Open /\ text[Len(text)] = Close /\ Read[inner] # {}
    BY <1>3, <1>4, <1>9 DEF ReadStep
  <2>2. inner \in Seq(Tokens) /\ Len(inner) = n - 2
        /\ \A k \in 1..(n - 2) : inner[k] = text[k + 1]
    BY <1>3, <2>1, PartsOfText
  <2> HIDE DEF inner
  <2>3. Clean(inner)
    BY <1>4, <1>5, <2>1, <2>2
  <2>4. Open \notin Unread /\ Close \notin Unread
    BY DEF Unread, Word, Open, Close
  <2>5. i # 1 /\ i # n
    BY <1>3, <1>6, <2>1, <2>4
  <2>6. i - 1 \in 1..(n - 2) /\ (i - 1) + 1 = i
    BY <1>3, <1>4, <2>5
  <2>7. inner[i - 1] \in Unread /\ i - 1 \in 1..Len(inner)
    BY <1>6, <2>2, <2>6
  <2> QED BY <2>3, <2>7 DEF Clean
<1> QED BY <1>7, <1>8, <1>9

-----------------------------------------------------------------------------
\* The text of an expression.

LEMMA LanguageContains ==
    ASSUME NEW h \in 0..Top
    PROVE  \A k \in h..Top : Within(Language[h], Language[k])
<1> DEFINE Bad == {k \in Nat : h <= k /\ k <= Top /\ ~Within(Language[h], Language[k])}
<1>1. SUFFICES ASSUME Bad # {} PROVE FALSE
  BY TopIsNat
<1>2. PICK k \in Bad : \A j \in Bad : k <= j
  BY <1>1, Least
<1>3. k # h
  BY <1>2 DEF Within
<1>4. k - 1 \in Nat /\ h <= k - 1 /\ k - 1 <= Top /\ k - 1 \in 0..(Top - 1) /\ (k - 1) + 1 = k
  BY <1>2, <1>3, TopIsNat
<1>5. k - 1 \notin Bad
  BY <1>2, <1>4
<1>6. Within(Language[h], Language[k - 1])
  BY <1>4, <1>5
<1>7. Within(Language[k - 1], Language[k])
  BY <1>4, LanguageGrows
<1>8. Within(Language[h], Language[k])
  BY <1>6, <1>7 DEF Within
<1> QED BY <1>2, <1>8

LEMMA TextAt ==
    ASSUME NEW h \in 0..Top, NEW e \in Upto(h)
    PROVE  Text[e] = TextStep(Text, e)
<1>1. Terms \cup Conditions = Upto(Top)
  BY DEF Terms, Conditions, Upto, Top
<1>2. Upto(h) \subseteq Upto(Top)
  <2>1. Within(Language[h], Language[Top])
    BY LanguageContains, TopIsNat
  <2> QED BY <2>1 DEF Within, Upto
<1> QED BY <1>1, <1>2, TextIs

LEMMA TextIsText ==
    \A h \in 0..Top : \A e \in Upto(h) : Text[e] \in Seq(Tokens)
<1> DEFINE Bad == {h \in Nat : h <= Top /\ \E e \in Upto(h) : Text[e] \notin Seq(Tokens)}
<1>1. SUFFICES ASSUME Bad # {} PROVE FALSE
  BY TopIsNat
<1>2. PICK h \in Bad : \A k \in Bad : h <= k
  BY <1>1, Least
<1>3. h \in 0..Top
  BY <1>2, TopIsNat
<1>4. PICK e \in Upto(h) : Text[e] \notin Seq(Tokens)
  BY <1>2
<1>5. h # 0
  BY <1>4, UptoZero
<1>6. h - 1 \in Nat /\ h - 1 <= Top /\ h - 1 \notin Bad
  BY <1>2, <1>3, <1>5, Heights
<1>7. \A x \in Upto(h - 1) : Text[x] \in Seq(Tokens)
  BY <1>6
<1>8. Text[e] = TextStep(Text, e)
  BY <1>3, TextAt
<1>9. \A w \in Words : Word(w) \in Tokens
  BY MarksAreTokens
<1>10. CASE e \in Atoms
  <2>1. CASE e.op = "column" /\ e.name \in Columns
    <3>1. <<"column", e.name>> \in Tokens
      BY <2>1 DEF Tokens
    <3>2. Text[e] = << <<"column", e.name>> >>
      BY <1>8, <2>1 DEF TextStep
    <3> QED BY <1>4, <3>1, <3>2
  <2>2. CASE e.op = "int" /\ e.value \in Literals
    <3>1. <<"int", e.value>> \in Tokens
      BY <2>2 DEF Tokens
    <3>2. Text[e] = << <<"int", e.value>> >>
      BY <1>8, <2>2 DEF TextStep
    <3> QED BY <1>4, <3>1, <3>2
  <2> QED BY <1>10, <2>1, <2>2, AtomParts
<1>11. CASE e.op \in Unary /\ e.l \in Upto(h - 1)
  <2>1. Text[e.l] \in Seq(Tokens)
    BY <1>7, <1>11
  <2>2. /\ Word("not") \in Tokens /\ Word("between") \in Tokens /\ Word("and") \in Tokens
        /\ Word("in") \in Tokens /\ Word("??") \in Tokens
    BY <1>9 DEF Words
  <2>3. \/ Text[e] = <<Word("not")>> \o Text[e.l]
        \/ Text[e] = Text[e.l] \o <<Word("between"), Word("and")>>
        \/ Text[e] = Text[e.l] \o <<Word("in")>>
        \/ Text[e] = Text[e.l] \o <<Word("??")>>
    BY <1>8, <1>11 DEF TextStep, Unary
  <2> DEFINE x == Text[e.l]
  <2> HIDE DEF x
  <2>4. \A y \in Seq(Tokens) : /\ <<Word("not")>> \o y \in Seq(Tokens)
                               /\ y \o <<Word("between"), Word("and")>> \in Seq(Tokens)
                               /\ y \o <<Word("in")>> \in Seq(Tokens)
                               /\ y \o <<Word("??")>> \in Seq(Tokens)
    BY <2>2
  <2> QED BY <1>4, <2>1, <2>3, <2>4
<1>12. CASE e.op \in Binary /\ e.l \in Upto(h - 1) /\ e.r \in Upto(h - 1)
  <2>1. Text[e.l] \in Seq(Tokens) /\ Text[e.r] \in Seq(Tokens)
    BY <1>7, <1>12
  <2>2. Text[e] = Joined(e.op, Text[e.l], Text[e.r]) /\ e.op \in Words
    BY <1>8, <1>12 DEF TextStep, Binary, Words, Comparisons, Arithmetic
  <2>3. \A y \in Seq(Tokens), z \in Seq(Tokens), w \in Words : Joined(w, y, z) \in Seq(Tokens)
    BY MarksAreTokens DEF Joined
  <2> QED BY <1>4, <2>1, <2>2, <2>3
<1> QED BY <1>3, <1>5, <1>10, <1>11, <1>12, Parts

\* What is written for an expression is read as that expression, and shows
\* outside its parentheses only operators that bind at least so strongly.
MeansItself(e, k) ==
    /\ Balanced(Text[e]) /\ Len(Text[e]) >= 1
    /\ BindsFrom(Text[e], k) /\ Read[Text[e]] = {e}

LEMMA BindsLess ==
    ASSUME NEW s \in Seq(Tokens), NEW k \in Nat, NEW m \in Nat, k <= m, BindsFrom(s, m)
    PROVE  BindsFrom(s, k)
<1>1. \A i \in Outer(s) : Strength(s[i][2]) \in Nat
  BY OuterStrength
<1> QED BY <1>1 DEF BindsFrom

LEMMA MeansLess ==
    ASSUME NEW e, NEW k \in Nat, NEW m \in Nat, k <= m, MeansItself(e, m)
    PROVE  MeansItself(e, k)
<1>1. Text[e] \in Seq(Tokens)
  BY DEF MeansItself, Balanced
<1> QED BY <1>1, BindsLess DEF MeansItself

LEMMA TokenReads ==
    ASSUME NEW token \in Tokens, token # Open, token # Close, token[1] # "word"
    PROVE  /\ Balanced(<<token>>) /\ Len(<<token>>) = 1 /\ Outer(<<token>>) = {}
           /\ Read[<<token>>] = CASE token[1] = "column" -> {[op |-> "column", name |-> token[2]]}
                                  [] token[1] = "int" -> {[op |-> "int", value |-> token[2]]}
                                  [] OTHER -> {}
<1> DEFINE s == <<token>>
<1>1. s \in Seq(Tokens) /\ Len(s) = 1 /\ s[1] = token
  OBVIOUS
<1>2. Read[s] = ReadStep(Read, s)
  BY <1>1, ReadIs
<1> HIDE DEF s
<1>3. Depth(s, 0) = 0 /\ Depth(s, 1) = 0
  <2>1. Depth(s, 0) = 0 /\ Depth(s, 0 + 1) = Depth(s, 0) + Tick(s[0 + 1])
    BY DepthNext
  <2> QED BY <1>1, <2>1 DEF Tick
<1>4. Balanced(s)
  BY <1>1, <1>3 DEF Balanced
<1>5. Outer(s) = {}
  BY <1>1 DEF Outer
<1>6. Read[s] = CASE token[1] = "column" -> {[op |-> "column", name |-> token[2]]}
                  [] token[1] = "int" -> {[op |-> "int", value |-> token[2]]}
                  [] OTHER -> {}
  BY <1>1, <1>2, <1>5 DEF ReadStep
<1> QED BY <1>1, <1>4, <1>5, <1>6 DEF s

LEMMA AtomMeans ==
    ASSUME NEW e \in Atoms, Text[e] = TextStep(Text, e)
    PROVE  MeansItself(e, 9)
<1>1. CASE e.op = "column" /\ e.name \in Columns /\ e = [op |-> "column", name |-> e.name]
  <2> DEFINE token == <<"column", e.name>>
  <2>1. token \in Tokens /\ token # Open /\ token # Close
        /\ token[1] = "column" /\ token[2] = e.name
    BY <1>1 DEF Tokens, Open, Close
  <2>2. Text[e] = <<token>>
    BY <1>1 DEF TextStep
  <2> HIDE DEF token
  <2>3. /\ Balanced(<<token>>) /\ Len(<<token>>) = 1 /\ Outer(<<token>>) = {}
        /\ Read[<<token>>] = {[op |-> "column", name |-> e.name]}
    BY <2>1, TokenReads
  <2> QED BY <1>1, <2>2, <2>3 DEF MeansItself, BindsFrom
<1>2. CASE e.op = "int" /\ e.value \in Literals /\ e = [op |-> "int", value |-> e.value]
  <2> DEFINE token == <<"int", e.value>>
  <2>1. token \in Tokens /\ token # Open /\ token # Close
        /\ token[1] = "int" /\ token[2] = e.value
    BY <1>2 DEF Tokens, Open, Close
  <2>2. Text[e] = <<token>>
    BY <1>2 DEF TextStep
  <2> HIDE DEF token
  <2>3. /\ Balanced(<<token>>) /\ Len(<<token>>) = 1 /\ Outer(<<token>>) = {}
        /\ Read[<<token>>] = {[op |-> "int", value |-> e.value]}
    BY <2>1, TokenReads
  <2> QED BY <1>2, <2>2, <2>3 DEF MeansItself, BindsFrom
<1> QED BY <1>1, <1>2, AtomParts

LEMMA PairRead ==
    ASSUME NEW w, NEW l, NEW r
    PROVE  {[op |-> w, l |-> e[1], r |-> e[2]] : e \in {l} \X {r}}
             = {[op |-> w, l |-> l, r |-> r]}
<1>1. {l} \X {r} = {<<l, r>>}
  OBVIOUS
<1> QED BY <1>1

LEMMA InfixMeans ==
    ASSUME NEW l, NEW r, NEW w \in Words \ {"not", "between", "in", "??"},
           NEW m \in Nat, NEW n \in Nat, MeansItself(l, m), MeansItself(r, n),
           m >= Strength(w), n > Strength(w), w \in Comparisons => m > Strength(w)
    PROVE  LET u == Infix(Text[l], w, Text[r]) IN
           /\ Balanced(u) /\ Len(u) >= 1 /\ BindsFrom(u, Strength(w))
           /\ Read[u] = {[op |-> w, l |-> l, r |-> r]}
<1> DEFINE s == Text[l]
           t == Text[r]
           u == Infix(s, w, t)
<1>1. /\ Balanced(s) /\ BindsFrom(s, m) /\ Read[s] = {l}
      /\ Balanced(t) /\ BindsFrom(t, n) /\ Read[t] = {r}
  BY DEF MeansItself
<1> HIDE DEF s, t
<1>2. Balanced(u)
  BY <1>1, InfixBalanced
<1>3. Len(u) >= 1
  <2>1. s \in Seq(Tokens) /\ t \in Seq(Tokens) /\ Len(s) \in Nat /\ Len(t) \in Nat
    BY <1>1 DEF Balanced
  <2>2. Len(u) = Len(s) + 1 + Len(t)
    BY <2>1, InfixIs
  <2> HIDE DEF u
  <2> QED BY <2>1, <2>2
<1>4. BindsFrom(u, Strength(w))
      /\ Read[u] = {[op |-> w, l |-> e[1], r |-> e[2]] : e \in Read[s] \X Read[t]}
  BY <1>1, InfixReads
<1>5. Read[u] = {[op |-> w, l |-> l, r |-> r]}
  BY <1>1, <1>4, PairRead
<1> QED BY <1>2, <1>3, <1>4, <1>5 DEF s, t

LEMMA CleanInfix ==
    ASSUME NEW s \in Seq(Tokens), NEW t \in Seq(Tokens), NEW w \in Words, Clean(Infix(s, w, t))
    PROVE  Clean(s) /\ Clean(t) /\ w \notin {"between", "in", "??"}
<1> DEFINE u == Infix(s, w, t)
<1>1. /\ Len(u) = Len(s) + 1 + Len(t)
      /\ \A i \in 1..Len(s) : u[i] = s[i]
      /\ u[Len(s) + 1] = Word(w)
      /\ \A i \in 1..Len(t) : u[(Len(s) + 1) + i] = t[i]
  BY InfixIs
<1>2. \A i \in 1..Len(u) : u[i] \notin Unread
  BY DEF Clean
<1> HIDE DEF u
<1>3. Len(s) \in Nat /\ Len(t) \in Nat
  OBVIOUS
<1>4. \A i \in 1..Len(s) : i \in 1..Len(u)
  BY <1>1, <1>3
<1>5. \A i \in 1..Len(t) : (Len(s) + 1) + i \in 1..Len(u)
  BY <1>1, <1>3
<1>6. Len(s) + 1 \in 1..Len(u)
  BY <1>1, <1>3
<1> QED BY <1>1, <1>2, <1>4, <1>5, <1>6, UnreadIs DEF Clean

LEMMA CleanEnclosed ==
    ASSUME NEW s \in Seq(Tokens), Clean(Enclosed(s))
    PROVE  Clean(s)
<1> DEFINE u == Enclosed(s)
<1>1. Len(u) = Len(s) + 2 /\ \A i \in 1..Len(s) : u[1 + i] = s[i]
  BY EnclosedIs
<1>2. \A i \in 1..Len(u) : u[i] \notin Unread
  BY DEF Clean
<1> HIDE DEF u
<1>3. \A i \in 1..Len(s) : 1 + i \in 1..Len(u)
  BY <1>1
<1> QED BY <1>1, <1>2, <1>3 DEF Clean

LEMMA CleanNot ==
    ASSUME NEW s \in Seq(Tokens), Clean(<<Word("not")>> \o s)
    PROVE  Clean(s)
<1>1. Word("not") \in Tokens
  BY MarksAreTokens DEF Words
<1> DEFINE u == <<Word("not")>> \o s
<1>2. Len(u) = Len(s) + 1 /\ \A i \in 1..Len(s) : u[1 + i] = s[i]
  BY <1>1
<1>3. \A i \in 1..Len(u) : u[i] \notin Unread
  BY DEF Clean
<1> HIDE DEF u
<1>4. \A i \in 1..Len(s) : 1 + i \in 1..Len(u)
  BY <1>2
<1> QED BY <1>2, <1>3, <1>4 DEF Clean

LEMMA NotClean ==
    ASSUME NEW s \in Seq(Tokens)
    PROVE  /\ ~Clean(s \o <<Word("between"), Word("and")>>)
           /\ ~Clean(s \o <<Word("in")>>) /\ ~Clean(s \o <<Word("??")>>)
<1>1. /\ Word("between") \in Tokens /\ Word("and") \in Tokens
      /\ Word("in") \in Tokens /\ Word("??") \in Tokens
  BY MarksAreTokens DEF Words
<1>2. Len(s) \in Nat
  OBVIOUS
<1>3. /\ (s \o <<Word("between"), Word("and")>>)[Len(s) + 1] = Word("between")
      /\ (s \o <<Word("in")>>)[Len(s) + 1] = Word("in")
      /\ (s \o <<Word("??")>>)[Len(s) + 1] = Word("??")
      /\ Len(s) + 1 \in 1..Len(s \o <<Word("between"), Word("and")>>)
      /\ Len(s) + 1 \in 1..Len(s \o <<Word("in")>>)
      /\ Len(s) + 1 \in 1..Len(s \o <<Word("??")>>)
  BY <1>1, <1>2
<1>4. Word("between") \in Unread /\ Word("in") \in Unread /\ Word("??") \in Unread
  BY DEF Unread
<1> QED BY <1>3, <1>4 DEF Clean

LEMMA JoinedIs ==
    ASSUME NEW l \in Seq(Tokens), NEW r \in Seq(Tokens), NEW w \in Words
    PROVE  /\ w \in {"and", "or"} => Joined(w, l, r) = Enclosed(Infix(l, w, r))
           /\ w \notin {"and", "or"} => Joined(w, l, r) = Infix(l, w, r)
<1>1. Word(w) \in Tokens /\ Open \in Tokens /\ Close \in Tokens
  BY MarksAreTokens
<1>2. <<Open>> \o l \o <<Word(w)>> \o r \o <<Close>>
        = <<Open>> \o (l \o <<Word(w)>> \o r) \o <<Close>>
  BY <1>1
<1> QED BY <1>2 DEF Joined, Enclosed, Infix

\* The text of a factor, a product, a sum and a condition.
Means(h) ==
    /\ \A e \in Language[h].factor : Clean(Text[e]) => MeansItself(e, 9)
    /\ \A e \in Language[h].product : Clean(Text[e]) => MeansItself(e, 8)
    /\ \A e \in Language[h].sum : Clean(Text[e]) => MeansItself(e, 7)
    /\ \A e \in Language[h].condition : Clean(Text[e]) => MeansItself(e, 3)

LEMMA OperationMeans ==
    ASSUME NEW e, NEW l, NEW r, NEW w \in Arithmetic \cup Comparisons,
           e = [op |-> w, l |-> l, r |-> r],
           Text[e] = TextStep(Text, e),
           Text[l] \in Seq(Tokens), Text[r] \in Seq(Tokens),
           NEW m \in Nat, NEW n \in Nat,
           Clean(Text[l]) => MeansItself(l, m), Clean(Text[r]) => MeansItself(r, n),
           m >= Strength(w), n > Strength(w), w \in Comparisons => m > Strength(w),
           Clean(Text[e])
    PROVE  MeansItself(e, Strength(w))
<1>1. w \in Words \ {"not", "between", "in", "??"} /\ w \notin {"and", "or"}
  BY DEF Words, Arithmetic, Comparisons
<1>2. Text[e] = Infix(Text[l], w, Text[r])
  <2>1. TextStep(Text, e) = Joined(w, Text[l], Text[r])
    BY DEF TextStep, Arithmetic, Comparisons
  <2> QED BY <1>1, <2>1, JoinedIs
<1>3. Clean(Text[l]) /\ Clean(Text[r])
  BY <1>1, <1>2, CleanInfix
<1>4. MeansItself(l, m) /\ MeansItself(r, n)
  BY <1>3
<1>5. LET u == Infix(Text[l], w, Text[r]) IN
      /\ Balanced(u) /\ Len(u) >= 1 /\ BindsFrom(u, Strength(w))
      /\ Read[u] = {[op |-> w, l |-> l, r |-> r]}
  BY <1>1, <1>4, InfixMeans
<1> QED BY <1>2, <1>5 DEF MeansItself

LEMMA TextsOf ==
    ASSUME NEW h \in 0..Top
    PROVE  /\ \A e \in Language[h].factor : Text[e] = TextStep(Text, e) /\ Text[e] \in Seq(Tokens)
           /\ \A e \in Language[h].product : Text[e] = TextStep(Text, e) /\ Text[e] \in Seq(Tokens)
           /\ \A e \in Language[h].sum : Text[e] = TextStep(Text, e) /\ Text[e] \in Seq(Tokens)
           /\ \A e \in Language[h].condition :
                 Text[e] = TextStep(Text, e) /\ Text[e] \in Seq(Tokens)
BY TextAt, TextIsText, Sorts DEF Upto

LEMMA TermsMean ==
    ASSUME NEW h \in 0..Top, h # 0, Means(h - 1)
    PROVE  /\ \A e \in Language[h].factor : Clean(Text[e]) => MeansItself(e, 9)
           /\ \A e \in Language[h].product : Clean(Text[e]) => MeansItself(e, 8)
           /\ \A e \in Language[h].sum : Clean(Text[e]) => MeansItself(e, 7)
<1>0. h - 1 \in 0..Top
  BY Heights
<1>1. ASSUME NEW e \in Language[h].factor, Clean(Text[e]) PROVE MeansItself(e, 9)
  <2>1. CASE e \in Atoms
    BY <2>1, AtomMeans, TextsOf
  <2>2. CASE e.op = "minus" /\ e.l \in Language[h - 1].sum
    <3>1. Text[e] = Text[e.l] \o <<Word("??")>>
      BY <2>2, TextsOf DEF TextStep
    <3>2. Text[e.l] \in Seq(Tokens)
      BY <1>0, <2>2, TextsOf
    <3> QED BY <1>1, <3>1, <3>2, NotClean
  <2> QED BY <2>1, <2>2, FactorParts
<1>2. ASSUME NEW e \in Language[h].product, Clean(Text[e]) PROVE MeansItself(e, 8)
  <2>1. CASE e \in Language[h].factor
    BY <1>1, <1>2, <2>1, MeansLess
  <2>2. CASE /\ e = [op |-> "*", l |-> e.l, r |-> e.r]
             /\ e.l \in Language[h - 1].product /\ e.r \in Language[h - 1].factor
    <3>1. /\ Text[e.l] \in Seq(Tokens) /\ Text[e.r] \in Seq(Tokens)
          /\ Clean(Text[e.l]) => MeansItself(e.l, 8)
          /\ Clean(Text[e.r]) => MeansItself(e.r, 9)
      BY <1>0, <2>2, TextsOf DEF Means
    <3>2. /\ "*" \in Arithmetic \cup Comparisons /\ "*" \notin Comparisons /\ Strength("*") = 8
          /\ 8 \in Nat /\ 9 \in Nat /\ 8 >= Strength("*") /\ 9 > Strength("*")
      BY StrengthIs DEF Arithmetic, Comparisons
    <3>3. Text[e] = TextStep(Text, e)
      BY TextsOf
    <3> DEFINE l == e.l
               r == e.r
    <3>4. e = [op |-> "*", l |-> l, r |-> r]
      BY <2>2
    <3>5. MeansItself(e, Strength("*"))
      <4> HIDE DEF l, r
      <4> QED BY ONLY <1>2, <3>1, <3>2, <3>3, <3>4, OperationMeans DEF l, r
    <3> QED BY <3>2, <3>5
  <2> QED BY <2>1, <2>2, ProductParts
<1>3. ASSUME NEW e \in Language[h].sum, Clean(Text[e]) PROVE MeansItself(e, 7)
  <2>1. CASE e \in Language[h].product
    BY <1>2, <1>3, <2>1, MeansLess
  <2>2. CASE /\ e = [op |-> e.op, l |-> e.l, r |-> e.r] /\ e.op \in {"+", "-"}
             /\ e.l \in Language[h - 1].sum /\ e.r \in Language[h - 1].product
    <3>1. /\ Text[e.l] \in Seq(Tokens) /\ Text[e.r] \in Seq(Tokens)
          /\ Clean(Text[e.l]) => MeansItself(e.l, 7)
          /\ Clean(Text[e.r]) => MeansItself(e.r, 8)
      BY <1>0, <2>2, TextsOf DEF Means
    <3>2. /\ e.op \in Arithmetic \cup Comparisons /\ e.op \notin Comparisons
          /\ Strength(e.op) = 7
          /\ 7 \in Nat /\ 8 \in Nat /\ 7 >= Strength(e.op) /\ 8 > Strength(e.op)
      BY <2>2, StrengthIs DEF Arithmetic, Comparisons
    <3>3. Text[e] = TextStep(Text, e)
      BY TextsOf
    <3> DEFINE l == e.l
               r == e.r
               w == e.op
    <3>4. MeansItself(e, Strength(w))
      <4>1. e = [op |-> w, l |-> l, r |-> r]
        BY <2>2
      <4>2. /\ Text[l] \in Seq(Tokens) /\ Text[r] \in Seq(Tokens)
            /\ Clean(Text[l]) => MeansItself(l, 7)
            /\ Clean(Text[r]) => MeansItself(r, 8)
        BY <3>1
      <4>3. /\ w \in Arithmetic \cup Comparisons /\ w \notin Comparisons
            /\ 7 \in Nat /\ 8 \in Nat /\ 7 >= Strength(w) /\ 8 > Strength(w)
        BY <3>2
      <4> HIDE DEF l, r, w
      <4> QED BY <1>3, <3>3, <4>1, <4>2, <4>3, OperationMeans
    <3> QED BY <3>2, <3>4
  <2> QED BY <2>1, <2>2, SumParts
<1> QED BY <1>1, <1>2, <1>3

LEMMA ConditionsMean ==
    ASSUME NEW h \in 0..Top, h # 0, Means(h - 1)
    PROVE  \A e \in Language[h].condition : Clean(Text[e]) => MeansItself(e, 3)
<1>0. h - 1 \in 0..Top
  BY Heights
<1>1. SUFFICES ASSUME NEW e \in Language[h].condition, Clean(Text[e]) PROVE MeansItself(e, 3)
  OBVIOUS
<1>2. Text[e] = TextStep(Text, e)
  BY TextsOf
<1>3. CASE /\ e = [op |-> e.op, l |-> e.l, r |-> e.r] /\ e.op \in {"and", "or"}
           /\ e.l \in Language[h - 1].condition /\ e.r \in Language[h - 1].condition
  <2> DEFINE u == Infix(Text[e.l], e.op, Text[e.r])
  <2>1. /\ Text[e.l] \in Seq(Tokens) /\ Text[e.r] \in Seq(Tokens)
        /\ Clean(Text[e.l]) => MeansItself(e.l, 3)
        /\ Clean(Text[e.r]) => MeansItself(e.r, 3)
    BY <1>0, <1>3, TextsOf DEF Means
  <2>2. e.op \in Words /\ e.op \notin {"not", "between", "in", "??"} /\ e.op \notin Comparisons
        /\ Strength(e.op) \in Nat /\ Strength(e.op) <= 2
    BY <1>3, StrengthIs DEF Words, Comparisons
  <2>3. Text[e] = Enclosed(u)
    <3>1. TextStep(Text, e) = Joined(e.op, Text[e.l], Text[e.r])
      BY <1>3 DEF TextStep
    <3> QED BY <1>2, <1>3, <2>1, <2>2, <3>1, JoinedIs
  <2>4. Clean(Text[e.l]) /\ Clean(Text[e.r])
    <3>1. u \in Seq(Tokens)
      BY <2>1, <2>2, InfixIs
    <3>2. Clean(u)
      BY <1>1, <2>3, <3>1, CleanEnclosed
    <3> QED BY <2>1, <2>2, <3>2, CleanInfix
  <2>5. Balanced(u) /\ Len(u) >= 1 /\ Read[u] = {[op |-> e.op, l |-> e.l, r |-> e.r]}
    <3>1. MeansItself(e.l, 3) /\ MeansItself(e.r, 3)
      BY <2>1, <2>4
    <3>2. 3 >= Strength(e.op) /\ 3 > Strength(e.op) /\ 3 \in Nat
      BY <2>2
    <3>3. e.op \in Words \ {"not", "between", "in", "??"}
          /\ (e.op \in Comparisons => 3 > Strength(e.op))
      BY <2>2, <3>2
    <3> QED BY <3>1, <3>2, <3>3, InfixMeans
  <2> HIDE DEF u
  <2>6. /\ Read[Enclosed(u)] = Read[u] /\ Balanced(Enclosed(u))
        /\ Outer(Enclosed(u)) = {} /\ Len(Enclosed(u)) >= 1
    BY <2>5, EnclosedReads
  <2> QED BY <1>3, <2>3, <2>5, <2>6 DEF MeansItself, BindsFrom
<1>4. CASE e = [op |-> "not", l |-> e.l] /\ e.l \in Language[h - 1].condition
  <2> DEFINE l == e.l
  <2>0. e = [op |-> "not", l |-> l] /\ l \in Language[h - 1].condition
    BY <1>4
  <2> HIDE DEF l
  <2>1. e.op = "not" /\ e.l = l
    BY <2>0
  <2>2. Text[l] \in Seq(Tokens) /\ (Clean(Text[l]) => MeansItself(l, 3))
    BY <1>0, <2>0, TextsOf DEF Means
  <2>3. Text[e] = <<Word("not")>> \o Text[l]
    BY <1>2, <2>1 DEF TextStep
  <2>4. MeansItself(l, 3)
    BY <1>1, <2>2, <2>3, CleanNot
  <2>5. /\ Balanced(Text[e]) /\ BindsFrom(Text[e], 3)
        /\ Read[Text[e]] = {[op |-> "not", l |-> x] : x \in Read[Text[l]]}
    BY <2>3, <2>4, NotReads DEF MeansItself
  <2>6. Read[Text[e]] = {e}
    BY <2>0, <2>4, <2>5 DEF MeansItself
  <2>7. Len(Text[e]) >= 1
    <3>1. Word("not") \in Tokens
      BY MarksAreTokens DEF Words
    <3> QED BY <2>2, <2>3, <3>1
  <2> QED BY <2>5, <2>6, <2>7 DEF MeansItself
<1>5. CASE /\ e = [op |-> e.op, l |-> e.l, r |-> e.r] /\ e.op \in Comparisons
           /\ e.l \in Language[h - 1].sum /\ e.r \in Language[h - 1].sum
  <2>1. /\ Text[e.l] \in Seq(Tokens) /\ Text[e.r] \in Seq(Tokens)
        /\ Clean(Text[e.l]) => MeansItself(e.l, 7)
        /\ Clean(Text[e.r]) => MeansItself(e.r, 7)
    BY <1>0, <1>5, TextsOf DEF Means
  <2>2. /\ e.op \in Arithmetic \cup Comparisons /\ Strength(e.op) = 4
        /\ 7 \in Nat /\ 7 >= Strength(e.op) /\ 7 > Strength(e.op)
    BY <1>5, StrengthIs
  <2>3. MeansItself(e, Strength(e.op))
    BY <1>1, <1>2, <1>5, <2>1, <2>2, OperationMeans
  <2> QED BY <2>2, <2>3, MeansLess
<1>6. CASE e.op \in {"between", "in"} /\ e.l \in Language[h - 1].sum
  <2>1. \/ Text[e] = Text[e.l] \o <<Word("between"), Word("and")>>
        \/ Text[e] = Text[e.l] \o <<Word("in")>>
    BY <1>2, <1>6 DEF TextStep
  <2>2. Text[e.l] \in Seq(Tokens)
    BY <1>0, <1>6, TextsOf
  <2> QED BY <1>1, <2>1, <2>2, NotClean
<1> QED BY <1>3, <1>4, <1>5, <1>6, ConditionParts

\* Every expression whose text shows no operator the database does not read is
\* what the database reads in it.
LEMMA TextsMean == \A h \in 0..Top : Means(h)
<1> DEFINE Bad == {h \in Nat : h <= Top /\ ~Means(h)}
<1>1. SUFFICES ASSUME Bad # {} PROVE FALSE
  BY TopIsNat
<1>2. PICK h \in Bad : \A k \in Bad : h <= k
  BY <1>1, Least
<1>3. h \in 0..Top
  BY <1>2, TopIsNat
<1>4. CASE h = 0
  <2>1. Language[h] = Nothing
    BY <1>3, <1>4, LanguageIs
  <2>2. Means(h)
    BY <2>1 DEF Means, Nothing
  <2> QED BY <1>2, <2>2
<1>5. CASE h # 0
  <2>1. h - 1 \in Nat /\ h - 1 <= Top /\ h - 1 \notin Bad
    BY <1>2, <1>3, <1>5, Heights
  <2>2. Means(h - 1)
    BY <2>1
  <2>3. Means(h)
    BY <1>3, <1>5, <2>2, TermsMean, ConditionsMean DEF Means
  <2> QED BY <1>2, <2>3
<1> QED BY <1>4, <1>5

\* What the database reads in the text of a clause is that clause, and nothing
\* when the text has one of the words it refuses: the precedence of the operators
\* makes up for the parentheses that are missing (expressionToString).
THEOREM ClauseIsRead ==
    \A where \in Written : Read[Text[where]] = IF Clean(Text[where]) THEN {where} ELSE {}
<1> SUFFICES ASSUME NEW where \in Written
             PROVE  Read[Text[where]] = IF Clean(Text[where]) THEN {where} ELSE {}
  OBVIOUS
<1>1. MaxHeight \in 0..Top /\ where \in Language[MaxHeight].condition
  BY TopIsNat DEF Written
<1>2. Text[where] \in Seq(Tokens) /\ (Clean(Text[where]) => MeansItself(where, 3))
  BY <1>1, TextsOf, TextsMean DEF Means
<1>3. CASE Clean(Text[where])
  BY <1>2, <1>3 DEF MeansItself
<1>4. CASE ~Clean(Text[where])
  BY <1>2, <1>4, ReadableIsClean
<1> QED BY <1>3, <1>4

-----------------------------------------------------------------------------
\* Where blocks lie in time: getBlockId at one end and addBlockConditions at the
\* other compute with different widths and signs.

StreamMeta == [start : MinTime..MaxTime, range : 1..(TimeModulus - 1)]

\* The condition addBlockConditions writes for block b.
InBlock(meta, b, t) == BlockBegin(meta, b) <= t /\ t < BlockEnd(meta, b)

LEMMA Half ==
    /\ TimeModulus \div 2 \in Nat /\ TimeModulus = 2 * (TimeModulus \div 2)
    /\ MaxTime \in Int /\ MinTime \in Int
    /\ MaxTime - MinTime + 1 = TimeModulus
BY WidthsAssumption DEF MaxTime, MinTime

LEMMA SignedIs ==
    ASSUME NEW x \in Int
    PROVE  /\ x \in MinTime..MaxTime => Signed(x) = x
           /\ x \in (MaxTime + 1)..(MaxTime + TimeModulus - 1) => Signed(x) = x - TimeModulus
<1> DEFINE M == TimeModulus
           v == x % M
<1>1. M \in Nat \ {0} /\ MaxTime \in Nat /\ MinTime \in Int /\ M = 2 * (MaxTime + 1)
      /\ MinTime = -(MaxTime + 1)
  BY Half, WidthsAssumption DEF MaxTime, MinTime
<1>2. Signed(x) = IF v > MaxTime THEN v - M ELSE v
  BY DEF Signed
<1>3. \A k \in {-1, 0, 1}, r \in 0..(M - 1) : x = M * k + r => v = r
  BY <1>1, ModUnique
<1> HIDE DEF v, M
<1>4. ASSUME x \in MinTime..MaxTime PROVE Signed(x) = x
  <2>1. CASE x >= 0
    <3>1. x \in 0..(M - 1) /\ x = M * 0 + x
      BY <1>1, <1>4, <2>1
    <3>2. v = x
      BY <1>3, <3>1
    <3> QED BY <1>1, <1>2, <1>4, <3>2
  <2>2. CASE x < 0
    <3>1. x + M \in 0..(M - 1) /\ x = M * (-1) + (x + M) /\ x + M > MaxTime
      BY <1>1, <1>4, <2>2
    <3>2. v = x + M
      BY <1>3, <3>1
    <3> QED BY <1>1, <1>2, <3>1, <3>2
  <2> QED BY <1>1, <1>4, <2>1, <2>2
<1>5. ASSUME x \in (MaxTime + 1)..(MaxTime + M - 1) PROVE Signed(x) = x - M
  <2>1. CASE x < M
    <3>1. x \in 0..(M - 1) /\ x = M * 0 + x /\ x > MaxTime
      BY <1>1, <1>5, <2>1
    <3>2. v = x
      BY <1>3, <3>1
    <3> QED BY <1>1, <1>2, <3>1, <3>2
  <2>2. CASE x >= M
    <3>1. x - M \in 0..(M - 1) /\ x = M * 1 + (x - M) /\ ~(x - M > MaxTime)
      BY <1>1, <1>5, <2>2
    <3>2. v = x - M
      BY <1>3, <3>1
    <3> QED BY <1>1, <1>2, <3>1, <3>2
  <2> QED BY <1>1, <1>5, <2>1, <2>2
<1> QED BY <1>4, <1>5 DEF M

\* From its first row on, a time has the id its distance from that row says,
\* as long as an id can name it.
LEMMA BlockOfTime ==
    ASSUME NEW meta \in StreamMeta, NEW t \in meta.start..MaxTime
    PROVE  /\ (t - meta.start) \div meta.range \in Nat
           /\ BlockId(meta, t) \in Ids
           /\ (t - meta.start) \div meta.range <= MaxId
                 => BlockId(meta, t) = (t - meta.start) \div meta.range
<1> DEFINE M == TimeModulus
           a == meta.start
           d == t - a
           q == d \div meta.range
<1>1. M \in Nat \ {0} /\ a \in MinTime..MaxTime /\ meta.range \in Nat \ {0}
  BY WidthsAssumption DEF StreamMeta
<1>2. MaxTime \in Int /\ MinTime \in Int /\ MaxTime - MinTime + 1 = M
  BY Half
<1>3. d \in 0..(M - 1)
  BY <1>1, <1>2
<1>4. Unsigned(Unsigned(t) - a) = d
  <2>1. ((t % M) + (-a)) % M = (t + (-a)) % M
    <3>1. t \in Int /\ -a \in Int
      BY <1>1, <1>2
    <3> HIDE DEF a
    <3> QED BY <1>1, <3>1, ModShift
  <2>2. (t % M) - a = (t % M) + (-a) /\ t + (-a) = d
    <3>1. t % M \in Int /\ a \in Int /\ t \in Int
      BY <1>1, <1>2
    <3> HIDE DEF a
    <3> QED BY <3>1
  <2>3. d % M = d
    <3> HIDE DEF d
    <3> QED BY <1>1, <1>3, ModSmall
  <2> QED BY <2>1, <2>2, <2>3 DEF Unsigned
<1>5. q \in Nat
  <2> HIDE DEF d
  <2> QED BY <1>1, <1>3
<1>6. BlockId(meta, t) = q % IdModulus
  BY <1>4 DEF BlockId
<1> HIDE DEF q
<1>7. q % IdModulus \in 0..(IdModulus - 1)
  BY <1>5, ModRange, IdsArePositive
<1>8. q <= MaxId => q % IdModulus = q
  <2>1. q <= MaxId => q \in 0..(IdModulus - 1)
    BY <1>5 DEF MaxId
  <2> QED BY <2>1, ModSmall, IdsArePositive
<1>9. BlockId(meta, t) \in Ids /\ (q <= MaxId => BlockId(meta, t) = q)
  BY <1>6, <1>7, <1>8 DEF Ids, MaxId
<1> QED BY <1>5, <1>9 DEF q

\* The limits of a block that begins in time: its end is one block later, unless
\* that is past the largest time; then it wraps and lies before the begin.
LEMMA BlockLimits ==
    ASSUME NEW meta \in StreamMeta, NEW b \in Nat, NEW p, p = b * meta.range,
           meta.start + p <= MaxTime
    PROVE  /\ BlockBegin(meta, b) = meta.start + p
           /\ BlockEnd(meta, b) = IF meta.start + p + meta.range <= MaxTime
                                  THEN meta.start + p + meta.range
                                  ELSE (meta.start + p + meta.range) - TimeModulus
<1> DEFINE M == TimeModulus
           a == meta.start
           c == a + p
           e == c + meta.range
<1>1. M \in Nat \ {0} /\ a \in MinTime..MaxTime /\ meta.range \in 1..(M - 1)
  BY WidthsAssumption DEF StreamMeta
<1>2. MaxTime \in Int /\ MinTime \in Int /\ MaxTime - MinTime + 1 = M
  BY Half
<1>3. p \in Nat
  <2>1. meta.range \in Nat
    BY <1>1
  <2> QED BY <2>1
<1>4. c \in MinTime..MaxTime /\ e \in MinTime..(MaxTime + M - 1)
  BY <1>1, <1>2, <1>3
<1>5. BlockBegin(meta, b) = c
  <2>1. Signed(c) = c
    <3> HIDE DEF c
    <3> QED BY <1>2, <1>4, SignedIs
  <2> QED BY <2>1 DEF BlockBegin
<1>6. BlockEnd(meta, b) = Signed(e)
  <2>1. BlockEnd(meta, b) = Signed((c % M) + meta.range)
    BY <1>5 DEF BlockEnd, Unsigned
  <2>2. ((c % M) + meta.range) % M = (c + meta.range) % M
    <3>1. c \in Int /\ meta.range \in Int
      BY <1>1, <1>2, <1>4
    <3> HIDE DEF c
    <3> QED BY <1>1, <3>1, ModShift
  <2> QED BY <2>1, <2>2 DEF Signed
<1> HIDE DEF e
<1>7. e <= MaxTime => Signed(e) = e
  BY <1>2, <1>4, SignedIs
<1>8. e > MaxTime => Signed(e) = e - M
  BY <1>1, <1>2, <1>4, SignedIs
<1>9. BlockEnd(meta, b) = IF e <= MaxTime THEN e ELSE e - M
  BY <1>2, <1>4, <1>6, <1>7, <1>8
<1> QED BY <1>5, <1>9, Zenon DEF e

LEMMA QuotientUnique ==
    ASSUME NEW m \in Nat \ {0}, NEW d \in Nat, NEW b \in Nat
    PROVE  /\ d \div m \in Nat
           /\ b * m <= d /\ d < b * m + m <=> b = d \div m
<1> DEFINE q == d \div m
<1>1. q \in Nat /\ q * m <= d /\ d < q * m + m
  OBVIOUS
<1> HIDE DEF q
<1>2. \A i, j \in Nat : i < j => i * m + m <= j * m
  <2> SUFFICES ASSUME NEW i \in Nat, NEW j \in Nat, i < j PROVE i * m + m <= j * m
    OBVIOUS
  <2>1. PICK e \in Nat : j = i + 1 + e
    <3>1. j - i - 1 \in Nat /\ j = i + 1 + (j - i - 1)
      OBVIOUS
    <3> QED BY <3>1
  <2>2. j * m = i * m + m + e * m /\ e * m \in Nat
    BY <2>1
  <2> QED BY <2>2
<1>3. CASE b = q
  BY <1>1, <1>3 DEF q
<1>4. CASE b < q
  <2>1. b * m + m <= q * m
    BY <1>1, <1>2, <1>4
  <2>2. ~(d < b * m + m)
    BY <1>1, <2>1
  <2> QED BY <1>1, <1>4, <2>2 DEF q
<1>5. CASE q < b
  <2>1. q * m + m <= b * m
    BY <1>1, <1>2, <1>5
  <2>2. ~(b * m <= d)
    BY <1>1, <2>1
  <2> QED BY <1>1, <1>5, <2>2 DEF q
<1> QED BY <1>1, <1>3, <1>4, <1>5

LEMMA QuotientMonotone ==
    ASSUME NEW m \in Nat \ {0}, NEW d \in Nat, NEW e \in Nat, d <= e
    PROVE  d \div m <= e \div m /\ (d \div m) * m <= (e \div m) * m
<1> DEFINE p == d \div m
           q == e \div m
<1>1. /\ p \in Nat /\ p * m <= d /\ d < p * m + m
      /\ q \in Nat /\ q * m <= e /\ e < q * m + m
  OBVIOUS
<1> HIDE DEF p, q
<1>2. ~(q < p)
  <2>1. SUFFICES ASSUME q < p PROVE FALSE
    OBVIOUS
  <2>2. PICK k \in Nat : p = q + 1 + k
    <3>1. p - q - 1 \in Nat /\ p = q + 1 + (p - q - 1)
      BY <1>1, <2>1
    <3> QED BY <3>1
  <2>3. p * m = q * m + m + k * m /\ k * m \in Nat
    BY <1>1, <2>2
  <2> QED BY <1>1, <2>3
<1>3. p * m <= q * m
  <2>1. PICK k \in Nat : q = p + k
    <3>1. q - p \in Nat /\ q = p + (q - p)
      BY <1>1, <1>2
    <3> QED BY <3>1
  <2>2. q * m = p * m + k * m /\ k * m \in Nat
    BY <1>1, <2>1
  <2> QED BY <1>1, <2>2
<1> QED BY <1>1, <1>2, <1>3 DEF p, q

\* The sub-queries of a range of times share no row and miss none: a time of the
\* range is in the block getBlockId gives it, one of the blocks getBlockRange
\* asks for, and in the limits of no other of them.  The range begins at the
\* first row or behind it, its end is in a block an id can name, and the limits
\* of that block pass addBlockConditions' own check.
THEOREM EachTimeInOneBlock ==
    ASSUME NEW meta \in StreamMeta,
           NEW lo \in meta.start..MaxTime, NEW hi \in lo..MaxTime, NEW t \in lo..hi,
           (hi - meta.start) \div meta.range <= MaxId,
           BlockBegin(meta, BlockId(meta, hi)) < BlockEnd(meta, BlockId(meta, hi))
    PROVE  /\ BlockId(meta, t) \in BlockId(meta, lo)..BlockId(meta, hi)
           /\ \A b \in BlockId(meta, lo)..BlockId(meta, hi) :
                 InBlock(meta, b, t) <=> b = BlockId(meta, t)
<1> DEFINE a == meta.start
           m == meta.range
           first == (lo - a) \div m
           last == (hi - a) \div m
           q == (t - a) \div m
<1>1. /\ TimeModulus \in Nat \ {0} /\ a \in Int /\ MinTime <= a /\ m \in Nat \ {0}
      /\ m < TimeModulus
      /\ MaxTime \in Int /\ MinTime \in Int /\ MaxTime - MinTime + 1 = TimeModulus
      /\ MaxId \in Int
  BY Half, WidthsAssumption, IdsArePositive DEF StreamMeta, MaxId
<1>2. /\ lo \in Int /\ hi \in Int /\ t \in Int
      /\ a <= lo /\ lo <= t /\ t <= hi /\ hi <= MaxTime
      /\ lo - a \in Nat /\ hi - a \in Nat /\ t - a \in Nat
      /\ lo - a <= t - a /\ t - a <= hi - a
  BY <1>1
<1>3. /\ first \in Nat /\ last \in Nat /\ q \in Nat
      /\ first <= q /\ q <= last /\ last <= MaxId
  <2> HIDE DEF a, m
  <2> QED BY <1>1, <1>2, QuotientUnique, QuotientMonotone DEF a, m
<1>4. BlockId(meta, lo) = first /\ BlockId(meta, t) = q /\ BlockId(meta, hi) = last
  <2>1. lo \in meta.start..MaxTime /\ t \in meta.start..MaxTime /\ hi \in meta.start..MaxTime
    BY <1>1, <1>2
  <2>2. first <= MaxId /\ q <= MaxId
    <3> HIDE DEF first, last, q
    <3> QED BY <1>1, <1>3
  <2> QED BY <1>3, <2>1, <2>2, BlockOfTime
<1> HIDE DEF first, last, q, a, m
<1>5. a + last * m <= hi /\ last * m \in Nat
  <2>1. last * m <= hi - a
    BY <1>1, <1>2, QuotientUnique DEF last
  <2>2. last * m \in Nat
    BY <1>1, <1>3
  <2> QED BY <1>1, <1>2, <2>1, <2>2
<1>6. a + last * m + m <= MaxTime
  <2> DEFINE p == last * m
  <2>1. a + p <= MaxTime
    BY <1>1, <1>2, <1>5
  <2>2. /\ BlockBegin(meta, last) = a + p
        /\ BlockEnd(meta, last) = IF a + p + m <= MaxTime THEN a + p + m
                                  ELSE (a + p + m) - TimeModulus
    BY <1>3, <2>1, BlockLimits DEF a, m
  <2>3. BlockBegin(meta, last) < BlockEnd(meta, last)
    BY <1>4
  <2>4. p \in Nat
    BY <1>5
  <2> HIDE DEF p
  <2>5. a + p + m <= MaxTime
    BY <1>1, <2>2, <2>3, <2>4
  <2> QED BY <2>5 DEF p
<1>7. ASSUME NEW b \in first..last
      PROVE  InBlock(meta, b, t) <=> b = q
  <2> DEFINE p == b * m
  <2>1. b \in Nat /\ b <= last
    BY <1>3
  <2>2. p \in Nat /\ p <= last * m
    <3>1. PICK k \in Nat : last = b + k
      <4>1. last - b \in Nat /\ last = b + (last - b)
        BY <1>3, <2>1
      <4> QED BY <4>1
    <3>2. last * m = b * m + k * m /\ k * m \in Nat /\ b * m \in Nat
      BY <1>1, <2>1, <3>1
    <3> QED BY <3>2
  <2>3. p <= t - a /\ t - a < p + m <=> b = q
    BY <1>1, <1>2, <2>1, QuotientUnique DEF q
  <2>4. /\ BlockBegin(meta, b) = a + p
        /\ a + p <= MaxTime
        /\ BlockEnd(meta, b) = IF a + p + m <= MaxTime THEN a + p + m
                               ELSE (a + p + m) - TimeModulus
    <3>1. a + p <= MaxTime
      <4> DEFINE r == last * m
      <4>1. a + r <= MaxTime /\ r \in Nat /\ p <= r
        BY <1>1, <1>2, <1>5, <2>2
      <4> HIDE DEF p, r
      <4> QED BY <1>1, <2>2, <4>1
    <3> QED BY <2>1, <3>1, BlockLimits DEF a, m
  <2>5. a + p + m <= MaxTime
    <3> DEFINE r == last * m
    <3>1. a + r + m <= MaxTime /\ r \in Nat /\ p <= r
      BY <1>5, <1>6, <2>2
    <3> HIDE DEF p, r
    <3> QED BY <1>1, <2>2, <3>1
  <2> HIDE DEF p
  <2>6. BlockBegin(meta, b) = a + p /\ BlockEnd(meta, b) = a + p + m
    BY <2>4, <2>5
  <2>7. InBlock(meta, b, t) <=> a + p <= t /\ t < a + p + m
    BY <2>6 DEF InBlock
  <2>8. a + p <= t /\ t < a + p + m <=> p <= t - a /\ t - a < p + m
    BY <1>1, <1>2, <2>2
  <2> QED BY <2>3, <2>7, <2>8
<1>8. q \in first..last
  BY <1>3
<1> QED BY <1>4, <1>7, <1>8

-----------------------------------------------------------------------------
\* The sub-query of a block.

TimeBound(op, t) ==
    [op |-> op, l |-> [op |-> "column", name |-> "date_time"], r |-> [op |-> "int", value |-> t]]
Both(l, r) == [op |-> "and", l |-> l, r |-> r]
\* The condition the sub-query of a block means.
BlockQuery(meta, where, b) ==
    Both(IF where = NoWhere THEN TimeBound(">=", BlockBegin(meta, b))
         ELSE Both(where, TimeBound(">=", BlockBegin(meta, b))),
         TimeBound("<", BlockEnd(meta, b)))

LEMMA ConditionsOf ==
    ASSUME NEW h \in 0..Top, h # 0
    PROVE  /\ Atoms \subseteq Language[h].sum
           /\ \A l \in Language[h - 1].condition, r \in Language[h - 1].condition :
                 Both(l, r) \in Language[h].condition
           /\ \A l \in Language[h - 1].sum, r \in Language[h - 1].sum, op \in Comparisons :
                 [op |-> op, l |-> l, r |-> r] \in Language[h].condition
<1>1. Language[h] = Extended(Language[h - 1])
  BY LanguageIs
<1> QED BY <1>1 DEF Extended, Both

LEMMA TimeBoundIs ==
    ASSUME NEW op \in {">=", "<"}, NEW t \in Literals
    PROVE  /\ TimeBound(op, t) \in Language[2].condition
           /\ Text[TimeBound(op, t)]
                = << <<"column", "date_time">>, Word(op), <<"int", t>> >>
           /\ MeansItself(TimeBound(op, t), 3)
<1> DEFINE l == [op |-> "column", name |-> "date_time"]
           r == [op |-> "int", value |-> t]
           e == TimeBound(op, t)
<1>1. 1 \in 0..Top /\ 2 \in 0..Top
  BY TopIsNat
<1>2. l \in Atoms /\ r \in Atoms /\ op \in Comparisons
  BY DEF Atoms, Columns, Comparisons
<1>3. l \in Language[1].sum /\ r \in Language[1].sum
  BY <1>1, <1>2, ConditionsOf
<1>4. e = [op |-> op, l |-> l, r |-> r]
  BY DEF TimeBound
<1>5. e \in Language[2].condition
  BY <1>1, <1>2, <1>3, <1>4, ConditionsOf
<1>6. Text[l] = << <<"column", "date_time">> >> /\ Text[r] = << <<"int", t>> >>
  <2>1. Text[l] = TextStep(Text, l) /\ Text[r] = TextStep(Text, r)
    BY <1>1, <1>3, TextsOf
  <2> QED BY <2>1 DEF TextStep
<1>7. Text[e] = Infix(Text[l], op, Text[r])
  <2>1. Text[e] = TextStep(Text, e) /\ Text[l] \in Seq(Tokens) /\ Text[r] \in Seq(Tokens)
    BY <1>1, <1>3, <1>5, TextsOf
  <2>2. TextStep(Text, e) = Joined(op, Text[l], Text[r])
    BY <1>4 DEF TextStep
  <2>3. op \in Words /\ op \notin {"and", "or"}
    BY DEF Words, Comparisons
  <2> QED BY <2>1, <2>2, <2>3, JoinedIs
<1> DEFINE c == <<"column", "date_time">>
           v == <<"int", t>>
<1>8. Text[e] = <<c, Word(op), v>>
  <2>1. Text[e] = <<c>> \o <<Word(op)>> \o <<v>>
    BY <1>6, <1>7 DEF Infix
  <2>2. c \in Tokens /\ v \in Tokens
    BY DEF Tokens, Columns
  <2>3. Word(op) \in Tokens
    BY MarksAreTokens DEF Words, Comparisons
  <2> DEFINE x == <<c>> \o <<Word(op)>> \o <<v>>
             y == <<c, Word(op), v>>
  <2> HIDE DEF c, v
  <2>4. x \in Seq(Tokens) /\ Len(x) = 3 /\ x[1] = c /\ x[2] = Word(op) /\ x[3] = v
    BY <2>2, <2>3
  <2>5. y \in Seq(Tokens) /\ Len(y) = 3 /\ y[1] = c /\ y[2] = Word(op) /\ y[3] = v
    BY <2>2, <2>3
  <2> HIDE DEF x, y
  <2>6. x = y
    BY <2>4, <2>5, SameText
  <2> QED BY <2>1, <2>6 DEF x, y
<1>9. Clean(Text[e])
  <2>1. c \notin Unread /\ v \notin Unread
    BY DEF Unread, Word
  <2>2. Word(op) \notin Unread
    BY UnreadIs DEF Words, Comparisons
  <2> HIDE DEF c, v, e
  <2> QED BY <1>8, <2>1, <2>2 DEF Clean
<1>10. MeansItself(e, 3)
  BY <1>1, <1>5, <1>9, TextsMean DEF Means
<1> QED BY <1>5, <1>8, <1>10

LEMMA BothReads ==
    ASSUME NEW s, NEW t, NEW l, NEW r, Balanced(s), Balanced(t), BindsFrom(s, 2), BindsFrom(t, 3),
           Read[s] = {l}, Read[t] = {r}
    PROVE  /\ Read[Infix(s, "and", t)] = {Both(l, r)} /\ Balanced(Infix(s, "and", t))
           /\ BindsFrom(Infix(s, "and", t), 2)
<1>1. /\ "and" \in Words \ {"not", "between", "in", "??"} /\ "and" \notin Comparisons
      /\ Strength("and") = 2 /\ 2 \in Nat /\ 3 \in Nat
  BY StrengthIs DEF Words, Comparisons
<1>2. 2 >= Strength("and") /\ 3 > Strength("and")
  BY <1>1
<1> DEFINE w == "and"
<1>3. /\ Read[Infix(s, w, t)]
           = {[op |-> w, l |-> e[1], r |-> e[2]] : e \in Read[s] \X Read[t]}
      /\ BindsFrom(Infix(s, w, t), Strength(w))
  <2> HIDE DEF w
  <2>1. /\ w \in Words \ {"not", "between", "in", "??"} /\ w \notin Comparisons
        /\ 2 \in Nat /\ 3 \in Nat /\ 2 >= Strength(w) /\ 3 > Strength(w)
    BY <1>1, <1>2 DEF w
  <2> QED BY <2>1, InfixReads
<1>4. Balanced(Infix(s, w, t))
  BY <1>1, InfixBalanced
<1>5. Read[Infix(s, w, t)] = {[op |-> w, l |-> l, r |-> r]}
  BY <1>3, PairRead
<1> QED BY <1>1, <1>3, <1>4, <1>5 DEF Both

\* What the database reads for a block: the condition of the query and the limits
\* of the block, unless the condition has a word it refuses (addBlockConditions).
THEOREM SubQueryReads ==
    ASSUME NEW meta, NEW b, NEW where \in Written \cup {NoWhere},
           BlockBegin(meta, b) \in Literals, BlockEnd(meta, b) \in Literals
    PROVE  Read[SubQueryText(meta, where, b)]
              = IF where = NoWhere \/ Clean(Text[where]) THEN {BlockQuery(meta, where, b)} ELSE {}
<1> DEFINE c1 == TimeBound(">=", BlockBegin(meta, b))
           c2 == TimeBound("<", BlockEnd(meta, b))
           d1 == << <<"column", "date_time">>, Word(">="), <<"int", BlockBegin(meta, b)>> >>
           d2 == << <<"column", "date_time">>, Word("<"), <<"int", BlockEnd(meta, b)>> >>
           text == SubQueryText(meta, where, b)
<1>1. MeansItself(c1, 3) /\ Text[c1] = d1 /\ MeansItself(c2, 3) /\ Text[c2] = d2
  BY TimeBoundIs
<1>2. /\ Balanced(d1) /\ BindsFrom(d1, 3) /\ Read[d1] = {c1}
      /\ Balanced(d2) /\ BindsFrom(d2, 3) /\ Read[d2] = {c2}
  BY <1>1 DEF MeansItself
<1>3. text = (IF where = NoWhere THEN << >> ELSE <<Open>> \o Text[where] \o <<Close, Word("and")>>)
             \o d1 \o <<Word("and")>> \o d2
  BY DEF SubQueryText
<1>4. d1 \in Seq(Tokens) /\ d2 \in Seq(Tokens)
  BY <1>2 DEF Balanced
<1>5. "and" \in Words /\ Word("and") \in Tokens /\ Open \in Tokens /\ Close \in Tokens
  BY MarksAreTokens DEF Words
<1> HIDE DEF d1, d2, text
<1>6. CASE where = NoWhere
  <2>1. text = Infix(d1, "and", d2)
    BY <1>3, <1>4, <1>6 DEF Infix
  <2>2. BindsFrom(d1, 2)
    BY <1>2, <1>4, BindsLess
  <2>3. Read[text] = {Both(c1, c2)}
    BY <1>2, <2>1, <2>2, BothReads
  <2>4. BlockQuery(meta, where, b) = Both(c1, c2)
    BY <1>6 DEF BlockQuery
  <2> QED BY <1>6, <2>3, <2>4 DEF text
<1>7. CASE where # NoWhere
  <2> DEFINE t == Text[where]
             s == Infix(Enclosed(t), "and", d1)
  <2>1. MaxHeight \in 0..Top /\ where \in Language[MaxHeight].condition
    BY <1>7, TopIsNat DEF Written
  <2>2. t \in Seq(Tokens) /\ (Clean(t) => MeansItself(where, 3))
    BY <2>1, TextsOf, TextsMean DEF Means
  <2>3. text = Infix(s, "and", d2)
    <3>1. text = (<<Open>> \o t \o <<Close, Word("and")>>) \o d1 \o <<Word("and")>> \o d2
      BY <1>3, <1>7
    <3>2. <<Open>> \o t \o <<Close, Word("and")>> = (<<Open>> \o t \o <<Close>>) \o <<Word("and")>>
      <4> HIDE DEF t
      <4> QED BY <1>5, <2>2
    <3> QED BY <3>1, <3>2 DEF Infix, Enclosed
  <2> HIDE DEF t
  <2>4. Enclosed(t) \in Seq(Tokens) /\ s \in Seq(Tokens)
    BY <1>4, <1>5, <2>2, EnclosedIs, InfixIs
  <2>5. text \in Seq(Tokens)
    <3> HIDE DEF s
    <3> QED BY <1>4, <1>5, <2>3, <2>4, InfixIs
  <2>6. CASE ~Clean(t)
    <3>1. SUFFICES ASSUME Read[text] # {} PROVE FALSE
      BY <1>7, <2>6 DEF text, t
    <3>2. Clean(text)
      BY <2>5, <3>1, ReadableIsClean
    <3>3. Clean(s)
      <4> HIDE DEF s
      <4> QED BY <1>4, <1>5, <2>3, <2>4, <3>2, CleanInfix
    <3>4. Clean(Enclosed(t))
      BY <1>4, <1>5, <2>4, <3>3, CleanInfix
    <3> QED BY <2>2, <2>6, <3>4, CleanEnclosed
  <2>7. CASE Clean(t)
    <3>1. MeansItself(where, 3)
      BY <2>2, <2>7
    <3>2. Read[Enclosed(t)] = {where} /\ Balanced(Enclosed(t)) /\ BindsFrom(Enclosed(t), 2)
      <4>1. Balanced(t) /\ Len(t) >= 1 /\ Read[t] = {where}
        BY <3>1 DEF MeansItself, t
      <4> QED BY <4>1, EnclosedReads DEF BindsFrom
    <3>3. Read[s] = {Both(where, c1)} /\ Balanced(s) /\ BindsFrom(s, 2)
      BY <1>2, <3>2, BothReads
    <3>4. Read[text] = {Both(Both(where, c1), c2)}
      <4> HIDE DEF s
      <4> QED BY <1>2, <2>3, <3>3, BothReads
    <3>5. BlockQuery(meta, where, b) = Both(Both(where, c1), c2)
      BY <1>7 DEF BlockQuery
    <3> QED BY <2>7, <3>4, <3>5 DEF text, t
  <2> QED BY <2>6, <2>7
<1> QED BY <1>6, <1>7

-----------------------------------------------------------------------------
\* What the sub-query of a block selects.

LEMMA HoldsAt ==
    ASSUME NEW e \in Conditions, NEW row \in Rows
    PROVE  Holds[e][row] <=> Satisfied(Holds, e, row)
<1>1. Holds[e] = HoldsStep(Holds, e)
  BY HoldsIs
<1> DEFINE F == [r \in Rows |-> Satisfied(Holds, e, r)]
<1>2. F[row] = Satisfied(Holds, e, row)
  OBVIOUS
<1>3. Holds[e] = F
  BY <1>1 DEF HoldsStep
<1> HIDE DEF F
<1> QED BY <1>2, <1>3

LEMMA ValueAt ==
    ASSUME NEW e \in Terms, NEW row \in Rows
    PROVE  Value[e][row] = Computed(Value, e, row)
BY ValueIs DEF ValueStep

LEMMA InTop ==
    ASSUME NEW h \in 0..Top
    PROVE  /\ Language[h].condition \subseteq Conditions
           /\ Language[h].sum \subseteq Terms
<1>1. Within(Language[h], Language[Top])
  BY LanguageContains, TopIsNat
<1> QED BY <1>1 DEF Within, Conditions, Terms, Top

LEMMA BothHolds ==
    ASSUME NEW h \in 0..Top, h # 0,
           NEW l \in Language[h - 1].condition, NEW r \in Language[h - 1].condition,
           NEW row \in Rows
    PROVE  Holds[Both(l, r)][row] <=> Holds[l][row] /\ Holds[r][row]
<1>1. Both(l, r) \in Conditions
  BY ConditionsOf, InTop
<1>2. Holds[Both(l, r)][row] <=> Satisfied(Holds, Both(l, r), row)
  BY <1>1, HoldsAt
<1> DEFINE e == Both(l, r)
<1>3. e.op = "and" /\ e.l = l /\ e.r = r
  BY DEF Both
<1> HIDE DEF e
<1>4. Satisfied(Holds, e, row) <=> Holds[e.l][row] /\ Holds[e.r][row]
  BY <1>3 DEF Satisfied
<1> QED BY <1>2, <1>3, <1>4 DEF e

\* The terms of a bound: the time of the row, and the literal.
LEMMA TimeAndLiteral ==
    ASSUME NEW row \in Rows, NEW t \in Literals
    PROVE  /\ Value[[op |-> "column", name |-> "date_time"]][row] = row.date_time
           /\ Value[[op |-> "int", value |-> t]][row] = t
<1> DEFINE c == [op |-> "column", name |-> "date_time"]
           v == [op |-> "int", value |-> t]
<1>1. 1 \in 0..Top
  BY TopIsNat
<1>2. c \in Atoms /\ v \in Atoms
  BY DEF Atoms, Columns
<1>3. c \in Terms /\ v \in Terms
  BY <1>1, <1>2, ConditionsOf, InTop
<1>4. c.op = "column" /\ c.name = "date_time" /\ v.op = "int" /\ v.value = t
  OBVIOUS
<1>5. row["date_time"] = row.date_time
  OBVIOUS
<1> HIDE DEF c, v
<1>6. Value[c][row] = Computed(Value, c, row) /\ Value[v][row] = Computed(Value, v, row)
  BY <1>3, ValueAt
<1>7. Computed(Value, c, row) = row[c.name] /\ Computed(Value, v, row) = v.value
  BY <1>4 DEF Computed
<1> QED BY <1>4, <1>5, <1>6, <1>7 DEF c, v

LEMMA TimeBoundHolds ==
    ASSUME NEW row \in Rows, NEW t \in Literals
    PROVE  /\ Holds[TimeBound(">=", t)][row] <=> row.date_time >= t
           /\ Holds[TimeBound("<", t)][row] <=> row.date_time < t
<1> DEFINE c == [op |-> "column", name |-> "date_time"]
           v == [op |-> "int", value |-> t]
           lower == TimeBound(">=", t)
           upper == TimeBound("<", t)
<1>1. lower \in Conditions /\ upper \in Conditions
  <2>1. 2 \in 0..Top
    BY TopIsNat
  <2> QED BY <2>1, TimeBoundIs, InTop
<1>2. /\ lower.op = ">=" /\ lower.l = c /\ lower.r = v
      /\ upper.op = "<" /\ upper.l = c /\ upper.r = v
  BY DEF TimeBound
<1>3. Value[c][row] = row.date_time /\ Value[v][row] = t
  BY TimeAndLiteral
<1> HIDE DEF c, v, lower, upper
<1>4. /\ Holds[lower][row] <=> Satisfied(Holds, lower, row)
      /\ Holds[upper][row] <=> Satisfied(Holds, upper, row)
  BY <1>1, HoldsAt
<1>5. Satisfied(Holds, lower, row) <=> Value[lower.l][row] >= Value[lower.r][row]
  BY <1>2 DEF Satisfied
<1>6. Satisfied(Holds, upper, row) <=> Value[upper.l][row] < Value[upper.r][row]
  BY <1>2 DEF Satisfied
<1> QED BY <1>2, <1>3, <1>4, <1>5, <1>6 DEF lower, upper

\* It selects what the query selects, of the rows in the block.
LEMMA BlockQuerySelects ==
    ASSUME NEW meta, NEW b, NEW where \in Written \cup {NoWhere}, NEW row \in Rows,
           BlockBegin(meta, b) \in Literals, BlockEnd(meta, b) \in Literals
    PROVE  Selects(BlockQuery(meta, where, b), row)
             <=> Selects(where, row) /\ InBlock(meta, b, row.date_time)
<1> DEFINE c1 == TimeBound(">=", BlockBegin(meta, b))
           c2 == TimeBound("<", BlockEnd(meta, b))
           e == BlockQuery(meta, where, b)
<1>0. /\ MaxHeight \in 0..Top /\ MaxHeight \in 2..Top /\ 2 \in 0..Top
      /\ MaxHeight + 1 \in 0..Top /\ MaxHeight + 1 # 0 /\ (MaxHeight + 1) - 1 = MaxHeight
      /\ MaxHeight + 2 \in 0..Top /\ MaxHeight + 2 # 0 /\ (MaxHeight + 2) - 1 = MaxHeight + 1
      /\ MaxHeight \in MaxHeight..Top /\ MaxHeight + 1 \in MaxHeight..Top
  BY TopIsNat
<1>1. c1 \in Language[2].condition /\ c2 \in Language[2].condition
  BY TimeBoundIs
<1>2. /\ Language[2].condition \subseteq Language[MaxHeight].condition
      /\ Language[MaxHeight].condition \subseteq Language[MaxHeight + 1].condition
  BY <1>0, LanguageContains DEF Within
<1>3. /\ Holds[c1][row] <=> row.date_time >= BlockBegin(meta, b)
      /\ Holds[c2][row] <=> row.date_time < BlockEnd(meta, b)
  BY TimeBoundHolds
<1>4. row.date_time \in Int /\ BlockBegin(meta, b) \in Int /\ BlockEnd(meta, b) \in Int
  BY Half DEF Rows, Literals
<1>5. InBlock(meta, b, row.date_time) <=> Holds[c1][row] /\ Holds[c2][row]
  BY <1>3, <1>4 DEF InBlock
<1> HIDE DEF c1, c2
<1>6. e # NoWhere
  <2>1. e.op = "and" /\ NoWhere.op = "none"
    BY DEF BlockQuery, Both, NoWhere
  <2> QED BY <2>1
<1>7. Selects(e, row) <=> Holds[e][row]
  BY <1>6 DEF Selects
<1>8. CASE where = NoWhere
  <2>1. e = Both(c1, c2)
    BY <1>8 DEF BlockQuery, c1, c2
  <2>2. c1 \in Language[MaxHeight].condition /\ c2 \in Language[MaxHeight].condition
    BY <1>1, <1>2
  <2>3. Holds[e][row] <=> Holds[c1][row] /\ Holds[c2][row]
    <3> DEFINE h == MaxHeight + 1
    <3>1. h \in 0..Top /\ h # 0 /\ c1 \in Language[h - 1].condition /\ c2 \in Language[h - 1].condition
      BY <1>0, <2>2
    <3> HIDE DEF h, e
    <3> QED BY <2>1, <3>1, BothHolds
  <2>4. Selects(where, row)
    BY <1>8 DEF Selects
  <2> QED BY <1>5, <1>7, <2>3, <2>4
<1>9. CASE where # NoWhere
  <2>1. e = Both(Both(where, c1), c2)
    BY <1>9 DEF BlockQuery, c1, c2
  <2>2. where \in Language[MaxHeight].condition /\ c1 \in Language[MaxHeight].condition
        /\ c2 \in Language[MaxHeight + 1].condition
    BY <1>1, <1>2, <1>9 DEF Written
  <2> DEFINE h == MaxHeight + 1
             k == MaxHeight + 2
  <2>3. /\ h \in 0..Top /\ h # 0 /\ k \in 0..Top /\ k # 0 /\ k - 1 = h
        /\ where \in Language[h - 1].condition /\ c1 \in Language[h - 1].condition
        /\ c2 \in Language[h].condition
    BY <1>0, <2>2
  <2> HIDE DEF h, k, e
  <2>4. Both(where, c1) \in Language[h].condition
        /\ (Holds[Both(where, c1)][row] <=> Holds[where][row] /\ Holds[c1][row])
    BY <2>3, ConditionsOf, BothHolds
  <2>5. Holds[e][row] <=> Holds[Both(where, c1)][row] /\ Holds[c2][row]
    BY <2>1, <2>3, <2>4, BothHolds
  <2>6. Selects(where, row) <=> Holds[where][row]
    BY <1>9 DEF Selects
  <2> QED BY <1>5, <1>7, <2>4, <2>5, <2>6 DEF e
<1> QED BY <1>8, <1>9

-----------------------------------------------------------------------------
\* The bounds found in a clause.

LEMMA SignedInRange ==
    ASSUME NEW x \in Int
    PROVE  Signed(x) \in Literals
<1> DEFINE M == TimeModulus
           v == x % M
<1>1. M \in Nat \ {0} /\ MaxTime \in Nat /\ MinTime \in Int /\ M = 2 * (MaxTime + 1)
      /\ MinTime = -(MaxTime + 1)
  BY Half, WidthsAssumption DEF MaxTime, MinTime
<1>2. Signed(x) = IF v > MaxTime THEN v - M ELSE v
  BY DEF Signed
<1>3. v \in 0..(M - 1)
  BY <1>1, ModRange
<1> HIDE DEF v, M
<1> QED BY <1>1, <1>2, <1>3 DEF Literals

LEMMA LimitsAreLiterals ==
    ASSUME NEW meta, meta.start \in Int, meta.range \in Int, NEW b \in Int
    PROVE  BlockBegin(meta, b) \in Literals /\ BlockEnd(meta, b) \in Literals
<1>1. meta.start + b * meta.range \in Int
  OBVIOUS
<1>2. BlockBegin(meta, b) \in Literals
  BY <1>1, SignedInRange DEF BlockBegin
<1>3. Unsigned(BlockBegin(meta, b)) + meta.range \in Int
  <2>1. TimeModulus \in Nat \ {0} /\ BlockBegin(meta, b) \in Int
    BY <1>2, WidthsAssumption, Half DEF Literals
  <2> QED BY <2>1 DEF Unsigned
<1> QED BY <1>2, <1>3, SignedInRange DEF BlockEnd

\* A row that satisfies a comparison of the time is within the bounds the
\* comparison tightens, also where one more or less than the literal wraps.
LEMMA TightenKeeps ==
    ASSUME NEW op \in {">=", ">", "<=", "<"}, NEW v \in Literals,
           NEW b \in TimeBounds, NEW e, e.op = op, e.r.value = v
    PROVE  /\ Tighten(b, e) \in TimeBounds
           /\ \A t \in Literals :
                 /\ b.lo <= t /\ t <= b.hi
                 /\ op = ">=" => t >= v
                 /\ op = ">" => t > v
                 /\ op = "<=" => t <= v
                 /\ op = "<" => t < v
                 => Tighten(b, e).lo <= t /\ t <= Tighten(b, e).hi
<1>1. /\ MaxTime \in Int /\ MinTime \in Int /\ b.lo \in Literals /\ b.hi \in Literals
      /\ b = [lo |-> b.lo, hi |-> b.hi] /\ v \in Int /\ Literals = MinTime..MaxTime
  BY Half DEF TimeBounds, Literals
<1>2. Signed(v + 1) \in Literals /\ (v < MaxTime => Signed(v + 1) = v + 1)
  <2>1. v + 1 \in Int /\ (v < MaxTime => v + 1 \in MinTime..MaxTime)
    BY <1>1
  <2> QED BY <2>1, SignedIs, SignedInRange
<1>3. Signed(v - 1) \in Literals /\ (v > MinTime => Signed(v - 1) = v - 1)
  <2>1. v - 1 \in Int /\ (v > MinTime => v - 1 \in MinTime..MaxTime)
    BY <1>1
  <2> QED BY <2>1, SignedIs, SignedInRange
<1>4. CASE op = ">="
  <2>1. Tighten(b, e) = [b EXCEPT !.lo = Larger(b.lo, v)]
    BY <1>4 DEF Tighten
  <2>2. Larger(b.lo, v) \in Literals /\ \A t \in Literals : b.lo <= t /\ t >= v => Larger(b.lo, v) <= t
    BY <1>1 DEF Larger
  <2> HIDE DEF Literals
  <2> QED BY <1>1, <1>4, <2>1, <2>2 DEF TimeBounds
<1>5. CASE op = ">"
  <2> DEFINE x == Larger(b.lo, Signed(v + 1))
  <2>1. Tighten(b, e) = [b EXCEPT !.lo = x]
    BY <1>5 DEF Tighten
  <2>2. x \in Literals /\ \A t \in Literals : b.lo <= t /\ t > v => x <= t
    BY <1>1, <1>2 DEF Larger
  <2> HIDE DEF x
  <2> QED BY <1>1, <1>5, <2>1, <2>2 DEF TimeBounds
<1>6. CASE op = "<="
  <2> DEFINE x == Smaller(b.hi, v)
  <2>1. Tighten(b, e) = [b EXCEPT !.hi = x]
    BY <1>6 DEF Tighten
  <2>2. x \in Literals /\ \A t \in Literals : t <= b.hi /\ t <= v => t <= x
    BY <1>1 DEF Smaller
  <2> HIDE DEF x
  <2> QED BY <1>1, <1>6, <2>1, <2>2 DEF TimeBounds
<1>7. CASE op = "<"
  <2> DEFINE x == Smaller(b.hi, Signed(v - 1))
  <2>1. Tighten(b, e) = [b EXCEPT !.hi = x]
    BY <1>7 DEF Tighten
  <2>2. x \in Literals /\ \A t \in Literals : t <= b.hi /\ t < v => t <= x
    BY <1>1, <1>3 DEF Smaller
  <2> HIDE DEF x
  <2> QED BY <1>1, <1>7, <2>1, <2>2 DEF TimeBounds
<1> QED BY <1>4, <1>5, <1>6, <1>7

NarrowsSoundly(e) ==
    \A b \in TimeBounds :
       /\ Narrow[e][b] \in TimeBounds
       /\ \A row \in Rows :
             Holds[e][row] /\ b.lo <= row.date_time /\ row.date_time <= b.hi
             => Narrow[e][b].lo <= row.date_time /\ row.date_time <= Narrow[e][b].hi

LEMMA NarrowAt ==
    ASSUME NEW e \in Conditions, NEW b \in TimeBounds
    PROVE  Narrow[e][b] = CASE e.op = "and" -> Narrow[e.r][Narrow[e.l][b]]
                            [] e.op = "or" -> NoBounds
                            [] e.op \notin {"and", "or"} /\ IsTimeBound(e) -> Tighten(b, e)
                            [] OTHER -> b
BY NarrowIs DEF NarrowStep, TimeBounds

LEMMA NoBoundsIs ==
    /\ NoBounds \in TimeBounds
    /\ \A t \in Literals : NoBounds.lo <= t /\ t <= NoBounds.hi
BY Half, WidthsAssumption DEF NoBounds, TimeBounds, Literals

LEMMA BoundsAreSound ==
    \A h \in 0..Top : \A e \in Language[h].condition : NarrowsSoundly(e)
<1> DEFINE Bad == {h \in Nat : h <= Top /\ \E e \in Language[h].condition : ~NarrowsSoundly(e)}
<1>1. SUFFICES ASSUME Bad # {} PROVE FALSE
  BY TopIsNat
<1>2. PICK h \in Bad : \A k \in Bad : h <= k
  BY <1>1, Least
<1>3. h \in 0..Top
  BY <1>2, TopIsNat
<1>4. PICK e \in Language[h].condition : ~NarrowsSoundly(e)
  BY <1>2
<1>5. h # 0
  BY <1>4, UptoZero DEF Upto
<1>6. h - 1 \in Nat /\ h - 1 <= Top /\ h - 1 \notin Bad /\ h - 1 \in 0..Top
  BY <1>2, <1>3, <1>5, Heights
<1>7. \A x \in Language[h - 1].condition : NarrowsSoundly(x)
  BY <1>6
<1>8. e \in Conditions
  BY <1>3, InTop
<1>9. CASE e.op = "and"
  <2>1. e.l \in Language[h - 1].condition /\ e.r \in Language[h - 1].condition
    BY <1>3, <1>5, <1>9, ConditionParts DEF Comparisons
  <2>2. NarrowsSoundly(e.l) /\ NarrowsSoundly(e.r)
    BY <1>7, <2>1
  <2>3. \A row \in Rows : Holds[e][row] => Holds[e.l][row] /\ Holds[e.r][row]
    BY <1>8, <1>9, HoldsAt DEF Satisfied
  <2>4. \A b \in TimeBounds : Narrow[e][b] = Narrow[e.r][Narrow[e.l][b]]
    BY <1>8, <1>9, NarrowAt
  <2>5. NarrowsSoundly(e)
    BY <2>2, <2>3, <2>4 DEF NarrowsSoundly
  <2> QED BY <1>4, <2>5
<1>10. CASE e.op = "or"
  <2>1. \A b \in TimeBounds : Narrow[e][b] = NoBounds
    BY <1>8, <1>10, NarrowAt
  <2>2. \A row \in Rows : row.date_time \in Literals
    BY DEF Rows, Literals
  <2>3. NarrowsSoundly(e)
    BY <2>1, <2>2, NoBoundsIs DEF NarrowsSoundly
  <2> QED BY <1>4, <2>3
<1>11. CASE e.op \notin {"and", "or"} /\ IsTimeBound(e)
  <2>1. \A b \in TimeBounds : Narrow[e][b] = Tighten(b, e)
    BY <1>8, <1>11, NarrowAt
  <2>2. e.op \in {">=", ">", "<=", "<"} /\ e.l = [op |-> "column", name |-> "date_time"]
        /\ e.r.op = "int"
    BY <1>11 DEF IsTimeBound
  <2>3. e.r \in Language[h - 1].sum
    BY <1>3, <1>5, <2>2, ConditionParts DEF Comparisons
  <2>4. e.r \in Atoms
    <3>1. h - 1 # 0
      BY <2>3, UptoZero DEF Upto
    <3> QED BY <1>6, <2>2, <2>3, <3>1, TermParts DEF Arithmetic
  <2>5. e.r.value \in Literals /\ e.r = [op |-> "int", value |-> e.r.value]
    BY <2>2, <2>4, AtomParts
  <2> DEFINE v == e.r.value
  <2>6. ASSUME NEW row \in Rows, Holds[e][row]
        PROVE  /\ row.date_time \in Literals
               /\ e.op = ">=" => row.date_time >= v
               /\ e.op = ">" => row.date_time > v
               /\ e.op = "<=" => row.date_time <= v
               /\ e.op = "<" => row.date_time < v
    <3>1. Satisfied(Holds, e, row)
      BY <1>8, <2>6, HoldsAt
    <3>2. Value[e.l][row] = row.date_time /\ Value[e.r][row] = v
      BY <2>2, <2>5, TimeAndLiteral
    <3>3. row.date_time \in Literals
      BY DEF Rows, Literals
    <3> HIDE DEF v
    <3> QED BY <2>2, <3>1, <3>2, <3>3 DEF Satisfied
  <2>7. NarrowsSoundly(e)
    <3>1. SUFFICES ASSUME NEW b \in TimeBounds
                   PROVE  /\ Tighten(b, e) \in TimeBounds
                          /\ \A row \in Rows :
                                Holds[e][row] /\ b.lo <= row.date_time /\ row.date_time <= b.hi
                                => /\ Tighten(b, e).lo <= row.date_time
                                   /\ row.date_time <= Tighten(b, e).hi
      BY <2>1 DEF NarrowsSoundly
    <3> DEFINE op == e.op
    <3>2. op \in {">=", ">", "<=", "<"} /\ v \in Literals /\ e.op = op /\ e.r.value = v
      BY <2>2, <2>5
    <3> HIDE DEF op, v
    <3>3. /\ Tighten(b, e) \in TimeBounds
          /\ \A t \in Literals :
                /\ b.lo <= t /\ t <= b.hi
                /\ op = ">=" => t >= v
                /\ op = ">" => t > v
                /\ op = "<=" => t <= v
                /\ op = "<" => t < v
                => Tighten(b, e).lo <= t /\ t <= Tighten(b, e).hi
      BY <3>2, TightenKeeps
    <3> QED BY <2>6, <3>2, <3>3
  <2> QED BY <1>4, <2>7
<1>12. CASE e.op \notin {"and", "or"} /\ ~IsTimeBound(e)
  <2>1. \A b \in TimeBounds : Narrow[e][b] = b
    BY <1>8, <1>12, NarrowAt
  <2>2. NarrowsSoundly(e)
    BY <2>1 DEF NarrowsSoundly
  <2> QED BY <1>4, <2>2
<1> QED BY <1>9, <1>10, <1>11, <1>12

\* The time of every row a query selects is within the bounds of its clause, also
\* where a literal plus or minus one wraps (parseWhereClause).
THEOREM SelectedWithinBounds ==
    ASSUME NEW where \in Written \cup {NoWhere}
    PROVE  /\ Bounds(where) \in TimeBounds
           /\ \A row \in Rows : Selects(where, row) =>
                 Bounds(where).lo <= row.date_time /\ row.date_time <= Bounds(where).hi
<1>1. \A row \in Rows : row.date_time \in Literals
  BY DEF Rows, Literals
<1>2. CASE where = NoWhere
  BY <1>1, <1>2, NoBoundsIs DEF Bounds
<1>3. CASE where # NoWhere
  <2>1. NarrowsSoundly(where)
    BY <1>3, TopIsNat, BoundsAreSound DEF Written
  <2>2. Bounds(where) = Narrow[where][NoBounds]
    BY <1>3 DEF Bounds
  <2>3. \A row \in Rows : Selects(where, row) => Holds[where][row]
    BY <1>3 DEF Selects
  <2> QED BY <1>1, <2>1, <2>2, <2>3, NoBoundsIs DEF NarrowsSoundly
<1> QED BY <1>2, <1>3

-----------------------------------------------------------------------------
\* The blocks of a range.

LEMMA SchemasOfTables ==
    ASSUME NEW table \in Tables
    PROVE  SchemaOf(table) \in StreamMeta /\ SchemaOf(table).start >= 0
<1> DEFINE d == (table[2] - table[1]) * RowsPerBlock
           M == TimeModulus
<1>1. /\ table[1] \in 0..MaxTime /\ table[2] \in table[1]..MaxTime /\ TimeRange(table) # 0
      /\ MaxTime \in Int /\ MinTime \in Int /\ MinTime <= 0
      /\ RowsPerBlock \in Nat /\ M \in Nat \ {0}
  BY FirstRowsApart, Half, WidthsAssumption DEF MinTime
<1>2. d \in Int
  <2>1. table[2] - table[1] \in Int
    BY <1>1
  <2> QED BY <1>1, <2>1
<1>3. TimeRange(table) = d % M
  BY DEF TimeRange, Unsigned
<1> HIDE DEF d
<1>4. d % M \in 0..(M - 1)
  BY <1>1, <1>2, ModRange
<1>5. TimeRange(table) \in 1..(M - 1)
  BY <1>1, <1>3, <1>4
<1>6. SchemaOf(table) = [start |-> table[1], range |-> TimeRange(table)]
  BY DEF SchemaOf
<1> QED BY <1>1, <1>5, <1>6 DEF StreamMeta

LEMMA BlockIdsAreIds ==
    ASSUME NEW meta \in StreamMeta, NEW t \in Literals
    PROVE  BlockId(meta, t) \in Ids /\ BlockId(meta, t) \in Nat
<1> DEFINE M == TimeModulus
           u == Unsigned(Unsigned(t) - meta.start)
           q == u \div meta.range
<1>1. M \in Nat \ {0} /\ meta.start \in Int /\ meta.range \in Nat \ {0} /\ t \in Int
  BY WidthsAssumption, Half DEF StreamMeta, Literals
<1>2. u \in Nat
  BY <1>1 DEF Unsigned
<1> HIDE DEF u
<1>3. q \in Nat
  BY <1>1, <1>2
<1> HIDE DEF q
<1>4. q % IdModulus \in 0..(IdModulus - 1)
  BY <1>3, ModRange, IdsArePositive
<1>5. BlockId(meta, t) = q % IdModulus
  BY DEF BlockId, q, u
<1> QED BY <1>4, <1>5, IdsArePositive DEF Ids, MaxId

LEMMA SignedModulo ==
    ASSUME NEW x \in Int
    PROVE  Signed(x) % TimeModulus = x % TimeModulus
<1> DEFINE M == TimeModulus
           v == x % M
<1>1. M \in Nat \ {0} /\ MaxTime \in Int
  BY WidthsAssumption, Half
<1>2. Signed(x) = IF v > MaxTime THEN v - M ELSE v
  BY DEF Signed
<1>3. v \in 0..(M - 1)
  BY <1>1, ModRange
<1> HIDE DEF v
<1>4. v % M = v
  BY <1>1, <1>3, ModSmall
<1>5. (v - M) % M = v
  <2>1. v - M \in Int /\ v - M = M * (-1) + v
    BY <1>1, <1>3
  <2> QED BY <1>1, <1>3, <2>1, ModUnique
<1> QED BY <1>1, <1>2, <1>3, <1>4, <1>5 DEF v

\* A block ends where the next one begins.
LEMMA NextBlock ==
    ASSUME NEW meta \in StreamMeta, NEW b \in Int
    PROVE  BlockEnd(meta, b) = BlockBegin(meta, b + 1)
<1> DEFINE M == TimeModulus
           r == meta.range
           x == meta.start + b * r
           y == meta.start + (b + 1) * r
<1>1. M \in Nat \ {0} /\ meta.start \in Int /\ r \in Int
  BY WidthsAssumption, Half DEF StreamMeta
<1>2. x \in Int /\ y = x + r /\ y \in Int
  <2>1. b * r \in Int /\ (b + 1) * r = b * r + r
    BY <1>1
  <2> HIDE DEF r
  <2> DEFINE p == b * r
             q == (b + 1) * r
  <2>2. p \in Int /\ q = p + r
    BY <2>1
  <2> HIDE DEF p, q
  <2>3. meta.start + p \in Int /\ meta.start + q = (meta.start + p) + r /\ meta.start + q \in Int
    BY <1>1, <2>2
  <2> QED BY <2>3 DEF p, q
<1>3. BlockBegin(meta, b) = Signed(x) /\ BlockBegin(meta, b + 1) = Signed(y)
  BY DEF BlockBegin
<1>4. BlockEnd(meta, b) = Signed((Signed(x) % M) + r)
  BY <1>3 DEF BlockEnd, Unsigned
<1> HIDE DEF x, y, r
<1>5. ((Signed(x) % M) + r) % M = y % M
  <2>1. Signed(x) % M = x % M
    BY <1>2, SignedModulo
  <2>2. ((x % M) + r) % M = (x + r) % M
    BY <1>1, <1>2, ModShift
  <2> QED BY <1>2, <2>1, <2>2
<1>6. Signed((Signed(x) % M) + r) = Signed(y)
  BY <1>5 DEF Signed
<1> QED BY <1>3, <1>4, <1>6

\* Unless a block reaches past the largest time, the blocks of a range lie in
\* the order of their ids and share no time, whatever wraps (addBlockConditions).
THEOREM BlocksInOrder ==
    ASSUME NEW meta \in StreamMeta, NEW first \in Nat, NEW last \in Nat,
           \A b \in first..last : BlockBegin(meta, b) < BlockEnd(meta, b),
           NEW b \in first..last
    PROVE  \A c \in (b + 1)..last : BlockEnd(meta, b) <= BlockBegin(meta, c)
<1> DEFINE Bad == {c \in Nat : b < c /\ c <= last /\ ~(BlockEnd(meta, b) <= BlockBegin(meta, c))}
<1>1. SUFFICES ASSUME Bad # {} PROVE FALSE
  OBVIOUS
<1>2. PICK c \in Bad : \A k \in Bad : c <= k
  BY <1>1, Least
<1>3. \A i \in Int : BlockBegin(meta, i) \in Int /\ BlockEnd(meta, i) \in Int
  BY LimitsAreLiterals, Half DEF Literals, StreamMeta
<1>4. b \in Int /\ c \in Int
  BY <1>2
<1>5. CASE c = b + 1
  <2>1. BlockEnd(meta, b) = BlockBegin(meta, c)
    BY <1>4, <1>5, NextBlock
  <2> QED BY <1>2, <1>3, <1>4, <2>1
<1>6. CASE c # b + 1
  <2>1. c - 1 \in Nat /\ b < c - 1 /\ c - 1 <= last /\ c - 1 \in first..last /\ ~(c <= c - 1)
        /\ (c - 1) + 1 = c
    BY <1>2, <1>4, <1>6
  <2>2. BlockEnd(meta, b) <= BlockBegin(meta, c - 1)
    <3>1. c - 1 \notin Bad
      BY <1>2, <2>1
    <3> QED BY <2>1, <3>1
  <2>3. BlockBegin(meta, c - 1) < BlockEnd(meta, c - 1)
    BY <2>1
  <2>4. BlockEnd(meta, c - 1) = BlockBegin(meta, c)
    BY <2>1, NextBlock
  <2>5. BlockEnd(meta, b) <= BlockBegin(meta, c)
    <3>1. c - 1 \in Int
      BY <2>1
    <3> QED BY <1>3, <1>4, <2>2, <2>3, <2>4, <3>1
  <2> QED BY <1>2, <2>5
<1> QED BY <1>5, <1>6

LEMMA OneBlockOfTime ==
    ASSUME NEW meta \in StreamMeta, NEW first \in Nat, NEW last \in Nat,
           \A b \in first..last : BlockBegin(meta, b) < BlockEnd(meta, b),
           NEW b \in first..last, NEW c \in first..last, NEW t \in Int,
           InBlock(meta, b, t), InBlock(meta, c, t)
    PROVE  b = c
<1>1. \A i \in Int : BlockBegin(meta, i) \in Int /\ BlockEnd(meta, i) \in Int
  BY LimitsAreLiterals, Half DEF Literals, StreamMeta
<1>2. ASSUME NEW i \in first..last, NEW j \in first..last, i < j,
             InBlock(meta, i, t), InBlock(meta, j, t)
      PROVE  FALSE
  <2>1. j \in (i + 1)..last /\ i \in Int /\ j \in Int
    BY <1>2
  <2>2. BlockEnd(meta, i) <= BlockBegin(meta, j)
    BY <2>1, BlocksInOrder
  <2> QED BY <1>1, <1>2, <2>1, <2>2 DEF InBlock
<1>3. ~(b < c) /\ ~(c < b)
  BY <1>2
<1> QED BY <1>3

\* The time of a row from the first one on is in a block of its range, when an
\* id can name the last of these.
LEMMA BlockOfRow ==
    ASSUME NEW meta \in StreamMeta, NEW lo \in Literals, NEW hi \in Literals, NEW t \in Literals,
           meta.start <= lo, lo <= t, t <= hi, hi < meta.start + MaxId * meta.range
    PROVE  \E b \in BlockId(meta, lo)..BlockId(meta, hi) :
              BlockEnd(meta, b) <= BlockBegin(meta, b) \/ InBlock(meta, b, t)
<1> DEFINE a == meta.start
           m == meta.range
           first == (lo - a) \div m
           last == (hi - a) \div m
           q == (t - a) \div m
<1>1. /\ TimeModulus \in Nat \ {0} /\ a \in Int /\ MinTime <= a /\ m \in Nat \ {0}
      /\ m < TimeModulus
      /\ MaxTime \in Int /\ MinTime \in Int /\ MaxTime - MinTime + 1 = TimeModulus
      /\ MaxId \in Nat
  BY Half, WidthsAssumption, IdsArePositive DEF StreamMeta, MaxId
<1>2. /\ lo \in Int /\ hi \in Int /\ t \in Int
      /\ a <= lo /\ lo <= t /\ t <= hi /\ hi <= MaxTime
      /\ lo - a \in Nat /\ hi - a \in Nat /\ t - a \in Nat
      /\ lo - a <= t - a /\ t - a <= hi - a
  BY <1>1 DEF Literals
<1>3. hi - a < MaxId * m
  <2> DEFINE p == MaxId * m
  <2>1. p \in Int /\ hi < a + p
    BY <1>1
  <2> HIDE DEF p, a
  <2>2. a \in Int /\ hi \in Int
    BY <1>1, <1>2
  <2>3. hi - a < p
    BY <2>1, <2>2
  <2> QED BY <2>3 DEF p, a
<1>4. /\ first \in Nat /\ last \in Nat /\ q \in Nat
      /\ first <= q /\ q <= last
      /\ q * m <= t - a /\ t - a < q * m + m /\ last * m <= hi - a
  <2> HIDE DEF a, m
  <2> QED BY <1>1, <1>2, QuotientUnique, QuotientMonotone
<1>5. last < MaxId
  <2>1. SUFFICES ASSUME ~(last < MaxId) PROVE FALSE
    OBVIOUS
  <2> HIDE DEF last, a, m
  <2>2. PICK k \in Nat : last = MaxId + k
    <3>1. last - MaxId \in Nat /\ last = MaxId + (last - MaxId)
      BY <1>1, <1>4, <2>1
    <3> QED BY <3>1
  <2>3. last * m = MaxId * m + k * m /\ k * m \in Nat /\ MaxId * m \in Nat
    BY <1>1, <2>2
  <2> DEFINE x == last * m
             y == MaxId * m
             z == k * m
             d == hi - a
  <2>4. x = y + z /\ z \in Nat /\ y \in Nat /\ x <= d /\ d < y /\ d \in Nat
    BY <1>2, <1>3, <1>4, <2>3
  <2> HIDE DEF x, y, z, d
  <2> QED BY <2>4
<1>6. BlockId(meta, lo) = first /\ BlockId(meta, hi) = last
  <2>1. lo \in meta.start..MaxTime /\ hi \in meta.start..MaxTime
    BY <1>1, <1>2
  <2>2. first <= MaxId /\ last <= MaxId
    <3> HIDE DEF first, last, q
    <3> QED BY <1>1, <1>4, <1>5
  <2> QED BY <1>4, <2>1, <2>2, BlockOfTime
<1> DEFINE p == q * m
<1>7. p \in Nat
  <2> HIDE DEF q, m
  <2> QED BY <1>1, <1>4
<1> HIDE DEF first, last, q
<1>8. a + p <= t /\ t < a + p + m /\ a + p <= MaxTime
  <2>1. p <= t - a /\ t - a < p + m
    BY <1>4
  <2> HIDE DEF p, a, m
  <2> QED BY <1>1, <1>2, <1>7, <2>1
<1>9. /\ BlockBegin(meta, q) = a + p
      /\ BlockEnd(meta, q) = IF a + p + m <= MaxTime THEN a + p + m
                             ELSE (a + p + m) - TimeModulus
  BY <1>4, <1>8, BlockLimits
<1> HIDE DEF p, a, m
<1>10. BlockEnd(meta, q) <= BlockBegin(meta, q) \/ InBlock(meta, q, t)
  <2>1. CASE a + p + m <= MaxTime
    BY <1>8, <1>9, <2>1 DEF InBlock
  <2>2. CASE ~(a + p + m <= MaxTime)
    BY <1>1, <1>7, <1>9, <2>2
  <2> QED BY <2>1, <2>2
<1>11. q \in first..last
  BY <1>4
<1> QED BY <1>6, <1>10, <1>11

-----------------------------------------------------------------------------
\* Every row a query selects, in one task.

LEMMA TaskSelects ==
    ASSUME NEW meta \in StreamMeta, NEW b \in Int, NEW where \in Written \cup {NoWhere},
           NEW row \in Rows, SubQueries(meta, where, b) # {}
    PROVE  (\E e \in SubQueries(meta, where, b) : Selects(e, row))
             <=> /\ Selects(where, row)
                 /\ \/ BlockEnd(meta, b) <= BlockBegin(meta, b)
                    \/ InBlock(meta, b, row.date_time)
<1>1. BlockBegin(meta, b) \in Literals /\ BlockEnd(meta, b) \in Literals
  BY LimitsAreLiterals, Half DEF StreamMeta
<1>2. CASE BlockEnd(meta, b) <= BlockBegin(meta, b)
  <2>1. SubQueries(meta, where, b) = {where}
    BY <1>2 DEF SubQueries
  <2> QED BY <1>2, <2>1
<1>3. CASE ~(BlockEnd(meta, b) <= BlockBegin(meta, b))
  <2>1. SubQueries(meta, where, b) = Read[SubQueryText(meta, where, b)]
    BY <1>3 DEF SubQueries
  <2>2. SubQueries(meta, where, b) = {BlockQuery(meta, where, b)}
    BY <1>1, <2>1, SubQueryReads
  <2> QED BY <1>1, <1>3, <2>2, BlockQuerySelects
<1> QED BY <1>2, <1>3

LEMMA FetchedOnce ==
    ASSUME NEW meta \in StreamMeta, NEW where \in Written \cup {NoWhere},
           ~Refused(meta, where)
    PROVE  RowsFetchedOnce(meta, where)
<1> DEFINE first == FirstBlock(meta, where)
           last == LastBlock(meta, where)
           blocks == BlocksOf(meta, where)
<1>1. Bounds(where) \in TimeBounds /\ Bounds(where).lo \in Literals /\ Bounds(where).hi \in Literals
  BY SelectedWithinBounds DEF TimeBounds
<1>2. first \in Nat /\ last \in Nat /\ blocks = first..last
  BY <1>1, BlockIdsAreIds DEF FirstBlock, LastBlock, BlocksOf
<1>3. \A b \in blocks : b \in Int /\ SubQueries(meta, where, b) # {}
  BY <1>2 DEF Refused
<1> HIDE DEF first, last, blocks
<1>4. SUFFICES ASSUME NEW row \in RowsOf(meta)
               PROVE  LET tasks == Fetching(meta, where, row) IN
                      IF Selects(where, row)
                      THEN /\ Cardinality(tasks) <= 1 \/ Overrun(meta, where)
                           /\ Inside(meta, where) => tasks # {}
                      ELSE tasks = {}
  BY DEF RowsFetchedOnce
<1> DEFINE t == row.date_time
           tasks == Fetching(meta, where, row)
<1>5. row \in Rows /\ t \in Literals /\ t >= meta.start
  BY ValuesAreIntegers DEF RowsOf, Rows, Literals
<1>6. \A b \in blocks :
         b \in tasks <=> /\ Selects(where, row)
                         /\ \/ BlockEnd(meta, b) <= BlockBegin(meta, b)
                            \/ InBlock(meta, b, t)
  <2> SUFFICES ASSUME NEW b \in blocks
               PROVE  b \in tasks <=> /\ Selects(where, row)
                                      /\ \/ BlockEnd(meta, b) <= BlockBegin(meta, b)
                                         \/ InBlock(meta, b, t)
    OBVIOUS
  <2>1. b \in tasks <=> \E e \in SubQueries(meta, where, b) : Selects(e, row)
    BY DEF Fetching, blocks
  <2> QED BY <1>3, <1>5, <2>1, TaskSelects
<1>7. tasks \subseteq blocks
  BY DEF Fetching, blocks
<1>8. \A i \in Int : BlockBegin(meta, i) \in Int /\ BlockEnd(meta, i) \in Int
  BY LimitsAreLiterals, Half DEF Literals, StreamMeta
<1> HIDE DEF tasks
<1>9. ~Selects(where, row) => tasks = {}
  BY <1>6, <1>7
<1>10. ASSUME ~Overrun(meta, where) PROVE Cardinality(tasks) <= 1
  <2>1. \A b \in blocks : ~(BlockEnd(meta, b) <= BlockBegin(meta, b))
    BY <1>10 DEF Overrun, blocks
  <2>2. \A b \in first..last : BlockBegin(meta, b) < BlockEnd(meta, b)
    BY <1>2, <1>3, <1>8, <2>1
  <2>3. t \in Int
    BY <1>5, Half DEF Literals
  <2>4. ASSUME NEW b \in tasks, NEW c \in tasks PROVE b = c
    <3>1. b \in first..last /\ c \in first..last
      BY <1>2, <1>7
    <3>2. InBlock(meta, b, t) /\ InBlock(meta, c, t)
      BY <1>2, <1>6, <2>1, <3>1
    <3> HIDE DEF t
    <3> QED BY <1>2, <2>2, <2>3, <3>1, <3>2, OneBlockOfTime
  <2>5. CASE tasks = {}
    <3>1. Cardinality(tasks) = 0
      BY <2>5, FS_EmptySet
    <3> QED BY <3>1
  <2>6. CASE tasks # {}
    <3>1. PICK b : tasks = {b}
      BY <2>4, <2>6
    <3>2. Cardinality(tasks) = 1
      BY <3>1, FS_Singleton
    <3> QED BY <3>2
  <2> QED BY <2>5, <2>6
<1>11. ASSUME Selects(where, row), Inside(meta, where) PROVE tasks # {}
  <2> DEFINE lo == Bounds(where).lo
             hi == Bounds(where).hi
  <2>1. lo <= t /\ t <= hi
    BY <1>5, <1>11, SelectedWithinBounds
  <2>2. meta.start <= lo /\ hi < meta.start + MaxId * meta.range
    <3>1. lo >= meta.start /\ hi < meta.start + MaxId * meta.range
      BY <1>11 DEF Inside
    <3> QED BY <3>1
  <2>3. first = BlockId(meta, lo) /\ last = BlockId(meta, hi)
    BY DEF first, last, FirstBlock, LastBlock
  <2>4. lo \in Literals /\ hi \in Literals
    BY <1>1
  <2> HIDE DEF lo, hi, t
  <2>5. PICK b \in first..last : BlockEnd(meta, b) <= BlockBegin(meta, b) \/ InBlock(meta, b, t)
    BY <1>5, <2>1, <2>2, <2>3, <2>4, BlockOfRow
  <2>6. b \in tasks
    BY <1>2, <1>6, <1>11, <2>5
  <2> QED BY <2>6
<1> QED BY <1>9, <1>10, <1>11 DEF tasks

LEMMA SchemasAreSound == \A table \in Tables : SchemaOf(table) \in SoundSchemas
<1> SUFFICES ASSUME NEW table \in Tables PROVE SchemaOf(table) \in SoundSchemas
  OBVIOUS
<1>1. SchemaOf(table) \in StreamMeta
  BY SchemasOfTables
<1>2. \A where \in Clauses : where \in Written \cup {NoWhere}
  BY ClausesAreWritten
<1>3. \A where \in Clauses : \/ Refused(SchemaOf(table), where)
                             \/ RowsFetchedOnce(SchemaOf(table), where)
  BY <1>1, <1>2, FetchedOnce
<1> QED BY <1>3 DEF SoundSchemas

\* The schema of the stream is that of a table, once the edge has one.
SchemaIsOfTable == schema = NoSchema \/ \E table \in Tables : schema = SchemaOf(table)

LEMMA InitSchema == PlanningInit => SchemaIsOfTable
BY DEF PlanningInit, SchemaIsOfTable

LEMMA NextSchema == SchemaIsOfTable /\ [PlanningNext]_planningVars => SchemaIsOfTable'
<1> SUFFICES ASSUME SchemaIsOfTable, [PlanningNext]_planningVars PROVE SchemaIsOfTable'
  OBVIOUS
<1>1. CASE UNCHANGED schema
  BY <1>1 DEF SchemaIsOfTable
<1>2. ASSUME NEW table \in Tables, UpdateSchemaInfo(table) PROVE SchemaIsOfTable'
  BY <1>2 DEF SchemaIsOfTable, UpdateSchemaInfo
<1> QED BY <1>1, <1>2 DEF PlanningNext, planningVars

\* Every row a query selects is fetched by exactly one of its tasks, and no other
\* row is, for any tables and any clauses of the language: what the database
\* reads in a sub-query is the condition of the query and the limits of the
\* block, the bounds found in a clause hold for every row it selects, and the
\* blocks of the range from one to the other share no time and leave none out
\* (expressionToString, parseWhereClause, getBlockRange, addBlockConditions).
THEOREM RowsInOneTaskHolds == PlanningSpec => []RowsInOneTask
<1>1. SchemaIsOfTable => RowsInOneTask
  BY SchemasAreSound DEF SchemaIsOfTable, RowsInOneTask
<1> QED BY <1>1, InitSchema, NextSchema, PTL DEF PlanningSpec

\* Planning a query changes nothing of the index: with the schema left out, every
\* behavior is one of the cache index, and what is proved of the index holds
\* while queries are planned.
THEOREM PlanningKeepsIndex == PlanningSpec => Spec
<1>1. PlanningInit => Init
  BY DEF PlanningInit
<1>2. [PlanningNext]_planningVars => [Next]_vars
  BY DEF PlanningNext, UpdateSchemaInfo, planningVars
<1> QED BY <1>1, <1>2, PTL DEF PlanningSpec, Spec

\* Whatever is proved of the index holds while queries are planned: where it
\* sends the query of a block, above all (queryMainIndex).
THEOREM IndexWhilePlanning ==
    PlanningSpec => [](TypeOK /\ CountersAccount /\ NoFalseNegative /\ MixIndexExact /\ NearestHolder)
BY PlanningKeepsIndex, TypeCorrect, CountersAccountHolds, NoFalseNegativeHolds, MixIndexExactHolds,
   NearestHolderHolds, PTL
=============================================================================
