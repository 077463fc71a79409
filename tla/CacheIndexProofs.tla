--------------------------- MODULE CacheIndexProofs ---------------------------
(***************************************************************************)
(* What an edge server knows of its neighbours' blocks, for any neighbours,*)
(* streams, latencies, hash functions and sizes of the filters and of the  *)
(* bitmaps' containers.  First the Roaring library: what its operations do *)
(* to the set a bitmap stands for, and that every container stays valid.   *)
(***************************************************************************)
EXTENDS CacheIndex, SequenceTheorems, FiniteSetTheorems, TLAPS

-----------------------------------------------------------------------------
\* Arithmetic modulo a width, and the largest member of a bounded set.

LEMMA ModRange ==
    ASSUME NEW m \in Nat \ {0}, NEW c \in Int
    PROVE  c % m \in 0..(m - 1)
OBVIOUS

LEMMA ModUnique ==
    ASSUME NEW m \in Nat \ {0}, NEW q \in Int, NEW r \in 0..(m - 1)
    PROVE  (m * q + r) % m = r
OBVIOUS

LEMMA ModSmall ==
    ASSUME NEW m \in Nat \ {0}, NEW c \in 0..(m - 1)
    PROVE  c % m = c
OBVIOUS

LEMMA ModQuotient ==
    ASSUME NEW m \in Nat \ {0}, NEW c \in Int
    PROVE  \E q \in Int : c = (m * q) + (c % m)
<1>1. c \div m \in Int
  OBVIOUS
<1>2. c = (m * (c \div m)) + (c % m)
  OBVIOUS
<1> QED BY <1>1, <1>2

\* A sum below the width does not wrap.
LEMMA ModAdd ==
    ASSUME NEW m \in Nat \ {0}, NEW c \in Int, NEW h \in Nat, (c % m) + h < m
    PROVE  (c + h) % m = (c % m) + h
OBVIOUS

\* Wrapping at every step is wrapping once.
LEMMA ModShift ==
    ASSUME NEW m \in Nat \ {0}, NEW c \in Int, NEW d \in Int
    PROVE  ((c % m) + d) % m = (c + d) % m
<1>1. PICK q \in Int : c = (m * q) + (c % m)
  BY ModQuotient
<1> DEFINE r == c % m
           e == r + d
<1>2. r \in Int
  BY ModRange
<1>3. e \in Int
  BY <1>2
<1>4. PICK p \in Int : e = (m * p) + (e % m)
  BY <1>3, ModQuotient
<1>5. e % m \in 0..(m - 1)
  BY <1>3, ModRange
<1>6. c = (m * q) + r
  BY <1>1
<1> HIDE DEF r
<1>7. c + d = (m * q) + e
  BY <1>2, <1>6
<1> HIDE DEF e
<1>8. c + d = (m * q) + ((m * p) + (e % m))
  BY <1>4, <1>7
<1> DEFINE t == e % m
           n == q + p
<1>9. t \in 0..(m - 1) /\ n \in Int
  BY <1>5
<1>10. c + d = (m * n) + t
  BY <1>5, <1>8
<1> HIDE DEF t, n
<1>11. ((m * n) + t) % m = t
  BY <1>9, ModUnique
<1> QED BY <1>10, <1>11 DEF e, r, t

LEMMA Least ==
    ASSUME NEW T \in SUBSET Nat, T # {}
    PROVE  \E x \in T : \A y \in T : x <= y
<1>1. \E x \in T : \A y \in T : ~(<<y, x>> \in OpToRel(<, Nat))
  <2> DEFINE R == OpToRel(<, Nat)
  <2>1. IsWellFoundedOn(R, Nat)
    BY NatLessThanWellFounded, Zenon
  <2>2. T \subseteq Nat
    OBVIOUS
  <2> HIDE DEF R
  <2>3. \E x \in T : \A y \in T : ~(<<y, x>> \in R)
    BY <2>1, <2>2, WFMin, Zenon
  <2> QED BY <2>3, Zenon DEF R
<1>2. \A x, y \in Nat : ~(<<y, x>> \in OpToRel(<, Nat)) => ~(y < x)
  BY DEF OpToRel
<1>3. \E x \in T : \A y \in T : ~(y < x)
  BY <1>1, <1>2, Zenon
<1> QED BY <1>3

LEMMA Largest ==
    ASSUME NEW T \in SUBSET Nat, NEW b \in Nat, \A x \in T : x <= b, T # {}
    PROVE  \E x \in T : \A y \in T : y <= x
<1> DEFINE U == {u \in Nat : \A y \in T : y <= u}
<1>1. b \in U
  OBVIOUS
<1>2. PICK u \in U : \A v \in U : u <= v
  BY <1>1, Least
<1>3. u \in T
  <2>1. SUFFICES ASSUME u \notin T PROVE FALSE
    OBVIOUS
  <2>2. \A y \in T : y \in Nat /\ y < u
    BY <1>2, <2>1
  <2>3. u - 1 \in Nat /\ \A y \in T : y <= u - 1
    <3>1. PICK z \in T : z \in Nat /\ z < u
      BY <2>2
    <3>2. u \in Nat
      BY <1>2
    <3>3. u - 1 \in Nat
      BY <3>1, <3>2
    <3> QED BY <2>2, <3>2, <3>3
  <2>4. u - 1 \in U
    BY <2>3
  <2> QED BY <1>2, <2>4
<1> QED BY <1>2, <1>3

-----------------------------------------------------------------------------
\* Sequences with one element more or less.

LEMMA InsertAtProperties ==
    ASSUME NEW S, NEW s \in Seq(S), NEW i \in 1..(Len(s) + 1), NEW e \in S
    PROVE  /\ InsertAt(s, i, e) \in Seq(S)
           /\ Len(InsertAt(s, i, e)) = Len(s) + 1
           /\ \A j \in 1..(Len(s) + 1) :
                 InsertAt(s, i, e)[j] = IF j < i THEN s[j] ELSE IF j = i THEN e ELSE s[j - 1]
<1> DEFINE front == SubSeq(s, 1, i - 1)
           back == SubSeq(s, i, Len(s))
           n == Len(s)
<1>1. n \in Nat /\ \A j \in 1..n : s[j] \in S
  BY LenProperties, ElementOfSeq
<1>2. /\ front \in Seq(S) /\ Len(front) = i - 1
      /\ \A j \in 1..(i - 1) : front[j] = s[j]
  <2>1. /\ front \in Seq(S)
        /\ Len(front) = IF 1 <= i - 1 THEN (i - 1) - 1 + 1 ELSE 0
        /\ \A j \in 1..((i - 1) - 1 + 1) : front[j] = s[1 + j - 1]
    <3>1. \A j \in 1..(i - 1) : s[j] \in S
      BY <1>1
    <3>2. i - 1 \in Int /\ 1 \in Int
      BY <1>1
    <3> QED BY <3>1, <3>2, SubSeqProperties
  <2>2. \A j \in 1..(i - 1) : j \in 1..((i - 1) - 1 + 1) /\ 1 + j - 1 = j
    BY <1>1
  <2> HIDE DEF front
  <2> QED BY <1>1, <2>1, <2>2
<1>3. /\ back \in Seq(S) /\ Len(back) = n - i + 1
      /\ \A j \in 1..(n - i + 1) : back[j] = s[i + j - 1]
  <2>1. \A j \in i..n : s[j] \in S
    BY <1>1
  <2>2. i \in Int /\ n \in Int
    BY <1>1
  <2>3. /\ back \in Seq(S)
        /\ Len(back) = IF i <= n THEN n - i + 1 ELSE 0
        /\ \A j \in 1..(n - i + 1) : back[j] = s[i + j - 1]
    BY <2>1, <2>2, SubSeqProperties
  <2> HIDE DEF back
  <2> QED BY <1>1, <2>3
<1> DEFINE head == front \o <<e>>
<1>4. <<e>> \in Seq(S) /\ Len(<<e>>) = 1 /\ <<e>>[1] = e
  OBVIOUS
<1> HIDE DEF front, back
<1>5. /\ head \in Seq(S) /\ Len(head) = i
      /\ \A j \in 1..i : head[j] = IF j <= i - 1 THEN s[j] ELSE e
  <2>1. /\ head \in Seq(S) /\ Len(head) = Len(front) + Len(<<e>>)
        /\ \A j \in 1..(Len(front) + Len(<<e>>)) :
              head[j] = IF j <= Len(front) THEN front[j] ELSE <<e>>[j - Len(front)]
    BY <1>2, <1>4, ConcatProperties
  <2>2. i \in Int /\ i >= 1
    BY <1>1
  <2> HIDE DEF head
  <2>3. Len(front) + Len(<<e>>) = i
    BY <1>2, <1>4, <2>2
  <2>4. ASSUME NEW j \in 1..i PROVE head[j] = IF j <= i - 1 THEN s[j] ELSE e
    <3>1. head[j] = IF j <= i - 1 THEN front[j] ELSE <<e>>[j - (i - 1)]
      BY <1>2, <2>1, <2>3
    <3>2. CASE j <= i - 1
      <4>1. j \in 1..(i - 1)
        BY <2>2, <3>2
      <4> QED BY <1>2, <3>1, <3>2, <4>1
    <3>3. CASE ~(j <= i - 1)
      <4>1. j - (i - 1) = 1
        BY <2>2, <3>3
      <4> QED BY <1>4, <3>1, <3>3, <4>1
    <3> QED BY <3>2, <3>3
  <2> QED BY <2>1, <2>3, <2>4
<1> HIDE DEF head
<1>6. InsertAt(s, i, e) = head \o back
  BY DEF InsertAt, head, front, back
<1>7. /\ head \o back \in Seq(S) /\ Len(head \o back) = Len(head) + Len(back)
      /\ \A j \in 1..(Len(head) + Len(back)) :
            (head \o back)[j] = IF j <= Len(head) THEN head[j] ELSE back[j - Len(head)]
  BY <1>3, <1>5, ConcatProperties
<1>8. Len(head) + Len(back) = n + 1 /\ i \in Int /\ i >= 1 /\ i <= n + 1
  BY <1>1, <1>3, <1>5
<1>9. ASSUME NEW j \in 1..(n + 1)
      PROVE  (head \o back)[j] = IF j < i THEN s[j] ELSE IF j = i THEN e ELSE s[j - 1]
  <2>1. (head \o back)[j] = IF j <= i THEN head[j] ELSE back[j - i]
    BY <1>5, <1>7, <1>8
  <2>2. CASE j <= i
    <3>1. j \in 1..i /\ (j <= i - 1 <=> j < i) /\ (~(j <= i - 1) => j = i)
      BY <1>1, <1>8, <2>2
    <3> QED BY <1>5, <2>1, <2>2, <3>1
  <2>3. CASE ~(j <= i)
    <3>1. j - i \in 1..(n - i + 1) /\ i + (j - i) - 1 = j - 1 /\ ~(j < i) /\ j # i
      BY <1>1, <1>8, <2>3
    <3> QED BY <1>3, <2>1, <2>3, <3>1
  <2> QED BY <2>2, <2>3
<1> QED BY <1>6, <1>7, <1>8, <1>9 DEF n

LEMMA RemoveAtProperties ==
    ASSUME NEW S, NEW s \in Seq(S), NEW i \in 1..Len(s)
    PROVE  /\ RemoveAt(s, i) \in Seq(S)
           /\ Len(RemoveAt(s, i)) = Len(s) - 1
           /\ \A j \in 1..(Len(s) - 1) :
                 RemoveAt(s, i)[j] = IF j < i THEN s[j] ELSE s[j + 1]
<1> DEFINE front == SubSeq(s, 1, i - 1)
           back == SubSeq(s, i + 1, Len(s))
           n == Len(s)
<1>1. n \in Nat /\ \A j \in 1..n : s[j] \in S
  BY LenProperties, ElementOfSeq
<1>2. /\ front \in Seq(S) /\ Len(front) = i - 1
      /\ \A j \in 1..(i - 1) : front[j] = s[j]
  <2>1. /\ front \in Seq(S)
        /\ Len(front) = IF 1 <= i - 1 THEN (i - 1) - 1 + 1 ELSE 0
        /\ \A j \in 1..((i - 1) - 1 + 1) : front[j] = s[1 + j - 1]
    <3>1. \A j \in 1..(i - 1) : s[j] \in S
      BY <1>1
    <3>2. i - 1 \in Int /\ 1 \in Int
      BY <1>1
    <3> QED BY <3>1, <3>2, SubSeqProperties
  <2>2. \A j \in 1..(i - 1) : j \in 1..((i - 1) - 1 + 1) /\ 1 + j - 1 = j
    BY <1>1
  <2> HIDE DEF front
  <2> QED BY <1>1, <2>1, <2>2
<1>3. /\ back \in Seq(S) /\ Len(back) = n - i
      /\ \A j \in 1..(n - i) : back[j] = s[i + j]
  <2>1. \A j \in (i + 1)..n : s[j] \in S
    BY <1>1
  <2>2. i + 1 \in Int /\ n \in Int
    BY <1>1
  <2>3. /\ back \in Seq(S)
        /\ Len(back) = IF i + 1 <= n THEN n - (i + 1) + 1 ELSE 0
        /\ \A j \in 1..(n - (i + 1) + 1) : back[j] = s[(i + 1) + j - 1]
    BY <2>1, <2>2, SubSeqProperties
  <2>4. \A j \in 1..(n - i) : j \in 1..(n - (i + 1) + 1) /\ (i + 1) + j - 1 = i + j
    BY <1>1
  <2> HIDE DEF back
  <2> QED BY <1>1, <2>3, <2>4
<1> HIDE DEF front, back
<1>4. RemoveAt(s, i) = front \o back
  BY DEF RemoveAt, front, back
<1>5. /\ front \o back \in Seq(S) /\ Len(front \o back) = Len(front) + Len(back)
      /\ \A j \in 1..(Len(front) + Len(back)) :
            (front \o back)[j] = IF j <= Len(front) THEN front[j] ELSE back[j - Len(front)]
  BY <1>2, <1>3, ConcatProperties
<1>6. Len(front) + Len(back) = n - 1
  BY <1>1, <1>2, <1>3
<1>7. ASSUME NEW j \in 1..(n - 1)
      PROVE  (front \o back)[j] = IF j < i THEN s[j] ELSE s[j + 1]
  <2>1. (front \o back)[j] = IF j <= i - 1 THEN front[j] ELSE back[j - (i - 1)]
    BY <1>2, <1>5, <1>6
  <2>2. CASE j <= i - 1
    <3>1. j \in 1..(i - 1) /\ j < i
      BY <1>1, <2>2
    <3> QED BY <1>2, <2>1, <2>2, <3>1
  <2>3. CASE ~(j <= i - 1)
    <3>1. j - (i - 1) \in 1..(n - i) /\ i + (j - (i - 1)) = j + 1 /\ ~(j < i)
      BY <1>1, <2>3
    <3> QED BY <1>3, <2>1, <2>3, <3>1
  <2> QED BY <2>2, <2>3
<1> QED BY <1>4, <1>5, <1>6, <1>7 DEF n

-----------------------------------------------------------------------------
\* Runs that are in order, with a gap between any two: more than the library's
\* validation asks of neighbours, and what its searches rely on.

USE ContainerSizes

Run == [value : Low, length : Nat]
Apart(r) ==
    /\ \A i \in 1..Len(r) : r[i].value + r[i].length < ChunkSize
    /\ \A i, j \in 1..Len(r) : i < j => r[i].value + r[i].length + 1 < r[j].value
GoodRuns == {r \in Seq(Run) : Apart(r)}

At(r, i, x) == r[i].value <= x /\ x <= r[i].value + r[i].length
Covers(r, x) == \E i \in 1..Len(r) : At(r, i, x)

LEMMA RunTypes ==
    ASSUME NEW r \in Seq(Run)
    PROVE  /\ Len(r) \in Nat /\ DOMAIN r = 1..Len(r)
           /\ \A i \in 1..Len(r) : r[i] \in Run /\ r[i].value \in Low
                                   /\ r[i].value \in Nat /\ r[i].length \in Nat
<1>1. Len(r) \in Nat /\ r \in [1..Len(r) -> Run]
  BY LenProperties
<1>2. \A x \in Run : x.value \in Low /\ x.length \in Nat
  BY DEF Run
<1>3. Low \subseteq Nat
  BY DEF Low
<1> QED BY <1>1, <1>2, <1>3

LEMMA RunsValues ==
    ASSUME NEW r \in Seq(Run)
    PROVE  \A x : x \in ValuesOf(RunsOf(r)) <=> x \in Int /\ Covers(r, x)
<1>1. RunsOf(r).kind = "run" /\ RunsOf(r).runs = r
  BY DEF RunsOf
<1>2. ValuesOf(RunsOf(r)) = UNION {RunValues(r[i]) : i \in 1..Len(r)}
  BY <1>1, RunTypes DEF ValuesOf
<1>3. ASSUME NEW i \in 1..Len(r), NEW x
      PROVE  x \in RunValues(r[i]) <=>
                x \in Int /\ r[i].value <= x /\ x <= r[i].value + r[i].length
  BY RunTypes DEF RunValues
<1> QED BY <1>2, <1>3 DEF Covers, At

LEMMA RunsInLow ==
    ASSUME NEW r \in GoodRuns
    PROVE  ValuesOf(RunsOf(r)) \subseteq Low
<1> SUFFICES ASSUME NEW x, x \in Int, Covers(r, x) PROVE x \in Low
  BY RunsValues DEF GoodRuns
<1>1. r \in Seq(Run) /\ Apart(r)
  BY DEF GoodRuns
<1>2. PICK i \in 1..Len(r) : r[i].value <= x /\ x <= r[i].value + r[i].length
  BY DEF Covers, At
<1>3. r[i].value \in Nat /\ r[i].length \in Nat /\ r[i].value + r[i].length < ChunkSize
  BY <1>1, RunTypes DEF Apart
<1> QED BY <1>2, <1>3 DEF Low

\* interleavedBinarySearch separates the runs that start at v or before from the
\* others.
LEMMA PrecedingSplits ==
    ASSUME NEW r \in GoodRuns, NEW v \in Low
    PROVE  /\ Preceding(r, v) \in 0..Len(r)
           /\ \A i \in 1..Len(r) : r[i].value <= v <=> i <= Preceding(r, v)
<1>1. r \in Seq(Run) /\ Apart(r)
  BY DEF GoodRuns
<1>2. /\ Len(r) \in Nat /\ v \in Nat
      /\ \A i \in 1..Len(r) : r[i].value \in Nat /\ r[i].length \in Nat
  BY <1>1, RunTypes DEF Low
<1> DEFINE P == {i \in 1..Len(r) : r[i].value <= v}
<1>3. Preceding(r, v) = Cardinality(P)
  BY <1>1, RunTypes DEF Preceding
<1>4. ASSUME NEW i \in 1..Len(r), NEW j \in 1..Len(r), i < j
      PROVE  r[i].value < r[j].value
  <2>1. r[i].value + r[i].length + 1 < r[j].value
    BY <1>1, <1>4 DEF Apart
  <2> QED BY <1>2, <2>1
<1>5. CASE P = {}
  <2>1. Preceding(r, v) = 0
    BY <1>3, <1>5, FS_EmptySet
  <2>2. \A i \in 1..Len(r) : ~(r[i].value <= v)
    BY <1>5
  <2> QED BY <1>2, <2>1, <2>2
<1>6. CASE P # {}
  <2>1. PICK p \in P : \A i \in P : i <= p
    <3>1. P \in SUBSET Nat /\ \A i \in P : i <= Len(r)
      OBVIOUS
    <3> HIDE DEF P
    <3> QED BY <1>2, <1>6, <3>1, Largest
  <2>2. p \in 1..Len(r) /\ r[p].value <= v
    BY <2>1
  <2>3. \A i \in 1..Len(r) : r[i].value <= v <=> i <= p
    <3> SUFFICES ASSUME NEW i \in 1..Len(r) PROVE r[i].value <= v <=> i <= p
      OBVIOUS
    <3>1. i < p => r[i].value < r[p].value
      BY <1>4, <2>2
    <3> QED BY <1>2, <2>1, <2>2, <3>1
  <2>4. P = 1..p
    BY <2>2, <2>3
  <2>5. Cardinality(1..p) = p
    <3>1. 1 \in Int /\ p \in Int /\ ~(1 > p)
      BY <1>2, <2>2
    <3>2. Cardinality(1..p) = p - 1 + 1
      BY <3>1, FS_Interval
    <3> QED BY <3>1, <3>2
  <2> HIDE DEF P
  <2>6. Preceding(r, v) = p
    BY <1>3, <2>4, <2>5, Zenon
  <2> QED BY <1>2, <2>2, <2>3, <2>6
<1> QED BY <1>5, <1>6

\* One run more, less, or another one in its place.
LEMMA RunInserted ==
    ASSUME NEW r \in GoodRuns, NEW p \in 0..Len(r), NEW e \in Run,
           e.value + e.length < ChunkSize,
           \A i \in 1..Len(r) : i <= p => r[i].value + r[i].length + 1 < e.value,
           \A i \in 1..Len(r) : i > p => e.value + e.length + 1 < r[i].value
    PROVE  /\ InsertAt(r, p + 1, e) \in GoodRuns
           /\ \A x \in Int : Covers(InsertAt(r, p + 1, e), x)
                             <=> Covers(r, x) \/ (e.value <= x /\ x <= e.value + e.length)
<1> DEFINE s == InsertAt(r, p + 1, e)
           n == Len(r)
<1>1. r \in Seq(Run) /\ Apart(r) /\ n \in Nat /\ p \in Nat
  BY RunTypes DEF GoodRuns
<1>2. /\ s \in Seq(Run) /\ Len(s) = n + 1
      /\ \A j \in 1..(n + 1) :
            s[j] = IF j < p + 1 THEN r[j] ELSE IF j = p + 1 THEN e ELSE r[j - 1]
  <2>1. p + 1 \in 1..(Len(r) + 1)
    BY <1>1
  <2> QED BY <1>1, <2>1, InsertAtProperties
<1>3. \A i \in 1..n : r[i].value \in Nat /\ r[i].length \in Nat
  BY <1>1, RunTypes
<1>4. e.value \in Nat /\ e.length \in Nat
  BY DEF Run, Low
<1> HIDE DEF s, n
<1>5. \A j \in 1..(n + 1) : j < p + 1 => j \in 1..n /\ j <= p /\ s[j] = r[j]
  BY <1>1, <1>2 DEF n
<1>6. s[p + 1] = e /\ p + 1 \in 1..(n + 1)
  BY <1>1, <1>2 DEF n
<1>7. \A j \in 1..(n + 1) : j > p + 1 => j - 1 \in 1..n /\ j - 1 > p /\ s[j] = r[j - 1]
  BY <1>1, <1>2 DEF n
<1>8. \A i \in 1..n : r[i].value + r[i].length < ChunkSize
  BY <1>1 DEF Apart, n
<1>9. \A i, j \in 1..n : i < j => r[i].value + r[i].length + 1 < r[j].value
  BY <1>1 DEF Apart, n
<1>10. ASSUME NEW i \in 1..(n + 1)
       PROVE  s[i].value + s[i].length < ChunkSize
  <2>1. CASE i < p + 1
    BY <1>5, <1>8, <2>1
  <2>2. CASE i = p + 1
    BY <1>6, <2>2
  <2>3. CASE i > p + 1
    BY <1>7, <1>8, <2>3
  <2> QED BY <1>1, <2>1, <2>2, <2>3
<1>11. ASSUME NEW i \in 1..(n + 1), NEW j \in 1..(n + 1), i < j
       PROVE  s[i].value + s[i].length + 1 < s[j].value
  <2>1. CASE i < p + 1 /\ j < p + 1
    BY <1>5, <1>9, <1>11, <2>1
  <2>2. CASE i < p + 1 /\ j = p + 1
    BY <1>5, <1>6, <2>2 DEF n
  <2>3. CASE i < p + 1 /\ j > p + 1
    <3>1. i < j - 1
      BY <1>1, <2>3
    <3> QED BY <1>5, <1>7, <1>9, <2>3, <3>1
  <2>4. CASE i = p + 1
    <3>1. j > p + 1
      BY <1>11, <2>4
    <3> QED BY <1>6, <1>7, <2>4, <3>1 DEF n
  <2>5. CASE i > p + 1
    <3>1. j > p + 1 /\ i - 1 < j - 1
      BY <1>1, <1>11, <2>5
    <3> QED BY <1>7, <1>9, <2>5, <3>1
  <2> QED BY <1>1, <2>1, <2>2, <2>3, <2>4, <2>5
<1>12. s \in GoodRuns
  BY <1>2, <1>10, <1>11 DEF GoodRuns, Apart
<1>13. ASSUME NEW x \in Int
       PROVE  Covers(s, x) <=> Covers(r, x) \/ (e.value <= x /\ x <= e.value + e.length)
  <2>1. ASSUME NEW j \in 1..(n + 1), At(s, j, x)
        PROVE  Covers(r, x) \/ (e.value <= x /\ x <= e.value + e.length)
    <3>1. CASE j < p + 1
      BY <1>5, <2>1, <3>1 DEF Covers, At, n
    <3>2. CASE j = p + 1
      BY <1>6, <2>1, <3>2 DEF At
    <3>3. CASE j > p + 1
      BY <1>7, <2>1, <3>3 DEF Covers, At, n
    <3> QED BY <1>1, <3>1, <3>2, <3>3
  <2>2. ASSUME NEW i \in 1..n, At(r, i, x)
        PROVE  \E j \in 1..(n + 1) : At(s, j, x)
    <3>1. CASE i <= p
      <4>1. i \in 1..(n + 1) /\ i < p + 1
        BY <1>1, <3>1 DEF n
      <4> QED BY <1>5, <2>2, <4>1 DEF At
    <3>2. CASE i > p
      <4>1. i + 1 \in 1..(n + 1) /\ i + 1 > p + 1 /\ (i + 1) - 1 = i
        BY <1>1, <3>2 DEF n
      <4>2. s[i + 1] = r[i]
        BY <1>7, <4>1
      <4> QED BY <2>2, <4>1, <4>2 DEF At
    <3> QED BY <1>1, <3>1, <3>2
  <2>3. e.value <= x /\ x <= e.value + e.length => At(s, p + 1, x)
    BY <1>6 DEF At
  <2> QED BY <1>2, <1>6, <2>1, <2>2, <2>3 DEF Covers, n
<1> QED BY <1>12, <1>13 DEF s

LEMMA RunRemoved ==
    ASSUME NEW r \in Seq(Run), NEW k \in 1..Len(r),
           \A i \in 1..Len(r) : i # k => r[i].value + r[i].length < ChunkSize,
           \A i, j \in 1..Len(r) :
              i < j /\ i # k /\ j # k => r[i].value + r[i].length + 1 < r[j].value
    PROVE  /\ RemoveAt(r, k) \in GoodRuns
           /\ \A x \in Int : Covers(RemoveAt(r, k), x)
                             <=> \E i \in 1..Len(r) : i # k /\ At(r, i, x)
<1> DEFINE s == RemoveAt(r, k)
           n == Len(r)
<1>1. n \in Nat
  BY RunTypes
<1>2. /\ s \in Seq(Run) /\ Len(s) = n - 1
      /\ \A j \in 1..(n - 1) : s[j] = IF j < k THEN r[j] ELSE r[j + 1]
  BY RemoveAtProperties
<1> HIDE DEF s
<1>3. \A j \in 1..(n - 1) : j < k => j \in 1..n /\ j # k /\ s[j] = r[j]
  BY <1>1, <1>2
<1>4. \A j \in 1..(n - 1) : ~(j < k) => j + 1 \in 1..n /\ j + 1 > k /\ j + 1 # k /\ s[j] = r[j + 1]
  BY <1>1, <1>2
<1>5. ASSUME NEW i \in 1..(n - 1)
      PROVE  s[i].value + s[i].length < ChunkSize
  <2>1. CASE i < k
    BY <1>3, <2>1
  <2>2. CASE ~(i < k)
    BY <1>4, <2>2
  <2> QED BY <2>1, <2>2
<1>6. ASSUME NEW i \in 1..(n - 1), NEW j \in 1..(n - 1), i < j
      PROVE  s[i].value + s[i].length + 1 < s[j].value
  <2>1. CASE i < k /\ j < k
    BY <1>3, <1>6, <2>1
  <2>2. CASE i < k /\ ~(j < k)
    <3>1. i < j + 1
      BY <1>1, <1>6
    <3> QED BY <1>3, <1>4, <2>2, <3>1
  <2>3. CASE ~(i < k)
    <3>1. ~(j < k) /\ i + 1 < j + 1
      BY <1>1, <1>6, <2>3
    <3> QED BY <1>4, <2>3, <3>1
  <2> QED BY <2>1, <2>2, <2>3
<1>7. s \in GoodRuns
  BY <1>2, <1>5, <1>6 DEF GoodRuns, Apart
<1>8. ASSUME NEW x \in Int
      PROVE  Covers(s, x) <=> \E i \in 1..n : i # k /\ At(r, i, x)
  <2>1. ASSUME NEW j \in 1..(n - 1), At(s, j, x)
        PROVE  \E i \in 1..n : i # k /\ At(r, i, x)
    <3>1. CASE j < k
      BY <1>3, <2>1, <3>1 DEF At
    <3>2. CASE ~(j < k)
      BY <1>4, <2>1, <3>2 DEF At
    <3> QED BY <3>1, <3>2
  <2>2. ASSUME NEW i \in 1..n, i # k, At(r, i, x)
        PROVE  \E j \in 1..(n - 1) : At(s, j, x)
    <3>1. CASE i < k
      <4>1. i \in 1..(n - 1)
        BY <1>1, <3>1
      <4> QED BY <1>3, <2>2, <3>1, <4>1 DEF At
    <3>2. CASE i > k
      <4>1. i - 1 \in 1..(n - 1) /\ ~(i - 1 < k) /\ (i - 1) + 1 = i
        BY <1>1, <3>2
      <4>2. s[i - 1] = r[i]
        BY <1>4, <4>1
      <4> QED BY <2>2, <4>1, <4>2 DEF At
    <3> QED BY <1>1, <2>2, <3>1, <3>2
  <2> QED BY <1>2, <2>1, <2>2 DEF Covers
<1> QED BY <1>7, <1>8 DEF s

LEMMA RunReplaced ==
    ASSUME NEW r \in GoodRuns, NEW k \in 1..Len(r), NEW e \in Run, NEW s \in Seq(Run),
           Len(s) = Len(r), s[k] = e, \A j \in 1..Len(r) : j # k => s[j] = r[j],
           e.value + e.length < ChunkSize,
           \A i \in 1..Len(r) : i < k => r[i].value + r[i].length + 1 < e.value,
           \A i \in 1..Len(r) : i > k => e.value + e.length + 1 < r[i].value
    PROVE  /\ s \in GoodRuns
           /\ \A x \in Int : Covers(s, x) <=> \/ \E i \in 1..Len(r) : i # k /\ At(r, i, x)
                                              \/ e.value <= x /\ x <= e.value + e.length
<1> DEFINE n == Len(r)
<1>1. r \in Seq(Run) /\ Apart(r) /\ n \in Nat
  BY RunTypes DEF GoodRuns
<1>2. s \in Seq(Run) /\ Len(s) = n /\ s[k] = e /\ \A j \in 1..n : j # k => s[j] = r[j]
  BY <1>1
<1>3. ASSUME NEW i \in 1..n
      PROVE  s[i].value + s[i].length < ChunkSize
  BY <1>1, <1>2 DEF Apart
<1>4. ASSUME NEW i \in 1..n, NEW j \in 1..n, i < j
      PROVE  s[i].value + s[i].length + 1 < s[j].value
  <2>1. CASE i # k /\ j # k
    BY <1>1, <1>2, <1>4, <2>1 DEF Apart
  <2>2. CASE j = k
    <3>1. i < k /\ i # k
      BY <1>1, <1>4, <2>2
    <3> QED BY <1>2, <2>2, <3>1
  <2>3. CASE i = k
    <3>1. j > k /\ j # k
      BY <1>1, <1>4, <2>3
    <3> QED BY <1>2, <2>3, <3>1
  <2> QED BY <2>1, <2>2, <2>3
<1>5. s \in GoodRuns
  BY <1>2, <1>3, <1>4 DEF GoodRuns, Apart
<1>6. ASSUME NEW x \in Int
      PROVE  Covers(s, x) <=> \/ \E i \in 1..n : i # k /\ At(r, i, x)
                              \/ e.value <= x /\ x <= e.value + e.length
  <2>1. \A i \in 1..n : i # k => (At(s, i, x) <=> At(r, i, x))
    BY <1>2 DEF At
  <2>2. At(s, k, x) <=> e.value <= x /\ x <= e.value + e.length
    BY <1>2 DEF At
  <2> QED BY <1>2, <2>1, <2>2 DEF Covers
<1> QED BY <1>5, <1>6

\* run_container_add adds its value and nothing else, and joins what it makes
\* adjacent.
LEMMA RunAddAdds ==
    ASSUME NEW r \in GoodRuns, NEW v \in Low
    PROVE  /\ RunAdd(r, v) \in GoodRuns
           /\ \A x \in Int : Covers(RunAdd(r, v), x) <=> Covers(r, x) \/ x = v
<1> DEFINE p == Preceding(r, v)
           n == Len(r)
           before == p > 0 /\ r[p].value + r[p].length + 1 = v
           after == p < n /\ r[p + 1].value = v + 1
<1>1. r \in Seq(Run) /\ Apart(r) /\ n \in Nat
  BY RunTypes DEF GoodRuns
<1>2. /\ v \in Nat /\ v < ChunkSize
      /\ \A i \in 1..n : r[i].value \in Nat /\ r[i].length \in Nat /\ r[i] \in Run
  BY <1>1, RunTypes DEF Low
<1>3. /\ p \in 0..n
      /\ \A i \in 1..n : r[i].value <= v <=> i <= p
  BY PrecedingSplits
<1>4. \A i \in 1..n : r[i].value + r[i].length < ChunkSize
  BY <1>1 DEF Apart
<1>5. \A i, j \in 1..n : i < j => r[i].value + r[i].length + 1 < r[j].value
  BY <1>1 DEF Apart
<1>6. p > 0 => p \in 1..n /\ r[p].value <= v
  BY <1>1, <1>3
<1>7. p < n => p + 1 \in 1..n /\ v < r[p + 1].value
  <2> SUFFICES ASSUME p < n PROVE p + 1 \in 1..n /\ v < r[p + 1].value
    OBVIOUS
  <2>1. p + 1 \in 1..n
    BY <1>1, <1>3
  <2>2. ~(r[p + 1].value <= v)
    BY <1>1, <1>3, <2>1
  <2> QED BY <1>2, <2>1, <2>2
<1>8. \A i \in 1..n : i < p => r[i].value + r[i].length + 1 < v
  <2> SUFFICES ASSUME NEW i \in 1..n, i < p PROVE r[i].value + r[i].length + 1 < v
    OBVIOUS
  <2>1. p \in 1..n /\ r[p].value <= v
    BY <1>1, <1>3, <1>6
  <2>2. r[i].value + r[i].length + 1 < r[p].value
    BY <1>5, <2>1
  <2> QED BY <1>2, <2>1, <2>2
<1>9. \A i \in 1..n : i > p + 1 => v + 1 < r[i].value
  <2> SUFFICES ASSUME NEW i \in 1..n, i > p + 1 PROVE v + 1 < r[i].value
    OBVIOUS
  <2>1. p < n
    BY <1>1, <1>3
  <2>2. r[p + 1].value + r[p + 1].length + 1 < r[i].value /\ v < r[p + 1].value
    BY <1>5, <1>7, <2>1
  <2> QED BY <1>2, <1>7, <2>1, <2>2
<1>10. RunAdd(r, v) =
         IF p > 0 /\ v \in RunValues(r[p]) THEN r
         ELSE IF before /\ after
         THEN RemoveAt([r EXCEPT ![p].length = r[p + 1].value + r[p + 1].length - r[p].value], p + 1)
         ELSE IF before THEN [r EXCEPT ![p].length = @ + 1]
         ELSE IF after THEN [r EXCEPT ![p + 1] = [value |-> v, length |-> @.length + 1]]
         ELSE InsertAt(r, p + 1, [value |-> v, length |-> 0])
  BY DEF RunAdd
<1>11. \A i \in 1..n : v \in RunValues(r[i]) <=> At(r, i, v)
  BY <1>2 DEF RunValues, At
<1> HIDE DEF p, n, before, after
<1>12. CASE p > 0 /\ v \in RunValues(r[p])
  <2>1. Covers(r, v)
    BY <1>6, <1>11, <1>12 DEF Covers, n
  <2> QED BY <1>10, <1>12, <2>1
<1> SUFFICES ASSUME ~(p > 0 /\ v \in RunValues(r[p]))
             PROVE  /\ RunAdd(r, v) \in GoodRuns
                    /\ \A x \in Int : Covers(RunAdd(r, v), x) <=> Covers(r, x) \/ x = v
  BY <1>12
<1>13. p > 0 => r[p].value + r[p].length < v
  <2> SUFFICES ASSUME p > 0 PROVE r[p].value + r[p].length < v
    OBVIOUS
  <2>1. ~At(r, p, v)
    BY <1>6, <1>11
  <2> QED BY <1>2, <1>6, <2>1 DEF At
<1>14. CASE before /\ after
  <2> DEFINE e == [value |-> r[p].value,
                   length |-> r[p + 1].value + r[p + 1].length - r[p].value]
             t == [r EXCEPT ![p] = e]
  <2>1. /\ p \in 1..n /\ p + 1 \in 1..n /\ p > 0
        /\ r[p].value + r[p].length + 1 = v /\ r[p + 1].value = v + 1
    BY <1>6, <1>7, <1>14 DEF before, after
  <2>2. RunAdd(r, v) = RemoveAt(t, p + 1)
    <3>1. [r EXCEPT ![p].length = r[p + 1].value + r[p + 1].length - r[p].value] = t
      <4>1. [r[p] EXCEPT !.length = r[p + 1].value + r[p + 1].length - r[p].value] = e
        BY <1>2, <2>1 DEF Run
      <4> QED BY <4>1
    <3> QED BY <1>10, <1>14, <3>1
  <2>3. e.value = r[p].value /\ e.value + e.length = r[p + 1].value + r[p + 1].length /\ e \in Run
    <3>1. e.length \in Nat
      BY <1>2, <2>1
    <3> QED BY <1>2, <2>1, <3>1 DEF Run
  <2>4. t \in Seq(Run) /\ Len(t) = n /\ t[p] = e /\ \A j \in 1..n : j # p => t[j] = r[j]
    BY <1>1, <2>1, <2>3, ExceptSeq DEF n
  <2> HIDE DEF e, t
  <2>5. ASSUME NEW i \in 1..n, i # p + 1
        PROVE  t[i].value + t[i].length < ChunkSize
    BY <1>4, <2>1, <2>3, <2>4, <2>5
  <2>6. ASSUME NEW i \in 1..n, NEW j \in 1..n, i < j, i # p + 1, j # p + 1
        PROVE  t[i].value + t[i].length + 1 < t[j].value
    <3>1. CASE i = p
      <4>1. j # p /\ p + 1 < j
        BY <1>3, <2>6, <3>1
      <4>2. r[p + 1].value + r[p + 1].length + 1 < r[j].value
        BY <1>5, <2>1, <4>1
      <4> QED BY <2>3, <2>4, <3>1, <4>1, <4>2
    <3>2. CASE i # p
      <4>1. t[i] = r[i] /\ t[j].value = r[j].value
        BY <2>3, <2>4, <3>2
      <4> QED BY <1>5, <2>6, <4>1
    <3> QED BY <3>1, <3>2
  <2>7. /\ RemoveAt(t, p + 1) \in GoodRuns
        /\ \A x \in Int : Covers(RemoveAt(t, p + 1), x)
                          <=> \E i \in 1..n : i # p + 1 /\ At(t, i, x)
    BY <2>1, <2>4, <2>5, <2>6, RunRemoved
  <2>8. ASSUME NEW x \in Int
        PROVE  (\E i \in 1..n : i # p + 1 /\ At(t, i, x)) <=> Covers(r, x) \/ x = v
    <3>1. At(t, p, x) <=> At(r, p, x) \/ x = v \/ At(r, p + 1, x)
      <4> DEFINE a == r[p].value
                 b == r[p].length
                 c == r[p + 1].value
                 d == r[p + 1].length
      <4>1. a \in Nat /\ b \in Nat /\ c \in Nat /\ d \in Nat /\ a + b + 1 = v /\ c = v + 1
        BY <1>2, <2>1
      <4>2. At(t, p, x) <=> a <= x /\ x <= c + d
        BY <2>3, <2>4 DEF At
      <4>3. /\ At(r, p, x) <=> a <= x /\ x <= a + b
            /\ At(r, p + 1, x) <=> c <= x /\ x <= c + d
        BY DEF At
      <4> HIDE DEF a, b, c, d
      <4> QED BY <1>2, <4>1, <4>2, <4>3
    <3>2. \A i \in 1..n : i # p => (At(t, i, x) <=> At(r, i, x))
      BY <2>4 DEF At
    <3>3. p # p + 1
      BY <1>3
    <3> QED BY <2>1, <3>1, <3>2, <3>3 DEF Covers, n
  <2> QED BY <2>2, <2>7, <2>8
<1>15. CASE before /\ ~after
  <2> DEFINE e == [value |-> r[p].value, length |-> r[p].length + 1]
             t == [r EXCEPT ![p] = e]
  <2>1. p \in 1..n /\ p > 0 /\ r[p].value + r[p].length + 1 = v
    BY <1>6, <1>15 DEF before
  <2>2. RunAdd(r, v) = t
    <3>1. [r EXCEPT ![p].length = @ + 1] = t
      <4>1. [r[p] EXCEPT !.length = @ + 1] = e
        BY <1>2, <2>1 DEF Run
      <4> QED BY <4>1
    <3> QED BY <1>10, <1>15, <3>1
  <2>3. e.value = r[p].value /\ e.value + e.length = v /\ e \in Run
    <3>1. r[p].value \in Low
      BY <1>2, <2>1 DEF Run
    <3> QED BY <1>2, <2>1, <3>1 DEF Run
  <2> HIDE DEF e
  <2>4. \A i \in 1..n : i < p => r[i].value + r[i].length + 1 < e.value
    BY <1>5, <2>1, <2>3
  <2>5. \A i \in 1..n : i > p => e.value + e.length + 1 < r[i].value
    <3> SUFFICES ASSUME NEW i \in 1..n, i > p PROVE v + 1 < r[i].value
      BY <2>3
    <3>1. CASE i > p + 1
      BY <1>9, <3>1
    <3>2. CASE i = p + 1
      <4>1. p < n /\ r[p + 1].value # v + 1
        BY <1>1, <1>3, <1>15, <3>2 DEF after, n
      <4> QED BY <1>2, <1>7, <3>2, <4>1
    <3> QED BY <1>3, <3>1, <3>2
  <2>6. /\ t \in GoodRuns
        /\ \A x \in Int : Covers(t, x) <=> \/ \E i \in 1..n : i # p /\ At(r, i, x)
                                           \/ e.value <= x /\ x <= e.value + e.length
    <3>1. e.value + e.length < ChunkSize
      BY <1>2, <2>3
    <3>2. t \in Seq(Run) /\ Len(t) = n /\ t[p] = e /\ \A j \in 1..n : j # p => t[j] = r[j]
      BY <1>1, <2>1, <2>3, ExceptSeq DEF n
    <3> HIDE DEF t
    <3> QED BY <2>1, <2>3, <2>4, <2>5, <3>1, <3>2, RunReplaced DEF n
  <2>7. ASSUME NEW x \in Int
        PROVE  e.value <= x /\ x <= e.value + e.length <=> At(r, p, x) \/ x = v
    BY <1>2, <2>1, <2>3 DEF At
  <2> HIDE DEF t
  <2>8. ASSUME NEW x \in Int
        PROVE  Covers(t, x) <=> Covers(r, x) \/ x = v
    <3>1. Covers(r, x) <=> At(r, p, x) \/ \E i \in 1..n : i # p /\ At(r, i, x)
      BY <2>1 DEF Covers, n
    <3> QED BY <2>6, <2>7, <3>1
  <2> QED BY <2>2, <2>6, <2>8
<1>16. CASE ~before /\ after
  <2> DEFINE e == [value |-> v, length |-> r[p + 1].length + 1]
             t == [r EXCEPT ![p + 1] = e]
  <2>1. p + 1 \in 1..n /\ r[p + 1].value = v + 1
    BY <1>7, <1>16 DEF after
  <2>2. RunAdd(r, v) = t
    BY <1>10, <1>16
  <2>3. e.value = v /\ e.value + e.length = r[p + 1].value + r[p + 1].length /\ e \in Run
    BY <1>2, <2>1 DEF Run
  <2> HIDE DEF e
  <2>4. \A i \in 1..n : i < p + 1 => r[i].value + r[i].length + 1 < e.value
    <3> SUFFICES ASSUME NEW i \in 1..n, i < p + 1 PROVE r[i].value + r[i].length + 1 < v
      BY <2>3
    <3>1. CASE i < p
      BY <1>8, <3>1
    <3>2. CASE i = p
      <4>1. p > 0 /\ r[p].value + r[p].length + 1 # v
        BY <1>16, <3>2 DEF before
      <4> QED BY <1>2, <1>13, <3>2, <4>1
    <3> QED BY <1>3, <3>1, <3>2
  <2>5. \A i \in 1..n : i > p + 1 => e.value + e.length + 1 < r[i].value
    BY <1>5, <2>1, <2>3
  <2>6. /\ t \in GoodRuns
        /\ \A x \in Int : Covers(t, x) <=> \/ \E i \in 1..n : i # p + 1 /\ At(r, i, x)
                                           \/ e.value <= x /\ x <= e.value + e.length
    <3>1. e.value + e.length < ChunkSize
      BY <1>4, <2>1, <2>3
    <3>2. t \in Seq(Run) /\ Len(t) = n /\ t[p + 1] = e /\ \A j \in 1..n : j # p + 1 => t[j] = r[j]
      BY <1>1, <2>1, <2>3, ExceptSeq DEF n
    <3> HIDE DEF t
    <3> QED BY <2>1, <2>3, <2>4, <2>5, <3>1, <3>2, RunReplaced DEF n
  <2>7. ASSUME NEW x \in Int
        PROVE  e.value <= x /\ x <= e.value + e.length <=> At(r, p + 1, x) \/ x = v
    BY <1>2, <2>1, <2>3 DEF At
  <2> HIDE DEF t
  <2>8. ASSUME NEW x \in Int
        PROVE  Covers(t, x) <=> Covers(r, x) \/ x = v
    <3>1. Covers(r, x) <=> At(r, p + 1, x) \/ \E i \in 1..n : i # p + 1 /\ At(r, i, x)
      BY <2>1 DEF Covers, n
    <3> QED BY <2>6, <2>7, <3>1
  <2> QED BY <2>2, <2>6, <2>8
<1>17. CASE ~before /\ ~after
  <2> DEFINE e == [value |-> v, length |-> 0]
  <2>1. RunAdd(r, v) = InsertAt(r, p + 1, e)
    BY <1>10, <1>17
  <2>2. e.value = v /\ e.value + e.length = v /\ e \in Run
    BY <1>2 DEF Run
  <2> HIDE DEF e
  <2>3. \A i \in 1..n : i <= p => r[i].value + r[i].length + 1 < e.value
    <3> SUFFICES ASSUME NEW i \in 1..n, i <= p PROVE r[i].value + r[i].length + 1 < v
      BY <2>2
    <3>1. CASE i < p
      BY <1>8, <3>1
    <3>2. CASE i = p
      <4>1. p > 0 /\ r[p].value + r[p].length + 1 # v
        BY <1>17, <3>2 DEF before
      <4> QED BY <1>2, <1>13, <3>2, <4>1
    <3> QED BY <1>3, <3>1, <3>2
  <2>4. \A i \in 1..n : i > p => e.value + e.length + 1 < r[i].value
    <3> SUFFICES ASSUME NEW i \in 1..n, i > p PROVE v + 1 < r[i].value
      BY <2>2
    <3>1. CASE i > p + 1
      BY <1>9, <3>1
    <3>2. CASE i = p + 1
      <4>1. p < n /\ r[p + 1].value # v + 1
        BY <1>1, <1>3, <1>17, <3>2 DEF after, n
      <4> QED BY <1>2, <1>7, <3>2, <4>1
    <3> QED BY <1>3, <3>1, <3>2
  <2>5. /\ InsertAt(r, p + 1, e) \in GoodRuns
        /\ \A x \in Int : Covers(InsertAt(r, p + 1, e), x)
                          <=> Covers(r, x) \/ (e.value <= x /\ x <= e.value + e.length)
    BY <1>2, <1>3, <2>2, <2>3, <2>4, RunInserted DEF n
  <2>6. \A x \in Int : e.value <= x /\ x <= e.value + e.length <=> x = v
    BY <1>2, <2>2
  <2> QED BY <2>1, <2>5, <2>6
<1> QED BY <1>14, <1>15, <1>16, <1>17

\* run_container_remove removes its value and nothing else.
LEMMA RunRemoveRemoves ==
    ASSUME NEW r \in GoodRuns, NEW v \in Low
    PROVE  /\ RunRemove(r, v) \in GoodRuns
           /\ \A x \in Int : Covers(RunRemove(r, v), x) <=> Covers(r, x) /\ x # v
<1> DEFINE p == Preceding(r, v)
           n == Len(r)
           a == r[p].value
           b == r[p].length
           low == [value |-> a, length |-> v - a - 1]
           high == [value |-> v + 1, length |-> b - (v - a) - 1]
<1>1. r \in Seq(Run) /\ Apart(r) /\ n \in Nat
  BY RunTypes DEF GoodRuns
<1>2. /\ v \in Nat /\ v < ChunkSize
      /\ \A i \in 1..n : r[i].value \in Nat /\ r[i].length \in Nat /\ r[i] \in Run
  BY <1>1, RunTypes DEF Low
<1>3. p \in 0..n /\ \A i \in 1..n : r[i].value <= v <=> i <= p
  BY PrecedingSplits
<1>4. \A i \in 1..n : r[i].value + r[i].length < ChunkSize
  BY <1>1 DEF Apart
<1>5. \A i, j \in 1..n : i < j => r[i].value + r[i].length + 1 < r[j].value
  BY <1>1 DEF Apart
<1>6. RunRemove(r, v) =
         IF p = 0 \/ v - a > b THEN r
         ELSE IF b = 0 THEN RemoveAt(r, p)
         ELSE IF v - a = 0 THEN [r EXCEPT ![p] = [value |-> v + 1, length |-> b - 1]]
         ELSE IF v - a = b THEN [r EXCEPT ![p].length = @ - 1]
         ELSE InsertAt([r EXCEPT ![p].length = (v - a) - 1], p + 1, high)
  BY DEF RunRemove
<1>7. \A i \in 1..n : i # p => ~At(r, i, v)
  <2> SUFFICES ASSUME NEW i \in 1..n, i # p, r[i].value <= v, v <= r[i].value + r[i].length
               PROVE  FALSE
    BY DEF At
  <2>1. i < p /\ p \in 1..n /\ r[p].value <= v
    BY <1>1, <1>3
  <2>2. r[i].value + r[i].length + 1 < r[p].value
    BY <1>5, <2>1
  <2> QED BY <1>2, <2>1, <2>2
<1>8. \A x : Covers(r, x) <=> \E i \in 1..n : At(r, i, x)
  BY DEF Covers
<1> HIDE DEF p, n
<1>9. CASE p = 0 \/ v - a > b
  <2>1. ~Covers(r, v)
    <3>1. CASE p = 0
      BY <1>3, <1>7, <1>8, <3>1
    <3>2. CASE p # 0 /\ v - a > b
      <4>1. p \in 1..n
        BY <1>1, <1>3, <3>2
      <4>2. ~At(r, p, v)
        BY <1>2, <3>2, <4>1 DEF At
      <4> QED BY <1>7, <1>8, <4>2
    <3> QED BY <1>9, <3>1, <3>2
  <2>2. RunRemove(r, v) = r
    BY <1>6, <1>9
  <2> QED BY <2>1, <2>2
<1> SUFFICES ASSUME p # 0, ~(v - a > b)
             PROVE  /\ RunRemove(r, v) \in GoodRuns
                    /\ \A x \in Int : Covers(RunRemove(r, v), x) <=> Covers(r, x) /\ x # v
  BY <1>9
<1>10. p \in 1..n
  BY <1>1, <1>3
<1>11. a \in Nat /\ b \in Nat /\ a <= v /\ v <= a + b /\ a + b < ChunkSize
  BY <1>2, <1>3, <1>4, <1>10
<1>12. \A i \in 1..n : i < p => r[i].value + r[i].length + 1 < a
  BY <1>5, <1>10
<1>13. \A i \in 1..n : i > p => a + b + 1 < r[i].value
  BY <1>5, <1>10
<1>14. \A x : At(r, p, x) <=> a <= x /\ x <= a + b
  BY DEF At
<1>15. \A x : Covers(r, x) /\ x # v <=> \/ \E i \in 1..n : i # p /\ At(r, i, x)
                                        \/ a <= x /\ x <= a + b /\ x # v
  BY <1>7, <1>8, <1>10, <1>14
<1>16. /\ r[p] = [value |-> a, length |-> b]
       /\ \A l : [r EXCEPT ![p].length = l] = [r EXCEPT ![p] = [value |-> a, length |-> l]]
  <2>1. r[p] = [value |-> a, length |-> b]
    BY <1>2, <1>10 DEF Run
  <2> HIDE DEF a, b
  <2>2. ASSUME NEW l
        PROVE  [r EXCEPT ![p].length = l] = [r EXCEPT ![p] = [value |-> a, length |-> l]]
    <3>1. [r[p] EXCEPT !.length = l] = [value |-> a, length |-> l]
      BY <2>1
    <3> QED BY <3>1
  <2> QED BY <2>1, <2>2
<1> HIDE DEF a, b
\* The runs with e in the place of the one that holds v.
<1>17. ASSUME NEW e \in Run, a <= e.value, e.value + e.length <= a + b
       PROVE  /\ [r EXCEPT ![p] = e] \in GoodRuns
              /\ Len([r EXCEPT ![p] = e]) = n
              /\ \A j \in 1..n : [r EXCEPT ![p] = e][j] = IF j = p THEN e ELSE r[j]
              /\ \A x \in Int : Covers([r EXCEPT ![p] = e], x)
                                <=> \/ \E i \in 1..n : i # p /\ At(r, i, x)
                                    \/ e.value <= x /\ x <= e.value + e.length
  <2> DEFINE t == [r EXCEPT ![p] = e]
  <2>1. /\ t \in Seq(Run) /\ Len(t) = n
        /\ \A j \in 1..n : t[j] = IF j = p THEN e ELSE r[j]
    BY <1>1, <1>10, ExceptSeq DEF n
  <2>2. e.value \in Nat /\ e.length \in Nat
    BY DEF Run, Low
  <2>3. e.value + e.length < ChunkSize
    BY <1>11, <1>17, <2>2
  <2>4. \A i \in 1..n : i < p => r[i].value + r[i].length + 1 < e.value
    BY <1>2, <1>11, <1>12, <1>17, <2>2
  <2>5. \A i \in 1..n : i > p => e.value + e.length + 1 < r[i].value
    BY <1>2, <1>11, <1>13, <1>17, <2>2
  <2>6. t[p] = e /\ \A j \in 1..n : j # p => t[j] = r[j]
    BY <1>10, <2>1
  <2> HIDE DEF t
  <2>7. /\ t \in GoodRuns
        /\ \A x \in Int : Covers(t, x) <=> \/ \E i \in 1..n : i # p /\ At(r, i, x)
                                           \/ e.value <= x /\ x <= e.value + e.length
    BY <1>10, <2>1, <2>3, <2>4, <2>5, <2>6, RunReplaced DEF n
  <2> QED BY <2>1, <2>7 DEF t
<1>18. CASE b = 0
  <2>1. RunRemove(r, v) = RemoveAt(r, p)
    BY <1>6, <1>18
  <2>2. /\ RemoveAt(r, p) \in GoodRuns
        /\ \A x \in Int : Covers(RemoveAt(r, p), x) <=> \E i \in 1..n : i # p /\ At(r, i, x)
    BY <1>1, <1>4, <1>5, <1>10, RunRemoved DEF n
  <2>3. \A x \in Int : ~(a <= x /\ x <= a + b /\ x # v)
    BY <1>2, <1>11, <1>18
  <2> QED BY <1>15, <2>1, <2>2, <2>3
<1>19. CASE b # 0 /\ v = a
  <2> DEFINE e == [value |-> v + 1, length |-> b - 1]
  <2>1. RunRemove(r, v) = [r EXCEPT ![p] = e]
    BY <1>2, <1>6, <1>11, <1>19
  <2>2. e \in Run /\ e.value = v + 1 /\ e.value + e.length = a + b
    BY <1>2, <1>11, <1>19 DEF Run, Low
  <2> HIDE DEF e
  <2>3. a <= e.value /\ e.value + e.length <= a + b
    BY <1>2, <1>11, <2>2
  <2>4. \A x \in Int : e.value <= x /\ x <= e.value + e.length <=> a <= x /\ x <= a + b /\ x # v
    BY <1>2, <1>11, <1>19, <2>2
  <2>5. /\ [r EXCEPT ![p] = e] \in GoodRuns
        /\ \A x \in Int : Covers([r EXCEPT ![p] = e], x)
                          <=> \/ \E i \in 1..n : i # p /\ At(r, i, x)
                              \/ e.value <= x /\ x <= e.value + e.length
    BY <1>17, <2>2, <2>3
  <2> QED BY <1>15, <2>1, <2>4, <2>5
<1>20. CASE b # 0 /\ v # a /\ v = a + b
  <2> DEFINE e == [value |-> a, length |-> b - 1]
  <2>1. RunRemove(r, v) = [r EXCEPT ![p] = e]
    <3>1. RunRemove(r, v) = [r EXCEPT ![p].length = @ - 1]
      BY <1>2, <1>6, <1>11, <1>20
    <3>2. [r EXCEPT ![p].length = @ - 1] = [r EXCEPT ![p].length = b - 1]
      BY DEF b
    <3> QED BY <1>16, <3>1, <3>2
  <2>2. e \in Run /\ e.value = a /\ e.value + e.length = v - 1
    BY <1>2, <1>11, <1>20 DEF Run, Low
  <2> HIDE DEF e
  <2>3. a <= e.value /\ e.value + e.length <= a + b
    BY <1>2, <1>11, <2>2
  <2>4. \A x \in Int : e.value <= x /\ x <= e.value + e.length <=> a <= x /\ x <= a + b /\ x # v
    BY <1>2, <1>11, <1>20, <2>2
  <2>5. /\ [r EXCEPT ![p] = e] \in GoodRuns
        /\ \A x \in Int : Covers([r EXCEPT ![p] = e], x)
                          <=> \/ \E i \in 1..n : i # p /\ At(r, i, x)
                              \/ e.value <= x /\ x <= e.value + e.length
    BY <1>17, <2>2, <2>3
  <2> QED BY <1>15, <2>1, <2>4, <2>5
<1>21. CASE b # 0 /\ v # a /\ v # a + b
  <2> DEFINE t == [r EXCEPT ![p] = low]
  <2>1. RunRemove(r, v) = InsertAt(t, p + 1, high)
    <3>1. RunRemove(r, v) = InsertAt([r EXCEPT ![p].length = (v - a) - 1], p + 1, high)
      BY <1>2, <1>6, <1>11, <1>21
    <3> QED BY <1>16, <3>1
  <2>2. low \in Run /\ low.value = a /\ low.value + low.length = v - 1
    BY <1>2, <1>11, <1>21 DEF Run, Low
  <2>3. high \in Run /\ high.value = v + 1 /\ high.value + high.length = a + b
    BY <1>2, <1>11, <1>21 DEF Run, Low
  <2> HIDE DEF low, high
  <2>4. /\ t \in GoodRuns /\ Len(t) = n
        /\ \A j \in 1..n : t[j] = IF j = p THEN low ELSE r[j]
        /\ \A x \in Int : Covers(t, x) <=> \/ \E i \in 1..n : i # p /\ At(r, i, x)
                                           \/ low.value <= x /\ x <= low.value + low.length
    <3>1. a <= low.value /\ low.value + low.length <= a + b
      BY <1>2, <1>11, <2>2
    <3> QED BY <1>17, <2>2, <3>1
  <2> HIDE DEF t
  <2>5. \A i \in 1..n : i <= p => t[i].value + t[i].length + 1 < high.value
    <3> SUFFICES ASSUME NEW i \in 1..n, i <= p PROVE t[i].value + t[i].length + 1 < v + 1
      BY <2>3
    <3>1. CASE i = p
      BY <1>2, <1>11, <2>2, <2>4, <3>1
    <3>2. CASE i < p
      <4>1. t[i] = r[i] /\ r[i].value + r[i].length + 1 < a
        BY <1>12, <2>4, <3>2
      <4> QED BY <1>2, <1>11, <4>1
    <3> QED BY <1>3, <3>1, <3>2
  <2>6. \A i \in 1..n : i > p => high.value + high.length + 1 < t[i].value
    <3> SUFFICES ASSUME NEW i \in 1..n, i > p PROVE a + b + 1 < t[i].value
      BY <2>3
    <3>1. i # p /\ t[i] = r[i]
      BY <1>3, <2>4
    <3> QED BY <1>13, <3>1
  <2>7. high.value + high.length < ChunkSize
    BY <1>11, <2>3
  <2>8. /\ InsertAt(t, p + 1, high) \in GoodRuns
        /\ \A x \in Int : Covers(InsertAt(t, p + 1, high), x)
                          <=> Covers(t, x) \/ (high.value <= x /\ x <= high.value + high.length)
    BY <1>3, <2>3, <2>4, <2>5, <2>6, <2>7, RunInserted
  <2>9. \A x \in Int : \/ low.value <= x /\ x <= low.value + low.length
                       \/ high.value <= x /\ x <= high.value + high.length
                       <=> a <= x /\ x <= a + b /\ x # v
    BY <1>2, <1>11, <1>21, <2>2, <2>3
  <2> QED BY <1>15, <2>1, <2>4, <2>8, <2>9
<1> QED BY <1>18, <1>19, <1>20, <1>21

-----------------------------------------------------------------------------
\* The runs of a set.

LEMMA LowFinite ==
    ASSUME NEW S \in SUBSET Low
    PROVE  IsFiniteSet(S) /\ Cardinality(S) \in Nat
<1>1. IsFiniteSet(Low)
  BY FS_Interval DEF Low
<1> QED BY <1>1, FS_Subset, FS_CardinalityType

RankIn(T, v) == Cardinality({u \in T : u < v})

LEMMA RankLess ==
    ASSUME NEW T \in SUBSET Nat, IsFiniteSet(T), NEW u \in T, NEW v \in T, u < v
    PROVE  RankIn(T, u) \in Nat /\ RankIn(T, v) \in Nat /\ RankIn(T, u) < RankIn(T, v)
<1> DEFINE A == {w \in T : w < u}
           B == {w \in T : w < v}
<1>1. IsFiniteSet(A) /\ IsFiniteSet(B)
  BY FS_Subset
<1>2. u \notin A /\ A \cup {u} \subseteq B
  <2>1. u \in Nat /\ v \in Nat /\ \A w \in T : w \in Nat
    OBVIOUS
  <2>2. ~(u < u) /\ \A w \in T : w < u => w < v
    BY <2>1
  <2> QED BY <2>2
<1> HIDE DEF A, B
<1>3. IsFiniteSet(A \cup {u}) /\ Cardinality(A \cup {u}) = Cardinality(A) + 1
  BY <1>1, <1>2, FS_AddElement
<1>4. Cardinality(A \cup {u}) <= Cardinality(B)
  BY <1>1, <1>2, FS_Subset
<1>5. Cardinality(A) \in Nat /\ Cardinality(B) \in Nat
  BY <1>1, FS_CardinalityType
<1> QED BY <1>3, <1>4, <1>5 DEF RankIn, A, B

\* Every place in the order of a finite set is taken.
LEMMA RankTaken ==
    ASSUME NEW T \in SUBSET Nat, IsFiniteSet(T), NEW i \in 1..Cardinality(T)
    PROVE  \E v \in T : RankIn(T, v) = i - 1
<1> DEFINE N == Cardinality(T)
           f == [v \in T |-> RankIn(T, v) + 1]
<1>1. N \in Nat
  BY FS_CardinalityType
<1>2. ASSUME NEW v \in T
      PROVE  RankIn(T, v) \in Nat /\ RankIn(T, v) + 1 \in 1..N
  <2> DEFINE A == {w \in T : w < v}
  <2>1. IsFiniteSet(A) /\ A \subseteq T \ {v}
    BY FS_Subset
  <2>2. IsFiniteSet(T \ {v}) /\ Cardinality(T \ {v}) = N - 1
    BY FS_RemoveElement
  <2> HIDE DEF A
  <2>3. Cardinality(A) <= Cardinality(T \ {v}) /\ Cardinality(A) \in Nat
    BY <2>1, <2>2, FS_Subset, FS_CardinalityType
  <2> HIDE DEF N
  <2>4. Cardinality(A) + 1 \in 1..N
    BY <1>1, <2>2, <2>3
  <2> QED BY <2>3, <2>4 DEF RankIn, A
<1>3. f \in [T -> 1..N]
  BY <1>2
<1>4. \A u, v \in T : f[u] = f[v] => u = v
  <2> SUFFICES ASSUME NEW u \in T, NEW v \in T, u < v PROVE f[u] # f[v]
    OBVIOUS
  <2>1. RankIn(T, u) \in Nat /\ RankIn(T, v) \in Nat /\ RankIn(T, u) < RankIn(T, v)
    BY RankLess
  <2>2. f[u] = RankIn(T, u) + 1 /\ f[v] = RankIn(T, v) + 1
    OBVIOUS
  <2> HIDE DEF f
  <2> QED BY <2>1, <2>2
<1>5. IsFiniteSet(1..N) /\ Cardinality(1..N) = N
  <2>1. IsFiniteSet(1..N) /\ Cardinality(1..N) = IF 1 > N THEN 0 ELSE N - 1 + 1
    <3>1. 1 \in Int /\ N \in Int
      BY <1>1
    <3> HIDE DEF N
    <3> QED BY <3>1, FS_Interval
  <2> HIDE DEF N
  <2> QED BY <1>1, <2>1
<1> HIDE DEF N
<1>6. f \in Injection(T, 1..N)
  BY <1>3, <1>4 DEF Injection, IsInjective
<1>7. f \in Surjection(T, 1..N)
  BY <1>5, <1>6, FS_Injection DEF N
<1>8. PICK v \in T : f[v] = i
  <2>1. i \in 1..N
    BY DEF N
  <2> QED BY <1>7, <2>1 DEF Surjection
<1> QED BY <1>2, <1>8

LEMMA NthStartIs ==
    ASSUME NEW S \in SUBSET Low, NEW i \in 1..Cardinality(StartsOf(S))
    PROVE  NthStart(S, i) \in StartsOf(S) /\ RankIn(StartsOf(S), NthStart(S, i)) = i - 1
<1> DEFINE T == StartsOf(S)
<1>1. T \in SUBSET Nat /\ T \in SUBSET Low
  <2>1. T \subseteq S
    BY DEF StartsOf
  <2>2. Low \subseteq Nat
    BY DEF Low
  <2> HIDE DEF T
  <2> QED BY <2>1, <2>2
<1>2. \E v \in T : RankIn(T, v) = i - 1
  BY <1>1, LowFinite, RankTaken
<1>3. NthStart(S, i) = CHOOSE v \in T : RankIn(T, v) = i - 1
  BY DEF NthStart, RankIn
<1> HIDE DEF T
<1> QED BY <1>2, <1>3 DEF T

LEMMA EndOfIs ==
    ASSUME NEW S \in SUBSET Low, NEW v \in S
    PROVE  /\ EndOf(S, v) \in S /\ EndOf(S, v) >= v
           /\ v..EndOf(S, v) \subseteq S /\ EndOf(S, v) + 1 \notin S
<1> DEFINE W == {w \in S : w >= v /\ v..w \subseteq S}
<1>1. S \subseteq Nat /\ \A w \in S : w <= ChunkSize
  BY DEF Low
<1>2. v \in W
  <2>1. v \in Nat /\ v..v = {v}
    BY <1>1
  <2> QED BY <2>1
<1>3. PICK w \in W : \A u \in W : u <= w
  <2>1. W \in SUBSET Nat /\ ChunkSize \in Nat /\ \A u \in W : u <= ChunkSize
    BY <1>1
  <2> HIDE DEF W
  <2> QED BY <1>2, <2>1, Largest
<1>4. w + 1 \notin S
  <2> SUFFICES ASSUME w + 1 \in S PROVE FALSE
    OBVIOUS
  <2>1. w \in Nat /\ v \in Nat /\ w >= v /\ v..w \subseteq S
    BY <1>1, <1>3
  <2>2. v..(w + 1) \subseteq (v..w) \cup {w + 1}
    BY <2>1
  <2>3. w + 1 \in W
    BY <2>1, <2>2
  <2>4. w + 1 <= w
    BY <1>3, <2>3
  <2> QED BY <2>1, <2>4
<1>5. \E u \in S : u >= v /\ v..u \subseteq S /\ u + 1 \notin S
  BY <1>3, <1>4
<1> QED BY <1>5 DEF EndOf

\* run_container_from_array and its like: the runs of a set are in order, with a
\* gap between any two, and stand for the set.
LEMMA RunsInIs ==
    ASSUME NEW S \in SUBSET Low
    PROVE  /\ RunsIn(S) \in GoodRuns
           /\ Len(RunsIn(S)) = Cardinality(StartsOf(S))
           /\ \A x \in Int : Covers(RunsIn(S), x) <=> x \in S
<1> DEFINE T == StartsOf(S)
           N == Cardinality(T)
           r == RunsIn(S)
<1>1. /\ T \subseteq S /\ T \in SUBSET Nat /\ T \in SUBSET Low
      /\ S \subseteq Nat /\ \A x \in S : x < ChunkSize
  <2>1. T \subseteq S
    BY DEF StartsOf
  <2>2. Low \subseteq Nat /\ \A x \in Low : x < ChunkSize
    BY DEF Low
  <2> HIDE DEF T
  <2> QED BY <2>1, <2>2
<1>2. IsFiniteSet(T) /\ N \in Nat
  BY <1>1, LowFinite
<1>3. ASSUME NEW i \in 1..N
      PROVE  /\ NthStart(S, i) \in T /\ RankIn(T, NthStart(S, i)) = i - 1
             /\ EndOf(S, NthStart(S, i)) \in S
             /\ EndOf(S, NthStart(S, i)) >= NthStart(S, i)
             /\ NthStart(S, i)..EndOf(S, NthStart(S, i)) \subseteq S
             /\ EndOf(S, NthStart(S, i)) + 1 \notin S
  <2>1. NthStart(S, i) \in T /\ RankIn(T, NthStart(S, i)) = i - 1
    BY NthStartIs
  <2> QED BY <1>1, <2>1, EndOfIs
<1>4. r = [i \in 1..N |-> [value |-> NthStart(S, i),
                           length |-> EndOf(S, NthStart(S, i)) - NthStart(S, i)]]
  BY DEF RunsIn
<1> HIDE DEF T, N, r
<1>5. ASSUME NEW i \in 1..N
      PROVE  /\ r[i] \in Run /\ r[i].value = NthStart(S, i)
             /\ r[i].value + r[i].length = EndOf(S, NthStart(S, i))
  <2> DEFINE v == NthStart(S, i)
             w == EndOf(S, NthStart(S, i))
  <2>1. v \in Low /\ v \in Nat /\ w \in Nat /\ w >= v
    BY <1>1, <1>3
  <2>2. r[i] = [value |-> v, length |-> w - v]
    BY <1>4
  <2> HIDE DEF v, w
  <2>3. w - v \in Nat /\ v + (w - v) = w
    BY <2>1
  <2>4. r[i] \in Run /\ r[i].value = v /\ r[i].length = w - v
    BY <2>1, <2>2, <2>3 DEF Run
  <2> QED BY <2>3, <2>4 DEF v, w
<1>6. r \in Seq(Run) /\ Len(r) = N
  <2>1. r \in [1..N -> Run]
    BY <1>4, <1>5
  <2> QED BY <1>2, <2>1
<1>7. ASSUME NEW i \in 1..N, NEW j \in 1..N, i < j
      PROVE  r[i].value + r[i].length + 1 < r[j].value
  <2> DEFINE v == NthStart(S, i)
             w == EndOf(S, NthStart(S, i))
             u == NthStart(S, j)
  <2>1. /\ v \in T /\ u \in T /\ RankIn(T, v) = i - 1 /\ RankIn(T, u) = j - 1
        /\ v \in Nat /\ u \in Nat /\ w \in Nat /\ w >= v /\ v..w \subseteq S
    BY <1>1, <1>3
  <2>2. r[i].value + r[i].length = w /\ r[j].value = u
    BY <1>5
  <2>3. u - 1 \notin S
    BY <2>1 DEF T, StartsOf
  <2> HIDE DEF u, v, w
  <2>4. v # u
    BY <1>7, <2>1
  <2>5. ~(u < v)
    <3>1. u < v => RankIn(T, u) < RankIn(T, v)
      BY <1>1, <1>2, <2>1, RankLess
    <3>2. ~(RankIn(T, u) < RankIn(T, v))
      BY <1>2, <1>7, <2>1
    <3> QED BY <3>1, <3>2
  <2>6. u - 1 \notin v..w
    BY <2>1, <2>3
  <2>7. w + 1 < u
    BY <2>1, <2>4, <2>5, <2>6
  <2> QED BY <2>2, <2>7
<1>8. \A i \in 1..N : r[i].value + r[i].length < ChunkSize
  BY <1>1, <1>3, <1>5
<1>9. r \in GoodRuns
  BY <1>6, <1>7, <1>8 DEF GoodRuns, Apart
<1>10. ASSUME NEW x \in Int, Covers(r, x)
       PROVE  x \in S
  <2>1. PICK i \in 1..N : r[i].value <= x /\ x <= r[i].value + r[i].length
    BY <1>6, <1>10 DEF Covers, At
  <2>2. /\ NthStart(S, i) <= x /\ x <= EndOf(S, NthStart(S, i))
        /\ NthStart(S, i) \in Nat /\ EndOf(S, NthStart(S, i)) \in Nat
    BY <1>1, <1>3, <1>5, <2>1
  <2>3. x \in NthStart(S, i)..EndOf(S, NthStart(S, i))
    BY <2>2
  <2> QED BY <1>3, <2>3
<1>11. ASSUME NEW x \in S
       PROVE  Covers(r, x)
  <2> DEFINE B == {s \in S : s <= x /\ s..x \subseteq S}
  <2>1. x \in B /\ B \in SUBSET Nat
    <3>1. x \in Nat
      BY <1>1
    <3>2. x <= x /\ x..x = {x}
      BY <3>1
    <3>3. B \subseteq S
      OBVIOUS
    <3>4. x \in B
      BY <3>2
    <3> HIDE DEF B
    <3> QED BY <1>1, <3>3, <3>4
  <2>2. PICK s \in B : \A t \in B : s <= t
    <3> HIDE DEF B
    <3> QED BY <2>1, Least
  <2>3. s \in S /\ s <= x /\ s..x \subseteq S /\ s \in Nat /\ x \in Nat
    BY <1>1, <2>2
  <2>4. s - 1 \notin S
    <3> SUFFICES ASSUME s - 1 \in S PROVE FALSE
      OBVIOUS
    <3>1. (s - 1)..x \subseteq {s - 1} \cup (s..x)
      BY <2>3
    <3>2. s - 1 \in B
      BY <2>3, <3>1
    <3>3. s <= s - 1
      BY <2>2, <3>2
    <3> QED BY <2>3, <3>3
  <2>5. s \in T
    BY <2>3, <2>4 DEF T, StartsOf
  <2> HIDE DEF B
  <2> DEFINE i == RankIn(T, s) + 1
  <2>6. RankIn(T, s) \in Nat /\ i \in 1..N
    <3> DEFINE A == {w \in T : w < s}
    <3>1. IsFiniteSet(A) /\ A \subseteq T \ {s}
      <4>1. \A w \in A : w # s
        BY <1>1, <2>5
      <4> QED BY <1>2, <4>1, FS_Subset
    <3>2. IsFiniteSet(T \ {s}) /\ Cardinality(T \ {s}) = N - 1
      BY <1>2, <2>5, FS_RemoveElement DEF N
    <3> HIDE DEF A
    <3>3. Cardinality(A) <= Cardinality(T \ {s}) /\ Cardinality(A) \in Nat
      BY <3>1, <3>2, FS_Subset, FS_CardinalityType
    <3>4. RankIn(T, s) = Cardinality(A)
      BY DEF RankIn, A
    <3> QED BY <1>2, <3>2, <3>3, <3>4
  <2>7. NthStart(S, i) \in T /\ RankIn(T, NthStart(S, i)) = RankIn(T, s)
    <3>1. NthStart(S, i) \in T /\ RankIn(T, NthStart(S, i)) = i - 1
      BY <1>3, <2>6
    <3> QED BY <2>6, <3>1
  <2> HIDE DEF i
  <2>8. NthStart(S, i) = s
    <3> DEFINE v == NthStart(S, i)
    <3>1. v \in T /\ RankIn(T, v) = RankIn(T, s) /\ RankIn(T, s) \in Nat
      BY <2>6, <2>7
    <3> HIDE DEF v
    <3>2. ~(v < s) /\ ~(s < v)
      <4>1. v < s => RankIn(T, v) < RankIn(T, s)
        BY <1>1, <1>2, <2>5, <3>1, RankLess
      <4>2. s < v => RankIn(T, s) < RankIn(T, v)
        BY <1>1, <1>2, <2>5, <3>1, RankLess
      <4> QED BY <3>1, <4>1, <4>2
    <3>3. v \in Nat
      BY <1>1, <3>1
    <3>4. v = s
      BY <2>3, <3>2, <3>3
    <3> QED BY <3>4 DEF v
  <2>9. EndOf(S, s) \in Nat /\ EndOf(S, s) >= s /\ EndOf(S, s) + 1 \notin S
    BY <1>1, <2>3, EndOfIs
  <2>10. x <= EndOf(S, s)
    <3> SUFFICES ASSUME ~(x <= EndOf(S, s)) PROVE FALSE
      OBVIOUS
    <3>1. EndOf(S, s) + 1 \in s..x
      BY <2>3, <2>9
    <3> QED BY <2>3, <2>9, <3>1
  <2>11. r[i].value = s /\ r[i].value + r[i].length = EndOf(S, s)
    BY <1>5, <2>6, <2>8
  <2> QED BY <1>6, <2>3, <2>6, <2>10, <2>11 DEF Covers, At
<1>12. \A x \in Int : Covers(r, x) <=> x \in S
  BY <1>10, <1>11
<1> QED BY <1>6, <1>9, <1>12 DEF r, N, T

-----------------------------------------------------------------------------
\* Containers.  One that holds nothing exists only between two operations.

AnyContainer(c) ==
    \/ \E S \in SUBSET Low : c = ArrayOf(S)
    \/ \E S \in SUBSET Low : c = BitsetOf(S)
    \/ \E r \in GoodRuns : c = RunsOf(r)
SizesFit(c) ==
    /\ c.kind = "array" => Cardinality(c.values) <= ArrayMax
    /\ c.kind = "bitset" => Cardinality(c.values) > ArrayMax
GoodContainer(c) == AnyContainer(c) /\ SizesFit(c)

LEMMA KindValues ==
    /\ \A S : /\ ArrayOf(S).kind = "array" /\ ArrayOf(S).values = S
              /\ ValuesOf(ArrayOf(S)) = S
    /\ \A S : /\ BitsetOf(S).kind = "bitset" /\ BitsetOf(S).values = S
              /\ ValuesOf(BitsetOf(S)) = S
    /\ \A r : RunsOf(r).kind = "run" /\ RunsOf(r).runs = r
BY DEF ArrayOf, BitsetOf, RunsOf, ValuesOf

LEMMA ContainerShape ==
    ASSUME NEW c, AnyContainer(c)
    PROVE  /\ c.kind \in {"array", "bitset", "run"}
           /\ c.kind = "array" =>
                 c = ArrayOf(c.values) /\ c.values \in SUBSET Low /\ ValuesOf(c) = c.values
           /\ c.kind = "bitset" =>
                 c = BitsetOf(c.values) /\ c.values \in SUBSET Low /\ ValuesOf(c) = c.values
           /\ c.kind = "run" => c = RunsOf(c.runs) /\ c.runs \in GoodRuns
           /\ ValuesOf(c) \in SUBSET Low
<1>1. CASE \E S \in SUBSET Low : c = ArrayOf(S)
  BY <1>1, KindValues
<1>2. CASE \E S \in SUBSET Low : c = BitsetOf(S)
  BY <1>2, KindValues
<1>3. CASE \E r \in GoodRuns : c = RunsOf(r)
  BY <1>3, KindValues, RunsInLow
<1> QED BY <1>1, <1>2, <1>3 DEF AnyContainer

\* What a good container that holds something is to the library's validation.
LEMMA GoodIsValid ==
    ASSUME NEW c, GoodContainer(c), ValuesOf(c) # {}
    PROVE  ContainerValid(c) /\ ValuesOf(c) \subseteq Low
<1>1. AnyContainer(c) /\ SizesFit(c)
  BY DEF GoodContainer
<1>2. CASE c.kind = "array"
  BY <1>1, <1>2, ContainerShape DEF SizesFit, ContainerValid
<1>3. CASE c.kind = "bitset"
  BY <1>1, <1>3, ContainerShape DEF SizesFit, ContainerValid
<1>4. CASE c.kind = "run"
  <2> DEFINE r == c.runs
  <2>1. r \in GoodRuns /\ c = RunsOf(r)
    BY <1>1, <1>4, ContainerShape
  <2> HIDE DEF r
  <2>2. r \in Seq(Run) /\ Apart(r) /\ Len(r) \in Nat /\ DOMAIN r = 1..Len(r)
    BY <2>1, RunTypes DEF GoodRuns
  <2>3. r # << >>
    <3> SUFFICES ASSUME r = << >> PROVE FALSE
      OBVIOUS
    <3>1. Len(r) = 0
      OBVIOUS
    <3>2. \A x : ~Covers(r, x)
      BY <3>1 DEF Covers
    <3>3. ValuesOf(c) = {}
      BY <2>1, <2>2, <3>2, RunsValues
    <3> QED BY <3>3
  <2>4. \A i \in 1..(Len(r) - 1) : r[i + 1].value > r[i].value + r[i].length + 1
    <3> SUFFICES ASSUME NEW i \in 1..(Len(r) - 1)
                 PROVE  r[i + 1].value > r[i].value + r[i].length + 1
      OBVIOUS
    <3>1. i \in 1..Len(r) /\ i + 1 \in 1..Len(r) /\ i < i + 1
      BY <2>2
    <3>2. r[i].value + r[i].length + 1 < r[i + 1].value
      BY <2>2, <3>1 DEF Apart
    <3>3. r[i].value \in Nat /\ r[i].length \in Nat /\ r[i + 1].value \in Nat
      BY <2>2, <3>1, RunTypes
    <3> QED BY <3>2, <3>3
  <2>5. RunsValid(r)
    BY <2>2, <2>3, <2>4 DEF RunsValid, Apart
  <2>6. ContainerValid(c)
    BY <1>4, <2>5 DEF ContainerValid, r
  <2> QED BY <1>1, <2>6, ContainerShape
<1> QED BY <1>1, <1>2, <1>3, <1>4, ContainerShape

LEMMA GoodSets ==
    ASSUME NEW S \in SUBSET Low
    PROVE  /\ Cardinality(S) <= ArrayMax => GoodContainer(ArrayOf(S)) /\ ValuesOf(ArrayOf(S)) = S
           /\ Cardinality(S) > ArrayMax => GoodContainer(BitsetOf(S)) /\ ValuesOf(BitsetOf(S)) = S
BY KindValues DEF GoodContainer, AnyContainer, SizesFit

LEMMA GoodRunContainer ==
    ASSUME NEW r \in GoodRuns, NEW S \in SUBSET Low, \A x \in Int : Covers(r, x) <=> x \in S
    PROVE  GoodContainer(RunsOf(r)) /\ ValuesOf(RunsOf(r)) = S
<1>1. GoodContainer(RunsOf(r))
  BY KindValues DEF GoodContainer, AnyContainer, SizesFit
<1>2. S \subseteq Int
  BY DEF Low
<1>3. r \in Seq(Run)
  BY DEF GoodRuns
<1>4. \A x : x \in ValuesOf(RunsOf(r)) <=> x \in S
  BY <1>2, <1>3, RunsValues
<1> QED BY <1>1, <1>4

LEMMA CoversValues ==
    ASSUME NEW r \in GoodRuns
    PROVE  /\ ValuesOf(RunsOf(r)) \in SUBSET Low
           /\ \A x \in Int : Covers(r, x) <=> x \in ValuesOf(RunsOf(r))
BY RunsInLow, RunsValues DEF GoodRuns

LEMMA ContainerAddAdds ==
    ASSUME NEW c, GoodContainer(c), NEW v \in Low
    PROVE  /\ GoodContainer(ContainerAdd(c, v))
           /\ ValuesOf(ContainerAdd(c, v)) = ValuesOf(c) \cup {v}
<1>1. AnyContainer(c) /\ SizesFit(c)
  BY DEF GoodContainer
<1>2. ASSUME c.kind \in {"array", "bitset"}
      PROVE  /\ c.values \in SUBSET Low /\ ValuesOf(c) = c.values
             /\ c.values \cup {v} \in SUBSET Low
             /\ Cardinality(c.values) \in Nat
             /\ Cardinality(c.values \cup {v})
                = IF v \in c.values THEN Cardinality(c.values) ELSE Cardinality(c.values) + 1
  <2>1. c.values \in SUBSET Low /\ ValuesOf(c) = c.values
    BY <1>1, <1>2, ContainerShape
  <2>2. IsFiniteSet(c.values) /\ Cardinality(c.values) \in Nat
    BY <2>1, LowFinite
  <2> QED BY <2>1, <2>2, FS_AddElement
<1>3. CASE c.kind = "array"
  <2>1. Cardinality(c.values) <= ArrayMax
    BY <1>1, <1>3 DEF SizesFit
  <2>2. CASE v \in c.values \/ Cardinality(c.values) < ArrayMax
    <3>1. ContainerAdd(c, v) = ArrayOf(c.values \cup {v})
      BY <1>3, <2>2 DEF ContainerAdd
    <3>2. Cardinality(c.values \cup {v}) <= ArrayMax
      BY <1>2, <1>3, <2>1, <2>2
    <3> QED BY <1>2, <1>3, <3>1, <3>2, GoodSets
  <2>3. CASE ~(v \in c.values \/ Cardinality(c.values) < ArrayMax)
    <3>1. ContainerAdd(c, v) = BitsetOf(c.values \cup {v})
      BY <1>3, <2>3 DEF ContainerAdd
    <3>2. Cardinality(c.values \cup {v}) > ArrayMax
      BY <1>2, <1>3, <2>1, <2>3
    <3> QED BY <1>2, <1>3, <3>1, <3>2, GoodSets
  <2> QED BY <2>2, <2>3
<1>4. CASE c.kind = "bitset"
  <2>1. Cardinality(c.values) > ArrayMax
    BY <1>1, <1>4 DEF SizesFit
  <2>2. ContainerAdd(c, v) = BitsetOf(c.values \cup {v})
    BY <1>4 DEF ContainerAdd
  <2>3. Cardinality(c.values \cup {v}) > ArrayMax
    BY <1>2, <1>4, <2>1
  <2> QED BY <1>2, <1>4, <2>2, <2>3, GoodSets
<1>5. CASE c.kind = "run"
  <2> DEFINE r == c.runs
             S == ValuesOf(c) \cup {v}
  <2>1. c = RunsOf(r) /\ r \in GoodRuns
    BY <1>1, <1>5, ContainerShape
  <2>2. ContainerAdd(c, v) = RunsOf(RunAdd(r, v))
    BY <1>5 DEF ContainerAdd
  <2> HIDE DEF r
  <2>3. ValuesOf(c) \in SUBSET Low /\ \A x \in Int : Covers(r, x) <=> x \in ValuesOf(c)
    BY <2>1, CoversValues
  <2>4. S \in SUBSET Low
    BY <2>3
  <2>5. RunAdd(r, v) \in GoodRuns /\ \A x \in Int : Covers(RunAdd(r, v), x) <=> x \in S
    BY <2>1, <2>3, RunAddAdds
  <2> HIDE DEF S
  <2>6. GoodContainer(RunsOf(RunAdd(r, v))) /\ ValuesOf(RunsOf(RunAdd(r, v))) = S
    BY <2>4, <2>5, GoodRunContainer
  <2> QED BY <2>2, <2>6 DEF S
<1> QED BY <1>1, <1>3, <1>4, <1>5, ContainerShape

LEMMA ContainerRemoveRemoves ==
    ASSUME NEW c, GoodContainer(c), NEW v \in Low
    PROVE  /\ GoodContainer(ContainerRemove(c, v))
           /\ ValuesOf(ContainerRemove(c, v)) = ValuesOf(c) \ {v}
<1>1. AnyContainer(c) /\ SizesFit(c)
  BY DEF GoodContainer
<1>2. ASSUME c.kind \in {"array", "bitset"}
      PROVE  /\ c.values \in SUBSET Low /\ ValuesOf(c) = c.values
             /\ c.values \ {v} \in SUBSET Low
             /\ Cardinality(c.values) \in Nat
             /\ Cardinality(c.values \ {v})
                = IF v \in c.values THEN Cardinality(c.values) - 1 ELSE Cardinality(c.values)
  <2>1. c.values \in SUBSET Low /\ ValuesOf(c) = c.values
    BY <1>1, <1>2, ContainerShape
  <2>2. IsFiniteSet(c.values) /\ Cardinality(c.values) \in Nat
    BY <2>1, LowFinite
  <2>3. c.values \ {v} \in SUBSET Low
    BY <2>1
  <2>4. Cardinality(c.values \ {v})
        = IF v \in c.values THEN Cardinality(c.values) - 1 ELSE Cardinality(c.values)
    BY <2>2, FS_RemoveElement
  <2> QED BY <2>1, <2>2, <2>3, <2>4
<1>3. CASE c.kind = "array"
  <2>1. Cardinality(c.values) <= ArrayMax
    BY <1>1, <1>3 DEF SizesFit
  <2>2. ContainerRemove(c, v) = ArrayOf(c.values \ {v})
    BY <1>3 DEF ContainerRemove
  <2>3. Cardinality(c.values \ {v}) <= ArrayMax
    BY <1>2, <1>3, <2>1
  <2> QED BY <1>2, <1>3, <2>2, <2>3, GoodSets
<1>4. CASE c.kind = "bitset"
  <2>1. Cardinality(c.values) > ArrayMax
    BY <1>1, <1>4 DEF SizesFit
  <2>2. CASE v \in c.values /\ Cardinality(c.values) - 1 <= ArrayMax
    <3>1. ContainerRemove(c, v) = ArrayOf(c.values \ {v})
      BY <1>4, <2>2 DEF ContainerRemove
    <3>2. Cardinality(c.values \ {v}) <= ArrayMax
      BY <1>2, <1>4, <2>2
    <3> QED BY <1>2, <1>4, <3>1, <3>2, GoodSets
  <2>3. CASE ~(v \in c.values /\ Cardinality(c.values) - 1 <= ArrayMax)
    <3>1. ContainerRemove(c, v) = BitsetOf(c.values \ {v})
      BY <1>4, <2>3 DEF ContainerRemove
    <3>2. Cardinality(c.values \ {v}) > ArrayMax
      BY <1>2, <1>4, <2>1, <2>3
    <3> QED BY <1>2, <1>4, <3>1, <3>2, GoodSets
  <2> QED BY <2>2, <2>3
<1>5. CASE c.kind = "run"
  <2> DEFINE r == c.runs
             S == ValuesOf(c) \ {v}
  <2>1. c = RunsOf(r) /\ r \in GoodRuns
    BY <1>1, <1>5, ContainerShape
  <2>2. ContainerRemove(c, v) = RunsOf(RunRemove(r, v))
    BY <1>5 DEF ContainerRemove
  <2> HIDE DEF r
  <2>3. ValuesOf(c) \in SUBSET Low /\ \A x \in Int : Covers(r, x) <=> x \in ValuesOf(c)
    BY <2>1, CoversValues
  <2>4. S \in SUBSET Low
    BY <2>3
  <2>5. RunRemove(r, v) \in GoodRuns /\ \A x \in Int : Covers(RunRemove(r, v), x) <=> x \in S
    BY <2>1, <2>3, RunRemoveRemoves
  <2> HIDE DEF S
  <2>6. GoodContainer(RunsOf(RunRemove(r, v))) /\ ValuesOf(RunsOf(RunRemove(r, v))) = S
    BY <2>4, <2>5, GoodRunContainer
  <2> QED BY <2>2, <2>6 DEF S
<1> QED BY <1>1, <1>3, <1>4, <1>5, ContainerShape

LEMMA EfficientRunsKeeps ==
    ASSUME NEW r \in GoodRuns
    PROVE  GoodContainer(EfficientRuns(r)) /\ ValuesOf(EfficientRuns(r)) = ValuesOf(RunsOf(r))
<1> DEFINE S == ValuesOf(RunsOf(r))
           small == RunBytes(Len(r)) <= ArrayBytes(Cardinality(S)) /\ RunBytes(Len(r)) <= BitsetBytes
<1>1. EfficientRuns(r) = IF small THEN RunsOf(r)
                         ELSE IF Cardinality(S) <= ArrayMax THEN ArrayOf(S) ELSE BitsetOf(S)
  BY DEF EfficientRuns
<1>2. S \in SUBSET Low /\ Cardinality(S) \in Nat /\ \A x \in Int : Covers(r, x) <=> x \in S
  BY CoversValues, LowFinite
<1> HIDE DEF small, S
<1>3. GoodContainer(RunsOf(r)) /\ ValuesOf(RunsOf(r)) = S
  BY <1>2, GoodRunContainer
<1>4. CASE small
  BY <1>1, <1>3, <1>4
<1>5. CASE ~small /\ Cardinality(S) <= ArrayMax
  BY <1>1, <1>2, <1>3, <1>5, GoodSets
<1>6. CASE ~small /\ ~(Cardinality(S) <= ArrayMax)
  <2>1. Cardinality(S) > ArrayMax
    BY <1>2, <1>6
  <2> QED BY <1>1, <1>2, <1>3, <1>6, <2>1, GoodSets
<1> QED BY <1>4, <1>5, <1>6

LEMMA RunsInContainer ==
    ASSUME NEW S \in SUBSET Low
    PROVE  /\ GoodContainer(RunsOf(RunsIn(S))) /\ ValuesOf(RunsOf(RunsIn(S))) = S
           /\ GoodContainer(EfficientRuns(RunsIn(S))) /\ ValuesOf(EfficientRuns(RunsIn(S))) = S
BY RunsInIs, GoodRunContainer, EfficientRunsKeeps

\* convert_run_optimize changes the kind of a container, never its values.
LEMMA RunOptimizeKeeps ==
    ASSUME NEW c, GoodContainer(c)
    PROVE  GoodContainer(RunOptimize(c)) /\ ValuesOf(RunOptimize(c)) = ValuesOf(c)
<1>1. AnyContainer(c)
  BY DEF GoodContainer
<1>2. CASE c.kind = "run"
  <2>1. RunOptimize(c) = EfficientRuns(c.runs)
    BY <1>2 DEF RunOptimize
  <2>2. c = RunsOf(c.runs) /\ c.runs \in GoodRuns
    BY <1>1, <1>2, ContainerShape
  <2> QED BY <2>1, <2>2, EfficientRunsKeeps
<1>3. CASE c.kind \in {"array", "bitset"}
  <2>1. RunOptimize(c) = RunsOf(RunsIn(ValuesOf(c))) \/ RunOptimize(c) = c
    BY <1>3 DEF RunOptimize
  <2>2. ValuesOf(c) \in SUBSET Low
    BY <1>1, ContainerShape
  <2> QED BY <2>1, <2>2, RunsInContainer
<1> QED BY <1>1, <1>2, <1>3, ContainerShape

LEMMA RangeOfOnesIs ==
    ASSUME NEW lo \in Low, NEW hi \in Low, lo <= hi
    PROVE  AnyContainer(RangeOfOnes(lo, hi)) /\ ValuesOf(RangeOfOnes(lo, hi)) = lo..hi
<1>1. lo \in Nat /\ hi \in Nat /\ hi < ChunkSize /\ lo..hi \in SUBSET Low
  BY DEF Low
<1>2. CASE hi - lo + 2 <= 2
  <2>1. RangeOfOnes(lo, hi) = ArrayOf(lo..hi)
    BY <1>2 DEF RangeOfOnes
  <2> QED BY <1>1, <2>1, KindValues DEF AnyContainer
<1>3. CASE ~(hi - lo + 2 <= 2)
  <2> DEFINE e == [value |-> lo, length |-> hi - lo]
             r == <<e>>
  <2>1. RangeOfOnes(lo, hi) = RunsOf(r)
    BY <1>3 DEF RangeOfOnes
  <2>2. e \in Run /\ e.value = lo /\ e.length = hi - lo
    BY <1>1 DEF Run
  <2> HIDE DEF e
  <2>3. r \in Seq(Run) /\ Len(r) = 1 /\ r[1] = e
    BY <2>2
  <2> HIDE DEF r
  <2>4. r \in GoodRuns
    <3>1. \A i \in 1..Len(r) : r[i] = e
      BY <2>3
    <3>2. \A i, j \in 1..Len(r) : ~(i < j)
      BY <2>3
    <3>3. e.value + e.length < ChunkSize
      BY <1>1, <2>2
    <3> QED BY <2>3, <3>1, <3>2, <3>3 DEF GoodRuns, Apart
  <2>5. \A x \in Int : Covers(r, x) <=> x \in lo..hi
    <3>1. \A x : Covers(r, x) <=> e.value <= x /\ x <= e.value + e.length
      BY <2>3 DEF Covers, At
    <3> QED BY <1>1, <2>2, <3>1
  <2>6. GoodContainer(RunsOf(r)) /\ ValuesOf(RunsOf(r)) = lo..hi
    BY <1>1, <2>4, <2>5, GoodRunContainer
  <2> QED BY <2>1, <2>6 DEF GoodContainer
<1> QED BY <1>2, <1>3

\* container_and, for each pair of kinds.
LEMMA ContainerAndIs ==
    ASSUME NEW c, AnyContainer(c), NEW d, AnyContainer(d)
    PROVE  ValuesOf(ContainerAnd(c, d)) = ValuesOf(c) \cap ValuesOf(d)
<1> DEFINE S == ValuesOf(c) \cap ValuesOf(d)
<1>1. S \in SUBSET Low
  BY ContainerShape
<1>2. \A T : ValuesOf(Packed(T)) = T
  BY KindValues DEF Packed
<1>3. ASSUME NEW e, AnyContainer(e), e.kind = "run", NEW b, AnyContainer(b), b.kind = "bitset"
      PROVE  ValuesOf(RunBitsetAnd(e, b)) = ValuesOf(e) \cap ValuesOf(b)
  <2>1. b.values = ValuesOf(b) /\ b.values \in SUBSET Low
    BY <1>3, ContainerShape
  <2>2. CASE IsFull(e)
    <3>1. ValuesOf(e) = Low
      <4>1. e.runs = <<[value |-> 0, length |-> ChunkSize - 1]>>
        BY <2>2 DEF IsFull
      <4>2. DOMAIN e.runs = {1} /\ e.runs[1] = [value |-> 0, length |-> ChunkSize - 1]
        BY <4>1
      <4>3. ValuesOf(e) = RunValues(e.runs[1])
        BY <1>3, <4>2 DEF ValuesOf
      <4>4. RunValues(e.runs[1]) = 0..(0 + (ChunkSize - 1))
        BY <4>2 DEF RunValues
      <4> QED BY <4>3, <4>4 DEF Low
    <3>2. RunBitsetAnd(e, b) = b
      BY <2>2 DEF RunBitsetAnd
    <3> QED BY <2>1, <3>1, <3>2
  <2>3. CASE ~IsFull(e)
    <3>1. \/ RunBitsetAnd(e, b) = ArrayOf(ValuesOf(e) \cap b.values)
          \/ RunBitsetAnd(e, b) = Packed(ValuesOf(e) \cap b.values)
      BY <2>3 DEF RunBitsetAnd
    <3> QED BY <1>2, <2>1, <3>1, KindValues
  <2> QED BY <2>2, <2>3
<1>4. c.kind \in {"array", "bitset", "run"} /\ d.kind \in {"array", "bitset", "run"}
  BY ContainerShape
<1>5. CASE "array" \in {c.kind, d.kind}
  <2>1. ContainerAnd(c, d) = ArrayOf(S)
    BY <1>5 DEF ContainerAnd
  <2> QED BY <2>1, KindValues
<1>6. CASE c.kind = "bitset" /\ d.kind = "bitset"
  <2>1. "array" \notin {c.kind, d.kind} /\ {c.kind, d.kind} = {"bitset"}
    BY <1>6
  <2>2. {"bitset"} # {"run"} /\ {"bitset"} # {"bitset", "run"}
    OBVIOUS
  <2>3. ContainerAnd(c, d) = Packed(S)
    BY <2>1, <2>2 DEF ContainerAnd
  <2> QED BY <1>2, <2>3
<1>7. CASE c.kind = "run" /\ d.kind = "run"
  <2>1. "array" \notin {c.kind, d.kind} /\ {c.kind, d.kind} = {"run"}
    BY <1>7
  <2>2. {"run"} # {"bitset"} /\ {"run"} # {"bitset", "run"}
    OBVIOUS
  <2>3. ContainerAnd(c, d) = EfficientRuns(RunsIn(S))
    BY <2>1, <2>2 DEF ContainerAnd
  <2> HIDE DEF S
  <2>4. ValuesOf(EfficientRuns(RunsIn(S))) = S
    BY <1>1, RunsInContainer
  <2> QED BY <2>3, <2>4 DEF S
<1>8. CASE \/ c.kind = "run" /\ d.kind = "bitset"
           \/ c.kind = "bitset" /\ d.kind = "run"
  <2>1. "array" \notin {c.kind, d.kind} /\ {c.kind, d.kind} = {"bitset", "run"}
    BY <1>8
  <2>2. {"bitset", "run"} # {"bitset"} /\ {"bitset", "run"} # {"run"}
    <3>1. "run" # "bitset"
      OBVIOUS
    <3> QED BY <3>1
  <2>3. ContainerAnd(c, d) = IF c.kind = "run" THEN RunBitsetAnd(c, d) ELSE RunBitsetAnd(d, c)
    BY <2>1, <2>2 DEF ContainerAnd
  <2>4. CASE c.kind = "run" /\ d.kind = "bitset"
    BY <1>3, <2>3, <2>4
  <2>5. CASE c.kind = "bitset" /\ d.kind = "run"
    <3>1. ContainerAnd(c, d) = RunBitsetAnd(d, c)
      BY <2>3, <2>5
    <3>2. ValuesOf(RunBitsetAnd(d, c)) = ValuesOf(d) \cap ValuesOf(c)
      BY <1>3, <2>5
    <3> QED BY <3>1, <3>2
  <2> QED BY <1>8, <2>4, <2>5
<1> QED BY <1>4, <1>5, <1>6, <1>7, <1>8
-----------------------------------------------------------------------------
\* Bitmaps.  A value is one of its container's exactly when its high half is in
\* use and its low half is among the container's values.

AnyBitmap(b) ==
    /\ DOMAIN b \in SUBSET Nat
    /\ \A k \in DOMAIN b : AnyContainer(b[k])
GoodBitmap(b) ==
    /\ DOMAIN b \in SUBSET Nat
    /\ \A k \in DOMAIN b : GoodContainer(b[k]) /\ ValuesOf(b[k]) # {}
High(x) == x \div ChunkSize
Rest(x) == x % ChunkSize

LEMMA HalvesOf ==
    ASSUME NEW x \in Nat
    PROVE  /\ High(x) \in Nat /\ Rest(x) \in Low
           /\ x = High(x) * ChunkSize + Rest(x)
BY DEF High, Rest, Low

LEMMA HalvesUnique ==
    ASSUME NEW k \in Nat, NEW v \in Low
    PROVE  /\ k * ChunkSize + v \in Nat
           /\ High(k * ChunkSize + v) = k /\ Rest(k * ChunkSize + v) = v
BY DEF High, Rest, Low

\* Values are in the order of their halves.
LEMMA HalvesOrdered ==
    ASSUME NEW x \in Nat, NEW y \in Nat
    PROVE  x <= y <=> \/ High(x) < High(y)
                      \/ High(x) = High(y) /\ Rest(x) <= Rest(y)
<1>1. /\ High(x) \in Nat /\ Rest(x) \in Nat /\ Rest(x) < ChunkSize
      /\ High(y) \in Nat /\ Rest(y) \in Nat /\ Rest(y) < ChunkSize
      /\ x = High(x) * ChunkSize + Rest(x) /\ y = High(y) * ChunkSize + Rest(y)
  BY HalvesOf DEF Low
<1> DEFINE C == ChunkSize
<1>2. \A k, j \in Nat : k < j => k * C + C <= j * C
  <2> SUFFICES ASSUME NEW k \in Nat, NEW j \in Nat, k < j PROVE k * C + C <= j * C
    OBVIOUS
  <2>1. PICK d \in Nat : j = k + 1 + d
    <3>1. j - k - 1 \in Nat /\ j = k + 1 + (j - k - 1)
      OBVIOUS
    <3> QED BY <3>1
  <2>2. j * C = k * C + C + d * C /\ d * C \in Nat
    BY <2>1
  <2> QED BY <2>2
<1>3. CASE High(x) = High(y)
  BY <1>1, <1>3
<1>4. CASE High(x) < High(y)
  <2>1. High(x) * C + C <= High(y) * C
    BY <1>1, <1>2, <1>4
  <2> QED BY <1>1, <1>4, <2>1
<1>5. CASE High(y) < High(x)
  <2>1. High(y) * C + C <= High(x) * C
    BY <1>1, <1>2, <1>5
  <2> QED BY <1>1, <1>5, <2>1
<1> QED BY <1>1, <1>3, <1>4, <1>5

LEMMA InElements ==
    ASSUME NEW b, AnyBitmap(b)
    PROVE  \A x : x \in Elements(b) <=>
              x \in Nat /\ High(x) \in DOMAIN b /\ Rest(x) \in ValuesOf(b[High(x)])
<1>1. DOMAIN b \in SUBSET Nat /\ \A k \in DOMAIN b : ValuesOf(b[k]) \in SUBSET Low
  BY ContainerShape DEF AnyBitmap
<1>2. \A x : x \in Elements(b) <=>
         \E k \in DOMAIN b : \E v \in ValuesOf(b[k]) : x = k * ChunkSize + v
  BY DEF Elements
<1>3. ASSUME NEW x, x \in Elements(b)
      PROVE  x \in Nat /\ High(x) \in DOMAIN b /\ Rest(x) \in ValuesOf(b[High(x)])
  <2>1. PICK k \in DOMAIN b : \E v \in ValuesOf(b[k]) : x = k * ChunkSize + v
    BY <1>2, <1>3
  <2> PICK v \in ValuesOf(b[k]) : x = k * ChunkSize + v
    BY <2>1
  <2>2. k \in Nat /\ v \in Low
    BY <1>1
  <2> QED BY <2>2, HalvesUnique
<1>4. ASSUME NEW x \in Nat, High(x) \in DOMAIN b, Rest(x) \in ValuesOf(b[High(x)])
      PROVE  x \in Elements(b)
  BY <1>2, <1>4, HalvesOf
<1> QED BY <1>3, <1>4

LEMMA GoodIsAny ==
    ASSUME NEW b, GoodBitmap(b)
    PROVE  AnyBitmap(b)
BY DEF GoodBitmap, AnyBitmap, GoodContainer

LEMMA GoodBitmapValid ==
    ASSUME NEW b, GoodBitmap(b)
    PROVE  BitmapValid(b)
BY GoodIsValid DEF GoodBitmap, BitmapValid

LEMMA EmptyBitmapIs == GoodBitmap(EmptyBitmap) /\ Elements(EmptyBitmap) = {}
BY DEF GoodBitmap, EmptyBitmap, Elements

LEMMA SetContainerIs ==
    ASSUME NEW b, GoodBitmap(b), NEW k \in Nat, NEW c, GoodContainer(c), ValuesOf(c) # {}
    PROVE  /\ GoodBitmap(SetContainer(b, k, c))
           /\ \A x : x \in Elements(SetContainer(b, k, c)) <=>
                 x \in Nat /\ IF High(x) = k THEN Rest(x) \in ValuesOf(c) ELSE x \in Elements(b)
<1> DEFINE d == SetContainer(b, k, c)
<1>1. /\ DOMAIN d = DOMAIN b \cup {k}
      /\ d[k] = c /\ \A j \in DOMAIN b : j # k => d[j] = b[j]
  BY DEF SetContainer
<1> HIDE DEF d
<1>2. GoodBitmap(d)
  BY <1>1 DEF GoodBitmap
<1>3. \A x : x \in Elements(d) <=>
         x \in Nat /\ High(x) \in DOMAIN d /\ Rest(x) \in ValuesOf(d[High(x)])
  BY <1>2, GoodIsAny, InElements
<1>4. \A x : x \in Elements(b) <=>
         x \in Nat /\ High(x) \in DOMAIN b /\ Rest(x) \in ValuesOf(b[High(x)])
  BY GoodIsAny, InElements
<1>5. \A x : x \in Elements(d) <=>
         x \in Nat /\ IF High(x) = k THEN Rest(x) \in ValuesOf(c) ELSE x \in Elements(b)
  BY <1>1, <1>3, <1>4
<1> QED BY <1>2, <1>5 DEF d

LEMMA WithoutIs ==
    ASSUME NEW b, GoodBitmap(b), NEW k
    PROVE  /\ GoodBitmap(Without(b, k))
           /\ \A x : x \in Elements(Without(b, k)) <=> x \in Elements(b) /\ High(x) # k
<1> DEFINE d == Without(b, k)
<1>1. /\ DOMAIN d = DOMAIN b \ {k}
      /\ \A j \in DOMAIN d : d[j] = b[j]
  BY DEF Without
<1> HIDE DEF d
<1>2. GoodBitmap(d)
  BY <1>1 DEF GoodBitmap
<1>3. \A x : x \in Elements(d) <=>
         x \in Nat /\ High(x) \in DOMAIN d /\ Rest(x) \in ValuesOf(d[High(x)])
  BY <1>2, GoodIsAny, InElements
<1>4. \A x : x \in Elements(b) <=>
         x \in Nat /\ High(x) \in DOMAIN b /\ Rest(x) \in ValuesOf(b[High(x)])
  BY GoodIsAny, InElements
<1>5. \A x : x \in Elements(d) <=> x \in Elements(b) /\ High(x) # k
  BY <1>1, <1>3, <1>4
<1> QED BY <1>2, <1>5 DEF d

\* roaring_bitmap_add.
LEMMA BitmapAddAdds ==
    ASSUME NEW b, GoodBitmap(b), NEW x \in Nat
    PROVE  GoodBitmap(BitmapAdd(b, x)) /\ Elements(BitmapAdd(b, x)) = Elements(b) \cup {x}
<1> DEFINE k == High(x)
           c == IF k \in DOMAIN b THEN b[k] ELSE ArrayOf({})
           e == ContainerAdd(c, Rest(x))
<1>1. k \in Nat /\ Rest(x) \in Low /\ BitmapAdd(b, x) = SetContainer(b, k, e)
  BY HalvesOf DEF BitmapAdd, High, Rest
<1>2. GoodContainer(c)
  <2>1. Cardinality({}) <= ArrayMax
    BY FS_EmptySet
  <2>2. GoodContainer(ArrayOf({}))
    BY <2>1, GoodSets
  <2> QED BY <2>2 DEF GoodBitmap
<1>3. \A v \in Low : v \in ValuesOf(c) <=> k \in DOMAIN b /\ v \in ValuesOf(b[k])
  BY KindValues
<1>4. GoodContainer(e) /\ ValuesOf(e) = ValuesOf(c) \cup {Rest(x)}
  <2> HIDE DEF c
  <2> QED BY <1>1, <1>2, ContainerAddAdds
<1>5. \A y : y \in Elements(b) <=>
         y \in Nat /\ High(y) \in DOMAIN b /\ Rest(y) \in ValuesOf(b[High(y)])
  BY GoodIsAny, InElements
<1> HIDE DEF e, c
<1>6. /\ GoodBitmap(SetContainer(b, k, e))
      /\ \A y : y \in Elements(SetContainer(b, k, e)) <=>
            y \in Nat /\ IF High(y) = k THEN Rest(y) \in ValuesOf(e) ELSE y \in Elements(b)
  BY <1>1, <1>4, SetContainerIs
<1>7. ASSUME NEW y \in Nat
      PROVE  y \in Elements(SetContainer(b, k, e)) <=> y \in Elements(b) \cup {x}
  <2>1. y = x <=> High(y) = k /\ Rest(y) = Rest(x)
    BY HalvesOf
  <2>2. Rest(y) \in Low
    BY HalvesOf
  <2> HIDE DEF k
  <2> QED BY <1>3, <1>4, <1>5, <1>6, <2>1, <2>2
<1>8. Elements(SetContainer(b, k, e)) = Elements(b) \cup {x}
  BY <1>5, <1>6, <1>7
<1> QED BY <1>1, <1>6, <1>8

\* roaring_bitmap_remove: a container that lost its last value is dropped.
LEMMA BitmapRemoveRemoves ==
    ASSUME NEW b, GoodBitmap(b), NEW x \in Nat
    PROVE  GoodBitmap(BitmapRemove(b, x)) /\ Elements(BitmapRemove(b, x)) = Elements(b) \ {x}
<1> DEFINE k == High(x)
           e == ContainerRemove(b[k], Rest(x))
<1>1. /\ k \in Nat /\ Rest(x) \in Low
      /\ BitmapRemove(b, x) = IF k \notin DOMAIN b THEN b
                              ELSE IF ValuesOf(e) = {} THEN Without(b, k)
                              ELSE SetContainer(b, k, e)
  BY HalvesOf DEF BitmapRemove, High, Rest
<1>2. \A y : y \in Elements(b) <=>
         y \in Nat /\ High(y) \in DOMAIN b /\ Rest(y) \in ValuesOf(b[High(y)])
  BY GoodIsAny, InElements
<1>3. CASE k \notin DOMAIN b
  <2>1. x \notin Elements(b)
    BY <1>2, <1>3
  <2> QED BY <1>1, <1>3, <2>1
<1>4. CASE k \in DOMAIN b
  <2>1. GoodContainer(e) /\ ValuesOf(e) = ValuesOf(b[k]) \ {Rest(x)}
    BY <1>1, <1>4, ContainerRemoveRemoves DEF GoodBitmap
  <2> HIDE DEF e
  <2>2. \A y \in Nat : y = x <=> High(y) = k /\ Rest(y) = Rest(x)
    BY HalvesOf
  <2> HIDE DEF k
  <2>3. CASE ValuesOf(e) = {}
    <3>1. /\ GoodBitmap(Without(b, k))
          /\ \A y : y \in Elements(Without(b, k)) <=> y \in Elements(b) /\ High(y) # k
      BY WithoutIs
    <3>2. \A y \in Elements(b) : High(y) # k <=> y # x
      BY <1>2, <2>1, <2>2, <2>3
    <3>3. Elements(Without(b, k)) = Elements(b) \ {x}
      BY <3>1, <3>2
    <3> QED BY <1>1, <1>4, <2>3, <3>1, <3>3
  <2>4. CASE ValuesOf(e) # {}
    <3>1. /\ GoodBitmap(SetContainer(b, k, e))
          /\ \A y : y \in Elements(SetContainer(b, k, e)) <=>
                y \in Nat /\ IF High(y) = k THEN Rest(y) \in ValuesOf(e) ELSE y \in Elements(b)
      BY <1>1, <2>1, <2>4, SetContainerIs
    <3>2. \A y : y \in Elements(SetContainer(b, k, e)) <=> y \in Elements(b) /\ y # x
      BY <1>2, <1>4, <2>1, <2>2, <3>1
    <3>3. Elements(SetContainer(b, k, e)) = Elements(b) \ {x}
      BY <3>2
    <3> QED BY <1>1, <1>4, <2>4, <3>1, <3>3
  <2> QED BY <2>3, <2>4
<1> QED BY <1>3, <1>4

\* roaring_bitmap_run_optimize.
LEMMA BitmapRunOptimizeKeeps ==
    ASSUME NEW b, GoodBitmap(b)
    PROVE  /\ GoodBitmap(BitmapRunOptimize(b))
           /\ Elements(BitmapRunOptimize(b)) = Elements(b)
<1> DEFINE d == BitmapRunOptimize(b)
<1>1. DOMAIN d = DOMAIN b /\ \A k \in DOMAIN b : d[k] = RunOptimize(b[k])
  BY DEF BitmapRunOptimize
<1>2. \A k \in DOMAIN b : GoodContainer(d[k]) /\ ValuesOf(d[k]) = ValuesOf(b[k])
  BY <1>1, RunOptimizeKeeps DEF GoodBitmap
<1> HIDE DEF d
<1>3. GoodBitmap(d)
  BY <1>1, <1>2 DEF GoodBitmap
<1>4. Elements(d) = Elements(b)
  BY <1>1, <1>2, <1>3, GoodIsAny, InElements
<1> QED BY <1>3, <1>4 DEF d

\* addRange of an empty bitmap.
LEMMA RangeBitmapIs ==
    ASSUME NEW lo \in Nat, NEW hi \in Nat, lo <= hi
    PROVE  AnyBitmap(RangeBitmap(lo, hi + 1)) /\ Elements(RangeBitmap(lo, hi + 1)) = lo..hi
<1> DEFINE first == High(lo)
           last == High(hi)
           From(k) == IF k = first THEN Rest(lo) ELSE 0
           To(k) == IF k = last THEN Rest(hi) ELSE ChunkSize - 1
           r == RangeBitmap(lo, hi + 1)
<1>1. /\ first \in Nat /\ last \in Nat /\ Rest(lo) \in Low /\ Rest(hi) \in Low
      /\ (first < last \/ (first = last /\ Rest(lo) <= Rest(hi)))
  BY HalvesOf, HalvesOrdered
<1>2. r = [k \in first..last |-> RangeOfOnes(From(k), To(k))]
  <2>1. (hi + 1) - 1 = hi /\ ~(hi + 1 <= lo)
    OBVIOUS
  <2> QED BY <2>1 DEF RangeBitmap, High, Rest
<1>3. ASSUME NEW k \in first..last
      PROVE  From(k) \in Low /\ To(k) \in Low /\ From(k) <= To(k)
  BY <1>1 DEF Low
<1>4. DOMAIN r = first..last /\ \A k \in first..last : r[k] = RangeOfOnes(From(k), To(k))
  BY <1>2
<1> HIDE DEF r, From, To
<1>5. \A k \in first..last : AnyContainer(r[k]) /\ ValuesOf(r[k]) = From(k)..To(k)
  BY <1>3, <1>4, RangeOfOnesIs
<1>6. AnyBitmap(r)
  BY <1>1, <1>4, <1>5 DEF AnyBitmap
<1>7. ASSUME NEW x \in Nat
      PROVE  x \in Elements(r) <=> lo <= x /\ x <= hi
  <2>1. High(x) \in Nat /\ Rest(x) \in Nat /\ Rest(x) <= ChunkSize - 1
    BY HalvesOf DEF Low
  <2>2. x \in Elements(r) <=> High(x) \in first..last /\ Rest(x) \in From(High(x))..To(High(x))
    BY <1>4, <1>5, <1>6, InElements
  <2>3. lo <= x <=> (first < High(x) \/ (first = High(x) /\ Rest(lo) <= Rest(x)))
    BY HalvesOrdered
  <2>4. x <= hi <=> (High(x) < last \/ (High(x) = last /\ Rest(x) <= Rest(hi)))
    BY HalvesOrdered
  <2> HIDE DEF first, last
  <2>5. Rest(lo) \in Nat /\ Rest(hi) \in Nat
    BY <1>1 DEF Low
  <2> QED BY <1>1, <2>1, <2>2, <2>3, <2>4, <2>5 DEF From, To
<1>8. Elements(r) = lo..hi
  <2>1. \A x : x \in Elements(r) => x \in Nat
    BY <1>6, InElements
  <2>2. \A x : x \in lo..hi <=> x \in Nat /\ lo <= x /\ x <= hi
    OBVIOUS
  <2> QED BY <1>7, <2>1, <2>2
<1> QED BY <1>6, <1>8 DEF r

\* roaring_bitmap_and.
LEMMA BitmapAndIs ==
    ASSUME NEW b, AnyBitmap(b), NEW d, AnyBitmap(d)
    PROVE  Elements(BitmapAnd(b, d)) = Elements(b) \cap Elements(d)
<1> DEFINE both == DOMAIN b \cap DOMAIN d
           a == BitmapAnd(b, d)
<1>1. /\ DOMAIN a = {k \in both : ValuesOf(ContainerAnd(b[k], d[k])) # {}}
      /\ \A k \in DOMAIN a : a[k] = ContainerAnd(b[k], d[k])
  BY DEF BitmapAnd
<1>2. \A k \in both : ValuesOf(ContainerAnd(b[k], d[k])) = ValuesOf(b[k]) \cap ValuesOf(d[k])
  BY ContainerAndIs DEF AnyBitmap
<1> HIDE DEF a
<1>3. /\ DOMAIN a \subseteq both /\ both \subseteq Nat
      /\ \A k \in DOMAIN a : ValuesOf(a[k]) = ValuesOf(b[k]) \cap ValuesOf(d[k])
      /\ \A k \in both : \A v : v \in ValuesOf(b[k]) \cap ValuesOf(d[k]) => k \in DOMAIN a
  BY <1>1, <1>2 DEF AnyBitmap
<1>4. \A k \in both : ValuesOf(b[k]) \in SUBSET Low
  BY ContainerShape DEF AnyBitmap
<1>5. \A x : x \in Elements(a) <=> \E k \in DOMAIN a : \E v \in ValuesOf(a[k]) : x = k * ChunkSize + v
  BY DEF Elements
<1>6. ASSUME NEW x, x \in Elements(a)
      PROVE  x \in Elements(b) /\ x \in Elements(d)
  <2>1. PICK k \in DOMAIN a : \E v \in ValuesOf(a[k]) : x = k * ChunkSize + v
    BY <1>5, <1>6
  <2>2. PICK v \in ValuesOf(a[k]) : x = k * ChunkSize + v
    BY <2>1
  <2>3. k \in both /\ v \in ValuesOf(b[k]) /\ v \in ValuesOf(d[k])
    BY <1>3, <2>2
  <2> QED BY <2>2, <2>3 DEF Elements
<1>7. ASSUME NEW x, x \in Elements(b), x \in Elements(d)
      PROVE  x \in Elements(a)
  <2>1. /\ x \in Nat /\ High(x) \in both
        /\ Rest(x) \in ValuesOf(b[High(x)]) \cap ValuesOf(d[High(x)])
    BY <1>7, InElements
  <2>2. High(x) \in DOMAIN a /\ Rest(x) \in ValuesOf(a[High(x)])
    BY <1>3, <2>1
  <2> QED BY <1>5, <2>1, <2>2, HalvesOf
<1>8. Elements(a) = Elements(b) \cap Elements(d)
  BY <1>6, <1>7
<1> QED BY <1>8 DEF a

-----------------------------------------------------------------------------
\* The filter's operations.

USE SizesArePositive, IdsArePositive

FilterType == [counters : [0..(Slots - 1) -> 0..CounterMax], inserted : 0..(SizeModulus - 1)]
HitSet(k, s) == {j \in 1..ProbeCount : Probes(k)[j] = s}

LEMMA ProbeType ==
    ASSUME NEW k \in Keys, NEW j \in 1..ProbeCount
    PROVE  Probes(k)[j] \in 0..(Slots - 1)
<1> DEFINE raw == Hash[k][1] + (j - 1) * Hash[k][2]
<1>1. Hash[k][1] \in Int /\ Hash[k][2] \in Int
  BY KeysAreHashed
<1>2. j - 1 \in Int
  OBVIOUS
<1>3. raw \in Int
  BY <1>1, <1>2
<1> HIDE DEF raw
<1>4. raw % HashModulus \in 0..(HashModulus - 1)
  BY <1>3, ModRange
<1>5. raw % HashModulus \in Int
  BY <1>4
<1>6. (raw % HashModulus) % Slots \in 0..(Slots - 1)
  <2>1. Slots \in Nat \ {0}
    OBVIOUS
  <2> QED BY <1>5, <2>1, ModRange
<1> QED BY <1>6 DEF Probes, raw

LEMMA HitsType ==
    ASSUME NEW k, NEW s
    PROVE  /\ IsFiniteSet(HitSet(k, s)) /\ Cardinality(HitSet(k, s)) \in Nat
           /\ Hits(k, s) = Cardinality(HitSet(k, s))
<1>1. IsFiniteSet(1..ProbeCount) /\ HitSet(k, s) \subseteq 1..ProbeCount
  BY FS_Interval DEF HitSet
<1>2. IsFiniteSet(HitSet(k, s))
  BY <1>1, FS_Subset
<1> QED BY <1>2, FS_CardinalityType DEF Hits, HitSet

\* Add never raises a counter beyond its maximum.
LEMMA IncrementType ==
    ASSUME NEW f \in FilterType, NEW k \in Keys
    PROVE  /\ Increment(f, k).values \in [0..(Slots - 1) -> 0..CounterMax]
           /\ Increment(f, k).ok =>
                 \A s \in 0..(Slots - 1) :
                    Increment(f, k).values[s] = f.counters[s] + Hits(k, s)
<1> DEFINE J(s) == {j \in Counted(f, k) : Probes(k)[j] = s}
<1>1. f.counters \in [0..(Slots - 1) -> 0..CounterMax]
  BY DEF FilterType
<1>2. IsFiniteSet(1..ProbeCount) /\ Counted(f, k) \subseteq 1..ProbeCount
  BY FS_Interval DEF Counted
<1>3. ASSUME NEW s \in 0..(Slots - 1)
      PROVE  /\ Cardinality(J(s)) \in Nat
             /\ f.counters[s] + Cardinality(J(s)) <= CounterMax
  <2>1. IsFiniteSet(J(s))
    BY <1>2, FS_Subset
  <2>2. Cardinality(J(s)) \in Nat
    BY <2>1, FS_CardinalityType
  <2>3. CASE J(s) = {}
    <3>1. Cardinality(J(s)) = 0
      BY <2>3, FS_EmptySet
    <3> HIDE DEF J
    <3> QED BY <1>1, <3>1
  <2>4. CASE J(s) # {}
    <3>1. J(s) \in SUBSET Nat /\ \A j \in J(s) : j <= ProbeCount
      BY <1>2
    <3>2. PICK j \in J(s) : \A i \in J(s) : i <= j
      BY <2>4, <3>1, Largest
    <3> DEFINE E == {i \in 1..(j - 1) : Probes(k)[i] = Probes(k)[j]}
    <3>3. j \in 1..ProbeCount /\ ~MeetsFull(f, k, j) /\ Probes(k)[j] = s
      BY <1>2, <3>2 DEF Counted
    <3>4. IsFiniteSet(E) /\ J(s) \ {j} \subseteq E
      <4>1. IsFiniteSet(1..(j - 1))
        BY <3>3, FS_Interval
      <4>2. IsFiniteSet(E)
        BY <4>1, FS_Subset
      <4>3. ASSUME NEW i \in J(s), i # j
            PROVE  i \in E
        BY <1>2, <3>2, <3>3, <4>3
      <4> QED BY <4>2, <4>3
    <3>5. Cardinality(J(s) \ {j}) = Cardinality(J(s)) - 1
      BY <2>1, <3>2, FS_RemoveElement
    <3>6. Cardinality(J(s) \ {j}) <= Cardinality(E) /\ Cardinality(E) \in Nat
      BY <3>4, FS_Subset, FS_CardinalityType
    <3>7. f.counters[s] + Cardinality(E) < CounterMax
      <4>1. ~(f.counters[s] + Cardinality(E) >= CounterMax)
        BY <3>3 DEF MeetsFull, Earlier
      <4> QED BY <1>1, <3>6, <4>1
    <3> HIDE DEF J, E
    <3> QED BY <1>1, <2>2, <3>5, <3>6, <3>7
  <2> QED BY <2>3, <2>4
<1>4. Increment(f, k) = [values |-> [s \in 0..(Slots - 1) |-> f.counters[s] + Cardinality(J(s))],
                         ok |-> Counted(f, k) = 1..ProbeCount]
  BY DEF Increment
<1>5. Counted(f, k) = 1..ProbeCount => \A s : J(s) = HitSet(k, s)
  BY DEF HitSet
<1> HIDE DEF J
<1>6. \A s \in 0..(Slots - 1) : f.counters[s] + Cardinality(J(s)) \in 0..CounterMax
  BY <1>1, <1>3
<1>7. Increment(f, k).values \in [0..(Slots - 1) -> 0..CounterMax]
  BY <1>4, <1>6
<1>8. ASSUME Increment(f, k).ok, NEW s \in 0..(Slots - 1)
      PROVE  Increment(f, k).values[s] = f.counters[s] + Hits(k, s)
  <2>1. Counted(f, k) = 1..ProbeCount
    BY <1>8 DEF Increment
  <2> QED BY <1>4, <1>5, <2>1, HitsType
<1> QED BY <1>7, <1>8

\* Add, when it meets no full counter, raises every counter by the hits of the
\* key; when it meets one, it leaves a filter all the same.
LEMMA AddKeyType ==
    ASSUME NEW f \in FilterType, NEW k \in Keys
    PROVE  /\ AddKey(f, k).filter \in FilterType
           /\ AddKey(f, k).counted =>
                 /\ \A s \in 0..(Slots - 1) :
                       AddKey(f, k).filter.counters[s] = f.counters[s] + Hits(k, s)
                 /\ AddKey(f, k).filter.inserted = (f.inserted + 1) % SizeModulus
<1> DEFINE after == Increment(f, k)
           count == IF after.ok THEN (f.inserted + 1) % SizeModulus ELSE f.inserted
<1>1. f.inserted \in 0..(SizeModulus - 1)
  BY DEF FilterType
<1>2. SizeModulus \in Nat \ {0} /\ f.inserted + 1 \in Int
  BY <1>1
<1>3. (f.inserted + 1) % SizeModulus \in 0..(SizeModulus - 1)
  BY <1>2, ModRange
<1>4. count \in 0..(SizeModulus - 1)
  BY <1>1, <1>3
<1>5. /\ AddKey(f, k).filter = [counters |-> after.values, inserted |-> count]
      /\ AddKey(f, k).counted = after.ok
  BY DEF AddKey
<1>6. after.ok => count = (f.inserted + 1) % SizeModulus
  OBVIOUS
<1>7. /\ after.values \in [0..(Slots - 1) -> 0..CounterMax]
      /\ after.ok => \A s \in 0..(Slots - 1) : after.values[s] = f.counters[s] + Hits(k, s)
  BY IncrementType
<1> HIDE DEF after, count
<1>8. AddKey(f, k).filter \in FilterType
  BY <1>4, <1>5, <1>7 DEF FilterType
<1>9. AddKey(f, k).filter.counters = after.values /\ AddKey(f, k).filter.inserted = count
  BY <1>5
<1>10. ASSUME AddKey(f, k).counted
       PROVE  /\ \A s \in 0..(Slots - 1) :
                    AddKey(f, k).filter.counters[s] = f.counters[s] + Hits(k, s)
              /\ AddKey(f, k).filter.inserted = (f.inserted + 1) % SizeModulus
  <2>1. after.ok
    BY <1>5, <1>10, Zenon
  <2> QED BY <1>6, <1>7, <1>9, <2>1
<1> QED BY <1>8, <1>10

\* Remove lowers every counter by the hits of the key, modulo its width.
LEMMA RemoveKeyType ==
    ASSUME NEW f \in FilterType, NEW k \in Keys
    PROVE  /\ RemoveKey(f, k) \in FilterType
           /\ \A s \in 0..(Slots - 1) :
                 RemoveKey(f, k).counters[s] = (f.counters[s] - Hits(k, s)) % (CounterMax + 1)
           /\ RemoveKey(f, k).inserted = (f.inserted - 1) % SizeModulus
<1>1. f.inserted \in 0..(SizeModulus - 1) /\ f.counters \in [0..(Slots - 1) -> 0..CounterMax]
  BY DEF FilterType
<1>2. SizeModulus \in Nat \ {0} /\ f.inserted - 1 \in Int
  BY <1>1
<1>3. (f.inserted - 1) % SizeModulus \in 0..(SizeModulus - 1)
  BY <1>2, ModRange
<1>4. ASSUME NEW s \in 0..(Slots - 1)
      PROVE  (f.counters[s] - Hits(k, s)) % (CounterMax + 1) \in 0..CounterMax
  <2> DEFINE d == f.counters[s] - Hits(k, s)
             m == CounterMax + 1
  <2>1. Hits(k, s) \in Nat
    BY HitsType
  <2>2. d \in Int /\ m \in Nat \ {0} /\ m - 1 = CounterMax
    BY <1>1, <2>1
  <2> HIDE DEF d, m
  <2>3. d % m \in 0..(m - 1)
    BY <2>2, ModRange
  <2> QED BY <2>2, <2>3 DEF d, m
<1>5. /\ RemoveKey(f, k) = [counters |-> Decrement(f, k), inserted |-> (f.inserted - 1) % SizeModulus]
      /\ Decrement(f, k) = [s \in 0..(Slots - 1) |-> (f.counters[s] - Hits(k, s)) % (CounterMax + 1)]
  BY DEF RemoveKey, Decrement
<1>6. Decrement(f, k) \in [0..(Slots - 1) -> 0..CounterMax]
  BY <1>4, <1>5
<1>7. RemoveKey(f, k) \in FilterType
  BY <1>3, <1>5, <1>6 DEF FilterType
<1> QED BY <1>5, <1>7

LEMMA EmptyFilterType == EmptyFilter \in FilterType
BY DEF EmptyFilter, FilterType

-----------------------------------------------------------------------------
\* The balance of what a neighbour told of the keys K.

ToldType == [Keys -> -1..MaxCopies]

CopiesTold(t, K) == {c \in K \X (1..MaxCopies) : c[2] <= t[c[1]]}
OwedTold(t, K) == {k \in K : t[k] < 0}
CopiesHitting(t, K, s) == {p \in CopiesTold(t, K) \X (1..ProbeCount) : Probes(p[1][1])[p[2]] = s}
OwedHitting(t, K, s) == {p \in OwedTold(t, K) \X (1..ProbeCount) : Probes(p[1])[p[2]] = s}
NetProbes(t, K, s) == Cardinality(CopiesHitting(t, K, s)) - Cardinality(OwedHitting(t, K, s))
NetKeys(t, K) == Cardinality(CopiesTold(t, K)) - Cardinality(OwedTold(t, K))

LEMMA KeysFinite == IsFiniteSet(Keys)
<1>1. IsFiniteSet(Ids)
  BY FS_Interval DEF Ids, MaxId
<1> QED BY <1>1, KeysAreHashed, FS_Product DEF Keys

LEMMA BalanceFinite ==
    ASSUME NEW t, NEW K \in SUBSET Keys, NEW s
    PROVE  /\ IsFiniteSet(CopiesTold(t, K)) /\ Cardinality(CopiesTold(t, K)) \in Nat
           /\ IsFiniteSet(OwedTold(t, K)) /\ Cardinality(OwedTold(t, K)) \in Nat
           /\ IsFiniteSet(CopiesHitting(t, K, s)) /\ Cardinality(CopiesHitting(t, K, s)) \in Nat
           /\ IsFiniteSet(OwedHitting(t, K, s)) /\ Cardinality(OwedHitting(t, K, s)) \in Nat
           /\ NetProbes(t, K, s) \in Int /\ NetKeys(t, K) \in Int
<1>1. IsFiniteSet(K)
  BY KeysFinite, FS_Subset
<1>2. IsFiniteSet(1..MaxCopies) /\ IsFiniteSet(1..ProbeCount)
  BY FS_Interval, LatenciesAreNat
<1>3. IsFiniteSet(K \X (1..MaxCopies))
  BY <1>1, <1>2, FS_Product
<1>4. IsFiniteSet(CopiesTold(t, K)) /\ IsFiniteSet(OwedTold(t, K))
  BY <1>1, <1>3, FS_Subset DEF CopiesTold, OwedTold
<1>5. IsFiniteSet(CopiesTold(t, K) \X (1..ProbeCount)) /\ IsFiniteSet(OwedTold(t, K) \X (1..ProbeCount))
  BY <1>2, <1>4, FS_Product
<1>6. IsFiniteSet(CopiesHitting(t, K, s)) /\ IsFiniteSet(OwedHitting(t, K, s))
  BY <1>5, FS_Subset DEF CopiesHitting, OwedHitting
<1>7. /\ Cardinality(CopiesTold(t, K)) \in Nat /\ Cardinality(OwedTold(t, K)) \in Nat
      /\ Cardinality(CopiesHitting(t, K, s)) \in Nat
      /\ Cardinality(OwedHitting(t, K, s)) \in Nat
  BY <1>4, <1>6, FS_CardinalityType
<1> QED BY <1>4, <1>6, <1>7 DEF NetProbes, NetKeys

\* The probes of one more member are the hits of its key.
LEMMA OneMoreRow ==
    ASSUME NEW C, NEW x, NEW k, NEW s, NEW H, IsFiniteSet(C), x \notin C,
           H \subseteq C \X (1..ProbeCount), IsFiniteSet(H)
    PROVE  Cardinality(H \cup ({x} \X HitSet(k, s))) = Cardinality(H) + Hits(k, s)
<1> DEFINE R == {x} \X HitSet(k, s)
<1>1. IsFiniteSet(HitSet(k, s)) /\ Cardinality(HitSet(k, s)) = Hits(k, s) /\ Hits(k, s) \in Nat
  BY HitsType
<1>2. IsFiniteSet({x}) /\ Cardinality({x}) = 1
  BY FS_Singleton
<1>3. IsFiniteSet(R) /\ Cardinality(R) = 1 * Hits(k, s)
  BY <1>1, <1>2, FS_Product
<1>4. H \cap R = {}
  OBVIOUS
<1>5. Cardinality(H \cap R) = 0
  BY <1>4, FS_EmptySet
<1>6. Cardinality(H) \in Nat
  BY FS_CardinalityType
<1> HIDE DEF R
<1>7. Cardinality(H \cup R) = Cardinality(H) + Cardinality(R) - Cardinality(H \cap R)
  BY <1>3, FS_Union
<1> QED BY <1>1, <1>3, <1>5, <1>6, <1>7 DEF R

\* One addition more: every slot's balance grows by the hits of the key.
LEMMA OneMore ==
    ASSUME NEW t \in ToldType, NEW u \in ToldType, NEW K \in SUBSET Keys, NEW k \in K,
           t[k] < MaxCopies, u = [t EXCEPT ![k] = t[k] + 1]
    PROVE  /\ NetKeys(u, K) = NetKeys(t, K) + 1
           /\ \A s : NetProbes(u, K, s) = NetProbes(t, K, s) + Hits(k, s)
<1>1. /\ t[k] \in -1..MaxCopies /\ u[k] = t[k] + 1
      /\ \A j \in K : j # k => u[j] = t[j]
      /\ \A j \in K : t[j] \in -1..MaxCopies
  BY DEF ToldType
<1>2. \A s : /\ IsFiniteSet(CopiesTold(t, K)) /\ Cardinality(CopiesTold(t, K)) \in Nat
             /\ IsFiniteSet(OwedTold(u, K)) /\ Cardinality(OwedTold(u, K)) \in Nat
             /\ IsFiniteSet(CopiesHitting(t, K, s)) /\ Cardinality(CopiesHitting(t, K, s)) \in Nat
             /\ IsFiniteSet(OwedHitting(u, K, s)) /\ Cardinality(OwedHitting(u, K, s)) \in Nat
  BY BalanceFinite
<1>3. \A s : Hits(k, s) \in Nat
  BY HitsType
<1>4. MaxCopies \in Nat
  BY LatenciesAreNat
<1>5. CASE t[k] >= 0
  <2> DEFINE x == <<k, t[k] + 1>>
  <2>1. x \in K \X (1..MaxCopies) /\ x \notin CopiesTold(t, K)
    BY <1>1, <1>4, <1>5 DEF CopiesTold
  <2>2. CopiesTold(u, K) = CopiesTold(t, K) \cup {x}
    <3>1. ASSUME NEW c \in K \X (1..MaxCopies)
          PROVE  c[2] <= u[c[1]] <=> c[2] <= t[c[1]] \/ c = x
      <4>1. PICK j \in K, i \in 1..MaxCopies : c = <<j, i>>
        OBVIOUS
      <4>2. CASE j = k
        BY <1>1, <1>4, <1>5, <4>1, <4>2
      <4>3. CASE j # k
        BY <1>1, <4>1, <4>3
      <4> QED BY <4>2, <4>3
    <3> QED BY <2>1, <3>1 DEF CopiesTold
  <2>3. OwedTold(u, K) = OwedTold(t, K)
    <3>1. \A j \in K : u[j] < 0 <=> t[j] < 0
      BY <1>1, <1>5
    <3> QED BY <3>1 DEF OwedTold
  <2>4. Cardinality(CopiesTold(u, K)) = Cardinality(CopiesTold(t, K)) + 1
    BY <1>2, <2>1, <2>2, FS_AddElement
  <2>5. ASSUME NEW s
        PROVE  Cardinality(CopiesHitting(u, K, s)) = Cardinality(CopiesHitting(t, K, s)) + Hits(k, s)
    <3>1. CopiesHitting(u, K, s) = CopiesHitting(t, K, s) \cup ({x} \X HitSet(k, s))
      <4>1. x[1] = k
        OBVIOUS
      <4> HIDE DEF x
      <4>2. {p \in {x} \X (1..ProbeCount) : Probes(p[1][1])[p[2]] = s} = {x} \X HitSet(k, s)
        BY <4>1 DEF HitSet
      <4> QED BY <2>2, <4>2 DEF CopiesHitting
    <3>2. CopiesHitting(t, K, s) \subseteq CopiesTold(t, K) \X (1..ProbeCount)
      BY DEF CopiesHitting
    <3>3. IsFiniteSet(CopiesTold(t, K)) /\ IsFiniteSet(CopiesHitting(t, K, s)) /\ x \notin CopiesTold(t, K)
      BY <1>2, <2>1
    <3> HIDE DEF x
    <3>4. Cardinality(CopiesHitting(t, K, s) \cup ({x} \X HitSet(k, s)))
          = Cardinality(CopiesHitting(t, K, s)) + Hits(k, s)
      BY <3>2, <3>3, OneMoreRow
    <3> QED BY <3>1, <3>4
  <2>6. \A s : OwedHitting(u, K, s) = OwedHitting(t, K, s)
    BY <2>3 DEF OwedHitting
  <2>7. NetKeys(u, K) = NetKeys(t, K) + 1
    <3> DEFINE c == Cardinality(CopiesTold(t, K))
               d == Cardinality(CopiesTold(u, K))
               e == Cardinality(OwedTold(t, K))
               f == Cardinality(OwedTold(u, K))
    <3>1. c \in Nat /\ f \in Nat
      BY <1>2
    <3>2. d = c + 1 /\ f = e
      BY <2>3, <2>4
    <3>3. NetKeys(u, K) = d - f /\ NetKeys(t, K) = c - e
      BY DEF NetKeys
    <3> HIDE DEF c, d, e, f
    <3> QED BY <3>1, <3>2, <3>3
  <2>8. ASSUME NEW s
        PROVE  NetProbes(u, K, s) = NetProbes(t, K, s) + Hits(k, s)
    <3> DEFINE c == Cardinality(CopiesHitting(t, K, s))
               d == Cardinality(CopiesHitting(u, K, s))
               e == Cardinality(OwedHitting(t, K, s))
               f == Cardinality(OwedHitting(u, K, s))
    <3>1. c \in Nat /\ f \in Nat /\ Hits(k, s) \in Nat
      BY <1>2, <1>3
    <3>2. d = c + Hits(k, s) /\ f = e
      BY <2>5, <2>6
    <3>3. NetProbes(u, K, s) = d - f /\ NetProbes(t, K, s) = c - e
      BY DEF NetProbes
    <3> HIDE DEF c, d, e, f
    <3> QED BY <3>1, <3>2, <3>3
  <2> QED BY <2>7, <2>8
<1>6. CASE t[k] = -1
  <2>1. CopiesTold(u, K) = CopiesTold(t, K)
    <3>1. ASSUME NEW c \in K \X (1..MaxCopies)
          PROVE  c[2] <= u[c[1]] <=> c[2] <= t[c[1]]
      <4>1. PICK j \in K, i \in 1..MaxCopies : c = <<j, i>>
        OBVIOUS
      <4>2. CASE j = k
        BY <1>1, <1>4, <1>6, <4>1, <4>2
      <4>3. CASE j # k
        BY <1>1, <4>1, <4>3
      <4> QED BY <4>2, <4>3
    <3> QED BY <3>1 DEF CopiesTold
  <2>2. OwedTold(t, K) = OwedTold(u, K) \cup {k} /\ k \notin OwedTold(u, K)
    <3>1. \A j \in K : t[j] < 0 <=> u[j] < 0 \/ j = k
      BY <1>1, <1>6
    <3>2. ~(u[k] < 0)
      BY <1>1, <1>6
    <3> QED BY <3>1, <3>2 DEF OwedTold
  <2>3. Cardinality(OwedTold(t, K)) = Cardinality(OwedTold(u, K)) + 1
    BY <1>2, <2>2, FS_AddElement
  <2>4. ASSUME NEW s
        PROVE  Cardinality(OwedHitting(t, K, s)) = Cardinality(OwedHitting(u, K, s)) + Hits(k, s)
    <3>1. OwedHitting(t, K, s) = OwedHitting(u, K, s) \cup ({k} \X HitSet(k, s))
      <4>1. {p \in {k} \X (1..ProbeCount) : Probes(p[1])[p[2]] = s} = {k} \X HitSet(k, s)
        BY DEF HitSet
      <4> QED BY <2>2, <4>1 DEF OwedHitting
    <3>2. OwedHitting(u, K, s) \subseteq OwedTold(u, K) \X (1..ProbeCount)
      BY DEF OwedHitting
    <3>3. IsFiniteSet(OwedTold(u, K)) /\ IsFiniteSet(OwedHitting(u, K, s))
      BY <1>2
    <3>4. Cardinality(OwedHitting(u, K, s) \cup ({k} \X HitSet(k, s)))
          = Cardinality(OwedHitting(u, K, s)) + Hits(k, s)
      <4> DEFINE C == OwedTold(u, K)
                 H == OwedHitting(u, K, s)
                 x == k
      <4>1. IsFiniteSet(C) /\ IsFiniteSet(H) /\ x \notin C /\ H \subseteq C \X (1..ProbeCount)
        BY <2>2, <3>2, <3>3
      <4> HIDE DEF C, H, x
      <4>2. Cardinality(H \cup ({x} \X HitSet(k, s))) = Cardinality(H) + Hits(k, s)
        BY <4>1, OneMoreRow
      <4> QED BY <4>2 DEF H, x
    <3> QED BY <3>1, <3>4
  <2>5. \A s : CopiesHitting(u, K, s) = CopiesHitting(t, K, s)
    BY <2>1 DEF CopiesHitting
  <2>7. NetKeys(u, K) = NetKeys(t, K) + 1
    <3> DEFINE c == Cardinality(CopiesTold(t, K))
               d == Cardinality(CopiesTold(u, K))
               e == Cardinality(OwedTold(t, K))
               f == Cardinality(OwedTold(u, K))
    <3>1. c \in Nat /\ f \in Nat
      BY <1>2
    <3>2. e = f + 1 /\ d = c
      BY <2>1, <2>3
    <3>3. NetKeys(u, K) = d - f /\ NetKeys(t, K) = c - e
      BY DEF NetKeys
    <3> HIDE DEF c, d, e, f
    <3> QED BY <3>1, <3>2, <3>3
  <2>8. ASSUME NEW s
        PROVE  NetProbes(u, K, s) = NetProbes(t, K, s) + Hits(k, s)
    <3> DEFINE c == Cardinality(CopiesHitting(t, K, s))
               d == Cardinality(CopiesHitting(u, K, s))
               e == Cardinality(OwedHitting(t, K, s))
               f == Cardinality(OwedHitting(u, K, s))
    <3>1. c \in Nat /\ f \in Nat /\ Hits(k, s) \in Nat
      BY <1>2, <1>3
    <3>2. e = f + Hits(k, s) /\ d = c
      BY <2>4, <2>5
    <3>3. NetProbes(u, K, s) = d - f /\ NetProbes(t, K, s) = c - e
      BY DEF NetProbes
    <3> HIDE DEF c, d, e, f
    <3> QED BY <3>1, <3>2, <3>3
  <2> QED BY <2>7, <2>8
<1>7. t[k] >= 0 \/ t[k] = -1
  BY <1>1, <1>4
<1> QED BY <1>5, <1>6, <1>7

\* Nothing told: nothing to account for.
LEMMA NothingTold ==
    ASSUME NEW t, NEW K \in SUBSET Keys, \A k \in K : t[k] = 0
    PROVE  NetKeys(t, K) = 0 /\ \A s : NetProbes(t, K, s) = 0
<1>1. CopiesTold(t, K) = {}
  <2>1. \A j \in K, i \in 1..MaxCopies : ~(i <= t[j])
    BY LatenciesAreNat
  <2> QED BY <2>1 DEF CopiesTold
<1>2. OwedTold(t, K) = {}
  BY DEF OwedTold
<1>3. \A s : CopiesHitting(t, K, s) = {} /\ OwedHitting(t, K, s) = {}
  BY <1>1, <1>2 DEF CopiesHitting, OwedHitting
<1>4. Cardinality({}) = 0
  BY FS_EmptySet
<1>5. NetKeys(t, K) = 0
  BY <1>1, <1>2, <1>4 DEF NetKeys
<1>6. ASSUME NEW s PROVE NetProbes(t, K, s) = 0
  <2>1. NetProbes(t, K, s) = Cardinality({}) - Cardinality({})
    BY <1>3 DEF NetProbes
  <2> QED BY <1>4, <2>1
<1> QED BY <1>5, <1>6

-----------------------------------------------------------------------------
\* The inductive invariant: what an index is, and the account of a filter.  The
\* bound on the balance is what makes a counter exact again once every removal
\* has met its addition.

IsIndex(x) ==
    \/ x = NoIndex
    \/ \E B : x = [type |-> "mix", bitmaps |-> B]
    \/ \E f \in FilterType : x = [type |-> "bloom", filter |-> f]

AccountOf(f, t, K) ==
    /\ \A s \in 0..(Slots - 1) :
          /\ f.counters[s] = NetProbes(t, K, s) % (CounterMax + 1)
          /\ NetProbes(t, K, s) <= CounterMax
    /\ f.inserted = NetKeys(t, K) % SizeModulus

\* What x, the index of a neighbour that pushes the keys K, owes to what it was
\* told; full says that the filter met a full counter.
Accounted(x, t, K, full) ==
    /\ x = NoIndex => \A k \in Keys : t[k] = 0
    /\ x.type = "bloom" =>
          /\ \A k \in Keys \ K : t[k] = 0
          /\ full \/ AccountOf(x.filter, t, K)

FilterKeys(n) == Pushed[n]["bloom"]

IndexInv ==
    /\ index = [n \in Neighbors |-> index[n]]
    /\ told \in [Neighbors -> ToldType]
    /\ \A n \in Neighbors :
          /\ IsIndex(index[n])
          /\ Accounted(index[n], told[n], FilterKeys(n), n \in overflowed)

LEMMA PushedType ==
    ASSUME NEW n \in Neighbors
    PROVE  FilterKeys(n) \in SUBSET Keys
BY PushedAreKeys DEF FilterKeys

LEMMA IndexShape ==
    ASSUME NEW x, IsIndex(x)
    PROVE  /\ x.type = "bloom" <=> \E f \in FilterType : x = [type |-> "bloom", filter |-> f]
           /\ x.type = "mix" <=> \E B : x = [type |-> "mix", bitmaps |-> B]
           /\ x.type = "none" <=> x = NoIndex
           /\ x.type = "bloom" => x.filter \in FilterType
BY DEF IsIndex, NoIndex

\* An empty filter of keys never told of.
LEMMA EmptyAccount ==
    ASSUME NEW t, NEW K \in SUBSET Keys, \A k \in K : t[k] = 0
    PROVE  AccountOf(EmptyFilter, t, K)
<1>1. NetKeys(t, K) = 0 /\ \A s : NetProbes(t, K, s) = 0
  BY NothingTold
<1>2. 0 % (CounterMax + 1) = 0 /\ 0 % SizeModulus = 0
  <2>1. CounterMax + 1 \in Nat \ {0} /\ SizeModulus \in Nat \ {0}
    OBVIOUS
  <2>2. \A m \in Nat \ {0} : 0 \in 0..(m - 1)
    OBVIOUS
  <2> QED BY <2>1, <2>2, ModSmall
<1> QED BY <1>1, <1>2 DEF AccountOf, EmptyFilter

\* An addition that met no full counter is one key more on both sides.
LEMMA AddAccount ==
    ASSUME NEW f \in FilterType, NEW K \in SUBSET Keys, NEW k \in K,
           NEW t \in ToldType, NEW u \in ToldType, t[k] < MaxCopies,
           u = [t EXCEPT ![k] = t[k] + 1], AccountOf(f, t, K), AddKey(f, k).counted
    PROVE  AccountOf(AddKey(f, k).filter, u, K)
<1> DEFINE g == AddKey(f, k).filter
<1>1. /\ g \in FilterType
      /\ \A s \in 0..(Slots - 1) : g.counters[s] = f.counters[s] + Hits(k, s)
      /\ g.inserted = (f.inserted + 1) % SizeModulus
  BY AddKeyType
<1>2. /\ NetKeys(u, K) = NetKeys(t, K) + 1
      /\ \A s : NetProbes(u, K, s) = NetProbes(t, K, s) + Hits(k, s)
  BY OneMore
<1> HIDE DEF g
<1>3. ASSUME NEW s \in 0..(Slots - 1)
      PROVE  /\ g.counters[s] = NetProbes(u, K, s) % (CounterMax + 1)
             /\ NetProbes(u, K, s) <= CounterMax
  <2> DEFINE c == NetProbes(t, K, s)
             h == Hits(k, s)
             m == CounterMax + 1
             d == NetProbes(u, K, s)
  <2>1. c \in Int /\ h \in Nat /\ m \in Nat \ {0} /\ d = c + h
    <3>1. c \in Int
      BY BalanceFinite
    <3>2. h \in Nat /\ m \in Nat \ {0}
      BY HitsType
    <3>3. d = c + h
      BY <1>2
    <3> QED BY <3>1, <3>2, <3>3
  <2>2. c < m /\ f.counters[s] = c % m
    <3>1. c <= CounterMax /\ f.counters[s] = c % m
      BY DEF AccountOf
    <3> HIDE DEF c
    <3> QED BY <2>1, <3>1
  <2>3. g.counters[s] = (c % m) + h /\ (c % m) + h < m
    <3>1. g.counters[s] = (c % m) + h
      BY <1>1, <2>2
    <3>2. g.counters[s] \in 0..CounterMax
      BY <1>1 DEF FilterType
    <3> HIDE DEF c, h
    <3> QED BY <3>1, <3>2
  <2> HIDE DEF c, h, d
  <2>4. (c + h) % m = (c % m) + h
    <3> HIDE DEF m
    <3> QED BY <2>1, <2>3, ModAdd
  <2>5. c <= c % m
    <3>1. c >= 0 => c % m = c
      <4>1. c >= 0 => c \in 0..(m - 1)
        BY <2>1, <2>2
      <4> HIDE DEF m
      <4> QED BY <2>1, <4>1, ModSmall
    <3>2. c % m \in 0..(m - 1)
      <4> HIDE DEF m
      <4> QED BY <2>1, ModRange
    <3> QED BY <2>1, <3>1, <3>2
  <2>6. d <= CounterMax
    <3> DEFINE r == c % m
    <3>1. r \in Int /\ r + h < m /\ c <= r
      <4>1. r \in 0..(m - 1)
        <5> HIDE DEF m
        <5> QED BY <2>1, ModRange
      <4> QED BY <2>3, <2>5, <4>1
    <3> HIDE DEF r
    <3> QED BY <2>1, <3>1
  <2>7. g.counters[s] = d % m
    BY <2>1, <2>3, <2>4
  <2> QED BY <2>6, <2>7 DEF d
<1>4. g.inserted = NetKeys(u, K) % SizeModulus
  <2> DEFINE c == NetKeys(t, K)
  <2>1. c \in Int /\ SizeModulus \in Nat \ {0} /\ f.inserted = c % SizeModulus
    BY BalanceFinite DEF AccountOf
  <2> HIDE DEF c
  <2>2. ((c % SizeModulus) + 1) % SizeModulus = (c + 1) % SizeModulus
    <3>1. 1 \in Int
      OBVIOUS
    <3> QED BY <2>1, <3>1, ModShift, Zenon
  <2>3. NetKeys(u, K) = c + 1
    BY <1>2 DEF c
  <2> QED BY <1>1, <2>1, <2>2, <2>3
<1> QED BY <1>3, <1>4 DEF AccountOf, g

\* A removal is one key less, the keys that come too early included.
LEMMA RemoveAccount ==
    ASSUME NEW f \in FilterType, NEW K \in SUBSET Keys, NEW k \in K,
           NEW t \in ToldType, NEW u \in ToldType, t[k] >= 0,
           u = [t EXCEPT ![k] = t[k] - 1], AccountOf(f, t, K)
    PROVE  AccountOf(RemoveKey(f, k), u, K)
<1> DEFINE g == RemoveKey(f, k)
<1>1. /\ g \in FilterType
      /\ \A s \in 0..(Slots - 1) : g.counters[s] = (f.counters[s] - Hits(k, s)) % (CounterMax + 1)
      /\ g.inserted = (f.inserted - 1) % SizeModulus
  BY RemoveKeyType
<1> HIDE DEF g
<1>2. /\ NetKeys(t, K) = NetKeys(u, K) + 1
      /\ \A s : NetProbes(t, K, s) = NetProbes(u, K, s) + Hits(k, s)
  <2>1. t[k] \in -1..MaxCopies /\ u[k] = t[k] - 1 /\ MaxCopies \in Nat
    BY LatenciesAreNat DEF ToldType
  <2>2. u[k] < MaxCopies /\ u[k] + 1 = t[k]
    BY <2>1
  <2>3. t = [u EXCEPT ![k] = u[k] + 1]
    BY <2>2 DEF ToldType
  <2> DEFINE w == [u EXCEPT ![k] = u[k] + 1]
  <2>4. u[k] < MaxCopies /\ w \in ToldType /\ w = [u EXCEPT ![k] = u[k] + 1]
    BY <2>2, <2>3
  <2> HIDE DEF w
  <2>5. /\ NetKeys(w, K) = NetKeys(u, K) + 1
        /\ \A s : NetProbes(w, K, s) = NetProbes(u, K, s) + Hits(k, s)
    BY <2>4, OneMore
  <2> QED BY <2>3, <2>5 DEF w
<1>3. ASSUME NEW s \in 0..(Slots - 1)
      PROVE  /\ g.counters[s] = NetProbes(u, K, s) % (CounterMax + 1)
             /\ NetProbes(u, K, s) <= CounterMax
  <2> DEFINE c == NetProbes(t, K, s)
             h == Hits(k, s)
             m == CounterMax + 1
             d == NetProbes(u, K, s)
             e == 0 - h
  <2>1. c \in Int /\ h \in Nat /\ m \in Nat \ {0} /\ d \in Int
    <3>1. c \in Int /\ d \in Int
      BY BalanceFinite
    <3>2. h \in Nat /\ m \in Nat \ {0}
      BY HitsType
    <3> QED BY <3>1, <3>2
  <2>2. c = d + h
    BY <1>2
  <2>3. c <= CounterMax /\ f.counters[s] = c % m
    BY DEF AccountOf
  <2>4. g.counters[s] = (f.counters[s] - h) % m
    BY <1>1
  <2> HIDE DEF c, h, d, m
  <2>5. ((c % m) + e) % m = (c + e) % m
    <3>1. e \in Int
      BY <2>1
    <3> HIDE DEF e
    <3> QED BY <2>1, <3>1, ModShift
  <2>6. c + e = d /\ (c % m) + e = f.counters[s] - h
    <3>1. c % m \in Int
      BY <2>1, ModRange
    <3> QED BY <2>1, <2>2, <2>3, <3>1
  <2>7. d <= CounterMax
    BY <2>1, <2>2, <2>3
  <2> QED BY <2>4, <2>5, <2>6, <2>7 DEF d, m
<1>4. g.inserted = NetKeys(u, K) % SizeModulus
  <2> DEFINE c == NetKeys(t, K)
             d == NetKeys(u, K)
  <2>1. /\ c \in Int /\ d \in Int /\ SizeModulus \in Nat \ {0}
        /\ f.inserted = c % SizeModulus /\ c = d + 1
    <3>1. c \in Int /\ d \in Int
      BY BalanceFinite
    <3>2. f.inserted = c % SizeModulus
      BY DEF AccountOf
    <3>3. c = d + 1
      BY <1>2
    <3> QED BY <3>1, <3>2, <3>3
  <2> HIDE DEF c, d
  <2>2. ((c % SizeModulus) + (-1)) % SizeModulus = (c + (-1)) % SizeModulus
    <3>1. -1 \in Int
      OBVIOUS
    <3> QED BY <2>1, <3>1, ModShift, Zenon
  <2>3. c + (-1) = d /\ (c % SizeModulus) + (-1) = f.inserted - 1
    <3>1. c % SizeModulus \in Int
      BY <2>1, ModRange
    <3> QED BY <2>1, <3>1
  <2> QED BY <1>1, <2>2, <2>3 DEF d
<1> QED BY <1>3, <1>4 DEF AccountOf, g

-----------------------------------------------------------------------------
\* The steps.

\* A step that touches at most what is known of neighbour n.
LEMMA OnlyOne ==
    ASSUME IndexInv, NEW n \in Neighbors, NEW x, NEW t \in ToldType,
           index' = [index EXCEPT ![n] = x], told' = [told EXCEPT ![n] = t],
           \A m \in Neighbors \ {n} : m \in overflowed' <=> m \in overflowed,
           IsIndex(x), Accounted(x, t, FilterKeys(n), n \in overflowed')
    PROVE  IndexInv'
<1>1. index' = [m \in Neighbors |-> index'[m]] /\ told' \in [Neighbors -> ToldType]
  BY DEF IndexInv
<1>2. index'[n] = x /\ told'[n] = t
  BY DEF IndexInv
<1>3. ASSUME NEW m \in Neighbors
      PROVE  /\ IsIndex(index'[m])
             /\ Accounted(index'[m], told'[m], FilterKeys(m), m \in overflowed')
  <2>1. CASE m = n
    BY <1>2, <2>1
  <2>2. CASE m # n
    <3>1. index'[m] = index[m] /\ told'[m] = told[m] /\ (m \in overflowed' <=> m \in overflowed)
      BY <2>2 DEF IndexInv
    <3>2. IsIndex(index[m]) /\ Accounted(index[m], told[m], FilterKeys(m), m \in overflowed)
      BY DEF IndexInv
    <3> QED BY <3>1, <3>2 DEF Accounted
  <2> QED BY <2>1, <2>2
<1> QED BY <1>1, <1>3 DEF IndexInv, FilterKeys

LEMMA StartsEmpty == Init => IndexInv
<1> SUFFICES ASSUME Init PROVE IndexInv
  OBVIOUS
<1>1. index = [n \in Neighbors |-> index[n]] /\ \A n \in Neighbors : index[n] = NoIndex
  BY DEF Init
<1>2. told \in [Neighbors -> ToldType] /\ \A n \in Neighbors, k \in Keys : told[n][k] = 0
  BY LatenciesAreNat DEF Init, ToldType
<1>3. NoIndex.type # "bloom"
  BY DEF NoIndex
<1> QED BY <1>1, <1>2, <1>3 DEF IndexInv, IsIndex, Accounted

LEMMA AddKeeps ==
    ASSUME IndexInv, NEW n \in Neighbors, NEW s, NEW b, AddBlock(n, s, b)
    PROVE  IndexInv'
<1> DEFINE k == <<s, b>>
           current == IF index[n] = NoIndex THEN CreateIndex(EntryOf(n)) ELSE index[n]
           added == AddKey(current.filter, k)
           K == FilterKeys(n)
           t == told[n]
<1>1. /\ k \in Pushed[n][current.type]
      /\ \/ /\ current.type = "mix"
            /\ index' = [index EXCEPT ![n] = [current EXCEPT !.bitmaps[s] = BitmapAdd(@, b)]]
            /\ told' = [told EXCEPT ![n][k] = 1]
            /\ UNCHANGED overflowed
         \/ /\ current.type = "bloom" /\ told[n][k] < MaxCopies /\ n \notin overflowed
            /\ index' = [index EXCEPT ![n] = [current EXCEPT !.filter = added.filter]]
            /\ told' = [told EXCEPT ![n][k] = @ + 1]
            /\ overflowed' = IF added.counted THEN overflowed ELSE overflowed \cup {n}
  BY DEF AddBlock
<1>2. /\ IsIndex(index[n]) /\ Accounted(index[n], t, K, n \in overflowed)
      /\ t \in ToldType /\ told \in [Neighbors -> ToldType]
  BY DEF IndexInv
<1>3. K \in SUBSET Keys
  BY PushedType
<1>4. k \in Keys
  <2>1. current.type \in {"mix", "bloom"}
    BY <1>1
  <2> QED BY <1>1, <2>1, PushedAreKeys
<1>5. /\ current.type = "mix" => \E B : current = [type |-> "mix", bitmaps |-> B]
      /\ current.type = "bloom" => /\ current.filter \in FilterType
                                   /\ current = [type |-> "bloom", filter |-> current.filter]
                                   /\ \A j \in Keys \ K : t[j] = 0
                                   /\ n \in overflowed \/ AccountOf(current.filter, t, K)
  <2>1. CASE index[n] = NoIndex
    <3>1. \A j \in Keys : t[j] = 0
      BY <1>2, <2>1 DEF Accounted
    <3>2. \/ \E B : current = [type |-> "mix", bitmaps |-> B]
          \/ current = [type |-> "bloom", filter |-> EmptyFilter]
      BY <2>1 DEF CreateIndex
    <3>3. AccountOf(EmptyFilter, t, K)
      BY <1>3, <3>1, EmptyAccount
    <3> HIDE DEF current
    <3> QED BY <3>1, <3>2, <3>3, EmptyFilterType
  <2>2. CASE index[n] # NoIndex
    <3>1. current = index[n]
      BY <2>2
    <3> HIDE DEF current
    <3>2. IsIndex(current) /\ Accounted(current, t, K, n \in overflowed)
      BY <1>2, <3>1
    <3>3. current.type = "mix" => \E B : current = [type |-> "mix", bitmaps |-> B]
      BY <3>2, IndexShape
    <3>4. ASSUME current.type = "bloom"
          PROVE  /\ current.filter \in FilterType
                 /\ current = [type |-> "bloom", filter |-> current.filter]
      <4>1. PICK f \in FilterType : current = [type |-> "bloom", filter |-> f]
        BY <3>2, <3>4, IndexShape
      <4>2. current.filter = f
        BY <4>1
      <4> QED BY <4>1, <4>2
    <3>5. current.type = "bloom" => /\ \A j \in Keys \ K : t[j] = 0
                                    /\ n \in overflowed \/ AccountOf(current.filter, t, K)
      BY <3>2 DEF Accounted
    <3> HIDE DEF K, t
    <3> QED BY <3>3, <3>4, <3>5
  <2> QED BY <2>1, <2>2
<1> HIDE DEF current
<1>6. CASE current.type = "mix"
  <2> DEFINE x == [current EXCEPT !.bitmaps[s] = BitmapAdd(@, b)]
             u == [t EXCEPT ![k] = 1]
  <2>1. PICK B : current = [type |-> "mix", bitmaps |-> B]
    BY <1>5, <1>6
  <2>2. x = [type |-> "mix", bitmaps |-> [B EXCEPT ![s] = BitmapAdd(@, b)]]
    BY <2>1
  <2>3. /\ index' = [index EXCEPT ![n] = x] /\ told' = [told EXCEPT ![n] = u]
        /\ overflowed' = overflowed
    BY <1>1, <1>6
  <2> HIDE DEF x
  <2>4. x.type = "mix" /\ IsIndex(x) /\ x # NoIndex
    BY <2>2 DEF IsIndex, NoIndex
  <2>5. Accounted(x, u, K, n \in overflowed')
    BY <2>4 DEF Accounted
  <2>6. u \in ToldType
    <3>1. 1 \in -1..MaxCopies
      BY LatenciesAreNat
    <3> QED BY <1>2, <3>1 DEF ToldType
  <2> HIDE DEF u
  <2> QED BY <2>3, <2>4, <2>5, <2>6, OnlyOne
<1>7. CASE current.type = "bloom"
  <2> DEFINE x == [type |-> "bloom", filter |-> added.filter]
             u == [t EXCEPT ![k] = t[k] + 1]
             f == current.filter
  <2>1. /\ f \in FilterType /\ current = [type |-> "bloom", filter |-> f]
        /\ \A j \in Keys \ K : t[j] = 0
        /\ n \in overflowed \/ AccountOf(f, t, K)
    BY <1>5, <1>7
  <2>2. k \in K
    BY <1>1, <1>7 DEF FilterKeys
  <2>3. /\ t[k] < MaxCopies /\ n \notin overflowed
        /\ index' = [index EXCEPT ![n] = [current EXCEPT !.filter = added.filter]]
        /\ told' = [told EXCEPT ![n][k] = @ + 1]
        /\ overflowed' = IF added.counted THEN overflowed ELSE overflowed \cup {n}
    BY <1>1, <1>7
  <2>4. [current EXCEPT !.filter = added.filter] = x
    BY <2>1
  <2>5. index' = [index EXCEPT ![n] = x] /\ told' = [told EXCEPT ![n] = u]
    BY <1>2, <2>3, <2>4
  <2>6. added.filter \in FilterType
    BY <1>4, <2>1, AddKeyType
  <2>7. IsIndex(x) /\ x.type = "bloom" /\ x # NoIndex /\ x.filter = added.filter
    BY <2>6 DEF IsIndex, NoIndex
  <2>8. u \in ToldType
    <3>1. t[k] \in -1..MaxCopies /\ MaxCopies \in Nat
      BY <1>2, <1>4, LatenciesAreNat DEF ToldType
    <3>2. t[k] + 1 \in -1..MaxCopies
      BY <2>3, <3>1
    <3> QED BY <1>2, <3>2 DEF ToldType
  <2>9. \A j \in Keys \ K : u[j] = 0
    BY <1>2, <2>1, <2>2 DEF ToldType
  <2>10. ~added.counted => n \in overflowed'
    BY <2>3
  <2>11. added.counted => AccountOf(added.filter, u, K)
    <3> SUFFICES ASSUME added.counted PROVE AccountOf(added.filter, u, K)
      OBVIOUS
    <3>1. AccountOf(f, t, K) /\ added = AddKey(f, k)
      BY <2>1, <2>3
    <3>2. u = [t EXCEPT ![k] = t[k] + 1]
      OBVIOUS
    <3> HIDE DEF u, f, K, t
    <3> QED BY <1>2, <1>3, <2>1, <2>2, <2>3, <2>8, <3>1, <3>2, AddAccount
  <2>12. Accounted(x, u, K, n \in overflowed')
    <3> HIDE DEF x, u, added, K
    <3> QED BY <2>7, <2>9, <2>10, <2>11 DEF Accounted
  <2>13. \A m \in Neighbors \ {n} : m \in overflowed' <=> m \in overflowed
    BY <2>3
  <2> HIDE DEF x, u
  <2> QED BY <2>5, <2>7, <2>8, <2>12, <2>13, OnlyOne
<1> QED BY <1>1, <1>6, <1>7

LEMMA RemoveKeeps ==
    ASSUME IndexInv, NEW n \in Neighbors, NEW s, NEW b, RemoveBlock(n, s, b)
    PROVE  IndexInv'
<1> DEFINE k == <<s, b>>
           K == FilterKeys(n)
           t == told[n]
<1>1. /\ k \in Pushed[n][index[n].type] /\ overflowed' = overflowed
      /\ \/ /\ index[n].type = "mix"
            /\ index' = [index EXCEPT ![n].bitmaps[s] = BitmapRemove(@, b)]
            /\ told' = [told EXCEPT ![n][k] = 0]
         \/ /\ index[n].type = "bloom" /\ t[k] >= 0 /\ n \notin overflowed
            /\ index' = [index EXCEPT ![n].filter = RemoveKey(@, k)]
            /\ told' = [told EXCEPT ![n][k] = @ - 1]
  BY DEF RemoveBlock
<1>2. /\ IsIndex(index[n]) /\ Accounted(index[n], t, K, n \in overflowed)
      /\ t \in ToldType /\ told \in [Neighbors -> ToldType]
      /\ index = [m \in Neighbors |-> index[m]]
  BY DEF IndexInv
<1>3. K \in SUBSET Keys
  BY PushedType
<1>4. k \in Keys
  <2>1. index[n].type \in {"mix", "bloom"}
    BY <1>1
  <2> QED BY <1>1, <2>1, PushedAreKeys
<1>5. CASE index[n].type = "mix"
  <2> DEFINE u == [t EXCEPT ![k] = 0]
  <2>1. PICK B : index[n] = [type |-> "mix", bitmaps |-> B]
    BY <1>2, <1>5, IndexShape
  <2> DEFINE x == [type |-> "mix", bitmaps |-> [B EXCEPT ![s] = BitmapRemove(@, b)]]
  <2>2. index' = [index EXCEPT ![n].bitmaps[s] = BitmapRemove(@, b)]
    BY <1>1, <1>5
  <2>3. index' = [index EXCEPT ![n] = x]
    <3> DEFINE y == [index[n] EXCEPT !.bitmaps[s] = BitmapRemove(@, b)]
    <3>1. y = x
      BY <2>1
    <3>2. index' = [index EXCEPT ![n] = y]
      BY <2>2
    <3> QED BY <3>1, <3>2
  <2>4. told' = [told EXCEPT ![n] = u]
    BY <1>1, <1>5
  <2>5. x.type = "mix" /\ IsIndex(x) /\ x # NoIndex
    BY DEF IsIndex, NoIndex
  <2> HIDE DEF x
  <2>6. Accounted(x, u, K, n \in overflowed')
    BY <2>5 DEF Accounted
  <2>7. u \in ToldType
    <3>1. 0 \in -1..MaxCopies
      BY LatenciesAreNat
    <3> QED BY <1>2, <3>1 DEF ToldType
  <2> HIDE DEF u
  <2> QED BY <1>1, <2>3, <2>4, <2>5, <2>6, <2>7, OnlyOne
<1>6. CASE index[n].type = "bloom"
  <2> DEFINE f == index[n].filter
             g == RemoveKey(f, k)
             x == [type |-> "bloom", filter |-> g]
             u == [t EXCEPT ![k] = t[k] - 1]
  <2>1. /\ f \in FilterType /\ index[n] = [type |-> "bloom", filter |-> f]
    BY <1>2, <1>6, IndexShape
  <2>2. /\ \A j \in Keys \ K : t[j] = 0
        /\ n \in overflowed \/ AccountOf(f, t, K)
    BY <1>2, <1>6 DEF Accounted
  <2>3. k \in K
    BY <1>1, <1>6 DEF FilterKeys
  <2>4. /\ t[k] >= 0 /\ n \notin overflowed
        /\ index' = [index EXCEPT ![n].filter = RemoveKey(@, k)]
        /\ told' = [told EXCEPT ![n][k] = @ - 1]
    BY <1>1, <1>6
  <2>5. index' = [index EXCEPT ![n] = x]
    <3> DEFINE y == [index[n] EXCEPT !.filter = RemoveKey(@, k)]
    <3>1. y = x
      BY <2>1
    <3>2. index' = [index EXCEPT ![n] = y]
      BY <2>4
    <3> QED BY <3>1, <3>2
  <2>6. told' = [told EXCEPT ![n] = u]
    BY <1>2, <2>4
  <2>7. g \in FilterType
    BY <1>4, <2>1, RemoveKeyType
  <2>8. IsIndex(x) /\ x.type = "bloom" /\ x # NoIndex /\ x.filter = g
    BY <2>7 DEF IsIndex, NoIndex
  <2>9. u \in ToldType
    <3>1. t[k] \in -1..MaxCopies /\ MaxCopies \in Nat
      BY <1>2, <1>4, LatenciesAreNat DEF ToldType
    <3>2. t[k] - 1 \in -1..MaxCopies
      BY <2>4, <3>1
    <3> QED BY <1>2, <3>2 DEF ToldType
  <2>10. \A j \in Keys \ K : u[j] = 0
    BY <1>2, <2>2, <2>3 DEF ToldType
  <2>11. AccountOf(g, u, K)
    <3>1. AccountOf(f, t, K)
      BY <2>2, <2>4
    <3>2. u = [t EXCEPT ![k] = t[k] - 1]
      OBVIOUS
    <3> HIDE DEF u, f, K, t
    <3> QED BY <1>2, <1>3, <2>1, <2>3, <2>4, <2>9, <3>1, <3>2, RemoveAccount
  <2>12. Accounted(x, u, K, n \in overflowed')
    <3> HIDE DEF x, u, g, K
    <3> QED BY <2>8, <2>10, <2>11 DEF Accounted
  <2> HIDE DEF x, u
  <2> QED BY <1>1, <2>5, <2>6, <2>8, <2>9, <2>12, OnlyOne
<1> QED BY <1>1, <1>5, <1>6

LEMMA CompressKeeps == IndexInv /\ Compress => IndexInv'
<1> SUFFICES ASSUME IndexInv, Compress PROVE IndexInv'
  OBVIOUS
<1>1. /\ index' = [n \in Neighbors |->
            IF index[n].type = "mix"
            THEN [index[n] EXCEPT !.bitmaps = [s \in Streams |-> BitmapRunOptimize(@[s])]]
            ELSE index[n]]
      /\ told' = told /\ overflowed' = overflowed
  BY DEF Compress
<1>2. index' = [n \in Neighbors |-> index'[n]] /\ told' \in [Neighbors -> ToldType]
  BY <1>1 DEF IndexInv
<1>3. ASSUME NEW n \in Neighbors
      PROVE  /\ IsIndex(index'[n])
             /\ Accounted(index'[n], told'[n], FilterKeys(n), n \in overflowed')
  <2>1. IsIndex(index[n]) /\ Accounted(index[n], told[n], FilterKeys(n), n \in overflowed)
    BY DEF IndexInv
  <2>2. CASE index[n].type = "mix"
    <3>1. PICK B : index[n] = [type |-> "mix", bitmaps |-> B]
      BY <2>1, <2>2, IndexShape
    <3> DEFINE D == [s \in Streams |-> BitmapRunOptimize(B[s])]
               y == [index[n] EXCEPT !.bitmaps = [s \in Streams |-> BitmapRunOptimize(@[s])]]
    <3>2. index'[n] = y
      BY <1>1, <2>2
    <3>3. y = [type |-> "mix", bitmaps |-> D]
      BY <3>1
    <3> HIDE DEF D, y
    <3>4. index'[n] = [type |-> "mix", bitmaps |-> D]
      BY <3>2, <3>3
    <3> DEFINE x == index'[n]
    <3>5. x = [type |-> "mix", bitmaps |-> D]
      BY <3>4
    <3> HIDE DEF x
    <3>6. x.type = "mix" /\ x # NoIndex
      BY <3>5 DEF NoIndex
    <3>7. IsIndex(x)
      BY <3>5 DEF IsIndex
    <3> QED BY <3>6, <3>7 DEF Accounted, x
  <2>3. CASE index[n].type # "mix"
    <3>1. index'[n] = index[n] /\ told'[n] = told[n]
      BY <1>1, <2>3
    <3> QED BY <1>1, <2>1, <3>1
  <2> QED BY <2>2, <2>3
<1> QED BY <1>2, <1>3 DEF IndexInv, FilterKeys

LEMMA StepKeeps == IndexInv /\ [Next]_vars => IndexInv'
<1> SUFFICES ASSUME IndexInv, [Next]_vars PROVE IndexInv'
  OBVIOUS
<1>1. ASSUME NEW n \in Neighbors, NEW l \in Latencies, SetNodeLatency(n, l)
      PROVE  IndexInv'
  BY <1>1 DEF SetNodeLatency, IndexInv, FilterKeys
<1>2. ASSUME NEW n \in Neighbors, NEW k, AddBlock(n, k[1], k[2])
      PROVE  IndexInv'
  BY <1>2, AddKeeps
<1>3. ASSUME NEW n \in Neighbors, NEW k, RemoveBlock(n, k[1], k[2])
      PROVE  IndexInv'
  BY <1>3, RemoveKeeps
<1>4. CASE Compress
  BY <1>4, CompressKeeps
<1>5. CASE UNCHANGED vars
  BY <1>5 DEF vars, IndexInv, FilterKeys
<1> QED BY <1>1, <1>2, <1>3, <1>4, <1>5 DEF Next

LEMMA AlwaysIndexInv == Spec => []IndexInv
BY StartsEmpty, StepKeeps, PTL DEF Spec

-----------------------------------------------------------------------------
\* What the invariant says of a filter no counter of which was ever full.

LEMMA FilteredAccount ==
    ASSUME IndexInv, NEW n \in Filtered
    PROVE  /\ n \in Neighbors /\ index[n].filter \in FilterType
           /\ told[n] \in ToldType /\ FilterKeys(n) \in SUBSET Keys
           /\ \A k \in Keys \ FilterKeys(n) : told[n][k] = 0
           /\ AccountOf(index[n].filter, told[n], FilterKeys(n))
<1>1. n \in Neighbors /\ index[n].type = "bloom" /\ n \notin overflowed
  BY DEF Filtered
<1>2. /\ IsIndex(index[n]) /\ told[n] \in ToldType
      /\ Accounted(index[n], told[n], FilterKeys(n), n \in overflowed)
  BY <1>1 DEF IndexInv
<1>3. FilterKeys(n) \in SUBSET Keys
  BY <1>1, PushedType
<1> QED BY <1>1, <1>2, <1>3, IndexShape DEF Accounted

\* Each counter of a filter is the number of probes of the keys it was told of,
\* copies counted and early removals deducted, modulo the width of a counter,
\* and insert_num_ their number: CountingBloomFilter::Add and Remove never lose
\* a probe until a counter has been full.
THEOREM CountersAccountHolds == Spec => []CountersAccount
<1>1. IndexInv => CountersAccount
  <2> SUFFICES ASSUME IndexInv, NEW n \in Filtered
               PROVE  /\ \A s \in 0..(Slots - 1) :
                            index[n].filter.counters[s]
                            = (Cardinality(ProbesOfCopies(n, s)) - Cardinality(ProbesOwed(n, s)))
                              % (CounterMax + 1)
                      /\ index[n].filter.inserted
                         = (Cardinality(Copies(n)) - Cardinality(Owed(n))) % SizeModulus
    BY DEF CountersAccount
  <2> DEFINE K == FilterKeys(n)
  <2>1. AccountOf(index[n].filter, told[n], K)
    BY FilteredAccount
  <2>2. Copies(n) = CopiesTold(told[n], K) /\ Owed(n) = OwedTold(told[n], K)
    BY DEF Copies, Owed, CopiesTold, OwedTold, FilterKeys
  <2>3. \A s : /\ ProbesOfCopies(n, s) = CopiesHitting(told[n], K, s)
               /\ ProbesOwed(n, s) = OwedHitting(told[n], K, s)
    BY <2>2 DEF ProbesOfCopies, ProbesOwed, CopiesHitting, OwedHitting
  <2> HIDE DEF K
  <2> QED BY <2>1, <2>2, <2>3 DEF AccountOf, NetProbes, NetKeys
<1> QED BY <1>1, AlwaysIndexInv, PTL

\* A key that was added and not removed is found: none of the counters
\* CountingBloomFilter::KeyMayMatch reads for it is 0, however other keys were
\* added and removed in between, once every early removal met its addition.
THEOREM NoFalseNegativeHolds == Spec => []NoFalseNegative
<1>1. IndexInv => NoFalseNegative
  <2> SUFFICES ASSUME IndexInv, NEW n \in Filtered, \A k \in Keys : told[n][k] >= 0,
                      NEW k \in Keys, told[n][k] > 0
               PROVE  KeyMayMatch(index[n].filter, k)
    BY DEF NoFalseNegative
  <2> DEFINE K == FilterKeys(n)
             t == told[n]
  <2>1. /\ AccountOf(index[n].filter, t, K) /\ K \in SUBSET Keys /\ t \in ToldType
        /\ \A j \in Keys \ K : t[j] = 0
    BY FilteredAccount
  <2>2. k \in K
    BY <2>1
  <2>3. OwedTold(t, K) = {}
    <3>1. \A j \in Keys : t[j] \in Int /\ t[j] >= 0
      BY <2>1, LatenciesAreNat DEF ToldType
    <3>2. \A j \in Keys : ~(t[j] < 0)
      BY <3>1
    <3> QED BY <2>1, <3>2 DEF OwedTold
  <2>4. <<k, 1>> \in CopiesTold(t, K)
    <3>1. t[k] \in -1..MaxCopies /\ MaxCopies \in Nat
      BY LatenciesAreNat, <2>1 DEF ToldType
    <3>2. 1 \in 1..MaxCopies /\ 1 <= t[k]
      BY <3>1
    <3> QED BY <2>2, <3>2 DEF CopiesTold
  <2> HIDE DEF K, t
  <2>5. ASSUME NEW j \in 1..ProbeCount
        PROVE  index[n].filter.counters[Probes(k)[j]] # 0
    <3> DEFINE s == Probes(k)[j]
               H == CopiesHitting(t, K, s)
               c == NetProbes(t, K, s)
               p == <<<<k, 1>>, j>>
    <3>1. s \in 0..(Slots - 1)
      BY ProbeType
    <3>2. p \in H
      BY <2>4 DEF CopiesHitting
    <3>3. IsFiniteSet(H) /\ Cardinality(H) \in Nat /\ Cardinality(H) # 0
      <4>1. IsFiniteSet(H) /\ Cardinality(H) \in Nat
        BY <2>1, BalanceFinite
      <4> QED BY <3>2, <4>1, FS_EmptySet
    <3>4. Cardinality(OwedHitting(t, K, s)) = 0
      <4>1. OwedHitting(t, K, s) = {}
        BY <2>3 DEF OwedHitting
      <4> QED BY <4>1, FS_EmptySet
    <3>5. c = Cardinality(H) - Cardinality(OwedHitting(t, K, s))
      BY DEF NetProbes
    <3>6. index[n].filter.counters[s] = c % (CounterMax + 1) /\ c <= CounterMax
      BY <2>1, <3>1 DEF AccountOf
    <3> HIDE DEF c, H, s
    <3>7. c \in 0..((CounterMax + 1) - 1) /\ c # 0
      BY <3>3, <3>4, <3>5, <3>6
    <3>8. c % (CounterMax + 1) = c
      <4> DEFINE m == CounterMax + 1
      <4>1. m \in Nat \ {0} /\ c \in 0..(m - 1)
        BY <3>7
      <4> HIDE DEF m
      <4>2. c % m = c
        BY <4>1, ModSmall
      <4> QED BY <4>2 DEF m
    <3> QED BY <3>6, <3>7, <3>8 DEF s
  <2> QED BY <2>5 DEF KeyMayMatch
<1> QED BY <1>1, AlwaysIndexInv, PTL

-----------------------------------------------------------------------------
\* The exactness of a MixIndex: a bitmap stands for the blocks it was told of.

\* For the bitmaps B of a neighbour that was told t.
Exact(B, t) ==
    /\ B = [s \in Streams |-> B[s]]
    /\ \A s \in Streams :
          /\ GoodBitmap(B[s])
          /\ \A b : b \in Elements(B[s]) <=> b \in Ids /\ t[<<s, b>>] = 1
MixInv == \A n \in Mixed : Exact(index[n].bitmaps, told[n])

LEMMA MixShape ==
    ASSUME NEW x, IsIndex(x), x.type = "mix"
    PROVE  x = [type |-> "mix", bitmaps |-> x.bitmaps]
<1>1. PICK B : x = [type |-> "mix", bitmaps |-> B]
  BY IndexShape
<1> QED BY <1>1

\* One bit set or cleared, on both sides.
LEMMA ExactChange ==
    ASSUME NEW B, NEW t \in ToldType, NEW u, NEW c, NEW s \in Streams, NEW b \in Ids,
           NEW d, NEW v,
           Exact(B, t), c = [B EXCEPT ![s] = d], u = [t EXCEPT ![<<s, b>>] = v],
           GoodBitmap(d),
           \A x : x \in Elements(d) <=> IF x = b THEN v = 1 ELSE x \in Elements(B[s])
    PROVE  Exact(c, u)
<1>1. /\ c = [r \in Streams |-> c[r]] /\ c[s] = d
      /\ \A r \in Streams : r # s => c[r] = B[r]
  BY DEF Exact
<1>2. \A r \in Streams, x \in Ids :
         u[<<r, x>>] = IF r = s /\ x = b THEN v ELSE t[<<r, x>>]
  <2>1. \A r \in Streams, x \in Ids : <<r, x>> \in Keys
    BY DEF Keys
  <2> QED BY <2>1 DEF ToldType
<1>3. ASSUME NEW r \in Streams
      PROVE  /\ GoodBitmap(c[r])
             /\ \A x : x \in Elements(c[r]) <=> x \in Ids /\ u[<<r, x>>] = 1
  <2>1. /\ GoodBitmap(B[r])
        /\ \A x : x \in Elements(B[r]) <=> x \in Ids /\ t[<<r, x>>] = 1
    BY DEF Exact
  <2>2. CASE r = s
    BY <1>1, <1>2, <2>1, <2>2
  <2>3. CASE r # s
    BY <1>1, <1>2, <2>1, <2>3
  <2> QED BY <2>2, <2>3
<1> QED BY <1>1, <1>3 DEF Exact

LEMMA NothingExact ==
    ASSUME NEW t, \A k \in Keys : t[k] = 0
    PROVE  Exact([s \in Streams |-> EmptyBitmap], t)
BY EmptyBitmapIs DEF Exact, Keys

\* A step that touches at most what is known of neighbour n.
LEMMA OnlyOneMix ==
    ASSUME IndexInv, MixInv, NEW n \in Neighbors, NEW x, NEW t,
           index' = [index EXCEPT ![n] = x], told' = [told EXCEPT ![n] = t],
           x.type = "mix" => Exact(x.bitmaps, t)
    PROVE  MixInv'
<1>1. index'[n] = x /\ told'[n] = t
  BY DEF IndexInv
<1>2. \A m \in Neighbors \ {n} : index'[m] = index[m] /\ told'[m] = told[m]
  BY DEF IndexInv
<1>3. ASSUME NEW m \in Neighbors, index'[m].type = "mix"
      PROVE  Exact(index'[m].bitmaps, told'[m])
  <2>1. CASE m = n
    BY <1>1, <1>3, <2>1
  <2>2. CASE m # n
    BY <1>2, <1>3, <2>2 DEF MixInv, Mixed
  <2> QED BY <2>1, <2>2
<1> QED BY <1>3 DEF MixInv, Mixed

LEMMA AddKeepsMix ==
    ASSUME IndexInv, MixInv, NEW n \in Neighbors, NEW s, NEW b, AddBlock(n, s, b)
    PROVE  MixInv'
<1> DEFINE k == <<s, b>>
           current == IF index[n] = NoIndex THEN CreateIndex(EntryOf(n)) ELSE index[n]
           added == AddKey(current.filter, k)
           t == told[n]
<1>1. /\ k \in Pushed[n][current.type]
      /\ \/ /\ current.type = "mix"
            /\ index' = [index EXCEPT ![n] = [current EXCEPT !.bitmaps[s] = BitmapAdd(@, b)]]
            /\ told' = [told EXCEPT ![n][k] = 1]
         \/ /\ current.type = "bloom"
            /\ index' = [index EXCEPT ![n] = [current EXCEPT !.filter = added.filter]]
            /\ told' = [told EXCEPT ![n][k] = @ + 1]
  BY DEF AddBlock
<1>2. /\ IsIndex(index[n]) /\ Accounted(index[n], t, FilterKeys(n), n \in overflowed)
      /\ t \in ToldType /\ told \in [Neighbors -> ToldType]
  BY DEF IndexInv
<1>3. k \in Keys /\ s \in Streams /\ b \in Ids
  <2>1. current.type \in {"mix", "bloom"}
    BY <1>1
  <2>2. k \in Keys
    BY <1>1, <2>1, PushedAreKeys
  <2> QED BY <2>2 DEF Keys
<1>4. ASSUME current.type = "mix"
      PROVE  /\ current = [type |-> "mix", bitmaps |-> current.bitmaps]
             /\ Exact(current.bitmaps, t)
  <2>1. CASE index[n] = NoIndex
    <3> DEFINE E == [r \in Streams |-> EmptyBitmap]
    <3>1. current = [type |-> "mix", bitmaps |-> E]
      BY <1>4, <2>1 DEF CreateIndex
    <3>2. Exact(E, t)
      BY <1>2, <2>1, NothingExact DEF Accounted
    <3> HIDE DEF current, E
    <3> QED BY <3>1, <3>2
  <2>2. CASE index[n] # NoIndex
    <3>1. current = index[n]
      BY <2>2
    <3> QED BY <1>2, <1>4, <2>2, <3>1, MixShape DEF MixInv, Mixed
  <2> QED BY <2>1, <2>2
<1> HIDE DEF current
<1>5. CASE current.type = "mix"
  <2> DEFINE B == current.bitmaps
             d == BitmapAdd(B[s], b)
             c == [B EXCEPT ![s] = d]
             x == [type |-> "mix", bitmaps |-> c]
             u == [t EXCEPT ![k] = 1]
  <2>1. [current EXCEPT !.bitmaps[s] = BitmapAdd(@, b)] = x
    <3>1. current = [type |-> "mix", bitmaps |-> B]
      BY <1>4, <1>5
    <3> HIDE DEF B
    <3> QED BY <3>1
  <2>2. index' = [index EXCEPT ![n] = x] /\ told' = [told EXCEPT ![n] = u]
    BY <1>1, <1>5, <2>1
  <2>3. Exact(B, t)
    BY <1>4, <1>5
  <2>4. GoodBitmap(d) /\ Elements(d) = Elements(B[s]) \cup {b}
    <3>1. GoodBitmap(B[s]) /\ b \in Nat
      BY <1>3, <2>3 DEF Exact, Ids
    <3> HIDE DEF B
    <3> QED BY <3>1, BitmapAddAdds
  <2> HIDE DEF B, d
  <2>5. Exact(c, u)
    <3>1. \A z : z \in Elements(d) <=> IF z = b THEN 1 = 1 ELSE z \in Elements(B[s])
      BY <2>4
    <3>2. c = [B EXCEPT ![s] = d] /\ u = [t EXCEPT ![<<s, b>>] = 1]
      OBVIOUS
    <3> HIDE DEF c, u, t
    <3> QED BY <1>2, <1>3, <2>3, <2>4, <3>1, <3>2, ExactChange
  <2>6. x.bitmaps = c
    OBVIOUS
  <2> HIDE DEF x, u, c
  <2> QED BY <2>2, <2>5, <2>6, OnlyOneMix
<1>6. CASE current.type = "bloom"
  <2> DEFINE x == [current EXCEPT !.filter = added.filter]
             u == [t EXCEPT ![k] = t[k] + 1]
  <2>1. index' = [index EXCEPT ![n] = x] /\ told' = [told EXCEPT ![n] = u]
    BY <1>1, <1>2, <1>6
  <2>2. x.type = current.type
    <3>1. IsIndex(current)
      BY <1>2, EmptyFilterType DEF current, CreateIndex, IsIndex
    <3>2. PICK f : current = [type |-> "bloom", filter |-> f]
      BY <1>6, <3>1, IndexShape
    <3> QED BY <3>2
  <2> HIDE DEF x, u
  <2> QED BY <1>6, <2>1, <2>2, OnlyOneMix
<1> QED BY <1>1, <1>5, <1>6

LEMMA RemoveKeepsMix ==
    ASSUME IndexInv, MixInv, NEW n \in Neighbors, NEW s, NEW b, RemoveBlock(n, s, b)
    PROVE  MixInv'
<1> DEFINE k == <<s, b>>
           t == told[n]
<1>1. /\ k \in Pushed[n][index[n].type]
      /\ \/ /\ index[n].type = "mix"
            /\ index' = [index EXCEPT ![n].bitmaps[s] = BitmapRemove(@, b)]
            /\ told' = [told EXCEPT ![n][k] = 0]
         \/ /\ index[n].type = "bloom"
            /\ index' = [index EXCEPT ![n].filter = RemoveKey(@, k)]
            /\ told' = [told EXCEPT ![n][k] = @ - 1]
  BY DEF RemoveBlock
<1>2. IsIndex(index[n]) /\ t \in ToldType /\ told \in [Neighbors -> ToldType]
  BY DEF IndexInv
<1>3. k \in Keys /\ s \in Streams /\ b \in Ids
  <2>1. index[n].type \in {"mix", "bloom"}
    BY <1>1
  <2>2. k \in Keys
    BY <1>1, <2>1, PushedAreKeys
  <2> QED BY <2>2 DEF Keys
<1>4. CASE index[n].type = "mix"
  <2> DEFINE B == index[n].bitmaps
             d == BitmapRemove(B[s], b)
             c == [B EXCEPT ![s] = d]
             x == [type |-> "mix", bitmaps |-> c]
             u == [t EXCEPT ![k] = 0]
  <2>1. index' = [index EXCEPT ![n] = x]
    <3> DEFINE y == [index[n] EXCEPT !.bitmaps[s] = BitmapRemove(@, b)]
    <3>1. y = x
      BY <1>2, <1>4, MixShape
    <3>2. index' = [index EXCEPT ![n] = y]
      BY <1>1, <1>4
    <3> QED BY <3>1, <3>2
  <2>2. told' = [told EXCEPT ![n] = u]
    BY <1>1, <1>4
  <2>3. Exact(B, t)
    BY <1>4 DEF MixInv, Mixed
  <2>4. GoodBitmap(d) /\ Elements(d) = Elements(B[s]) \ {b}
    <3>1. GoodBitmap(B[s]) /\ b \in Nat
      BY <1>3, <2>3 DEF Exact, Ids
    <3> HIDE DEF B
    <3> QED BY <3>1, BitmapRemoveRemoves
  <2> HIDE DEF B, d
  <2>5. Exact(c, u)
    <3>1. \A z : z \in Elements(d) <=> IF z = b THEN 0 = 1 ELSE z \in Elements(B[s])
      BY <2>4
    <3>2. c = [B EXCEPT ![s] = d] /\ u = [t EXCEPT ![<<s, b>>] = 0]
      OBVIOUS
    <3> HIDE DEF c, u, t
    <3> QED BY <1>2, <1>3, <2>3, <2>4, <3>1, <3>2, ExactChange
  <2>6. x.bitmaps = c
    OBVIOUS
  <2> HIDE DEF x, u, c
  <2> QED BY <2>1, <2>2, <2>5, <2>6, OnlyOneMix
<1>5. CASE index[n].type = "bloom"
  <2> DEFINE x == [index[n] EXCEPT !.filter = RemoveKey(@, k)]
             u == [t EXCEPT ![k] = t[k] - 1]
  <2>1. index' = [index EXCEPT ![n] = x] /\ told' = [told EXCEPT ![n] = u]
    BY <1>1, <1>2, <1>5
  <2>2. x.type = "bloom"
    <3>1. PICK f : index[n] = [type |-> "bloom", filter |-> f]
      BY <1>2, <1>5, IndexShape
    <3> QED BY <3>1
  <2> HIDE DEF x, u
  <2> QED BY <2>1, <2>2, OnlyOneMix
<1> QED BY <1>1, <1>4, <1>5

LEMMA CompressKeepsMix == IndexInv /\ MixInv /\ Compress => MixInv'
<1> SUFFICES ASSUME IndexInv, MixInv, Compress, NEW n \in Neighbors, index'[n].type = "mix"
             PROVE  Exact(index'[n].bitmaps, told'[n])
  BY DEF MixInv, Mixed
<1> DEFINE B == index[n].bitmaps
           D == [s \in Streams |-> BitmapRunOptimize(B[s])]
           y == [index[n] EXCEPT !.bitmaps = [s \in Streams |-> BitmapRunOptimize(@[s])]]
<1>1. /\ index'[n] = IF index[n].type = "mix" THEN y ELSE index[n]
      /\ told' = told /\ IsIndex(index[n])
  BY DEF Compress, IndexInv
<1>2. index[n].type = "mix"
  BY <1>1
<1>3. index[n] = [type |-> "mix", bitmaps |-> B]
  BY <1>1, <1>2, MixShape
<1>4. Exact(B, told[n])
  BY <1>2 DEF MixInv, Mixed
<1>5. index'[n] = [type |-> "mix", bitmaps |-> D]
  <2>1. y = [type |-> "mix", bitmaps |-> D]
    BY <1>3
  <2> QED BY <1>1, <1>2, <2>1
<1>6. index'[n].bitmaps = D
  BY <1>5
<1> HIDE DEF B, y
<1>7. Exact(D, told[n])
  <2>1. \A s \in Streams : /\ GoodBitmap(BitmapRunOptimize(B[s]))
                           /\ Elements(BitmapRunOptimize(B[s])) = Elements(B[s])
    BY <1>4, BitmapRunOptimizeKeeps DEF Exact
  <2> QED BY <1>4, <2>1 DEF Exact
<1> QED BY <1>1, <1>6, <1>7

LEMMA StepKeepsMix == IndexInv /\ MixInv /\ [Next]_vars => MixInv'
<1> SUFFICES ASSUME IndexInv, MixInv, [Next]_vars PROVE MixInv'
  OBVIOUS
<1>1. ASSUME NEW n \in Neighbors, NEW l \in Latencies, SetNodeLatency(n, l)
      PROVE  MixInv'
  BY <1>1 DEF SetNodeLatency, MixInv, Mixed
<1>2. ASSUME NEW n \in Neighbors, NEW k, AddBlock(n, k[1], k[2])
      PROVE  MixInv'
  BY <1>2, AddKeepsMix
<1>3. ASSUME NEW n \in Neighbors, NEW k, RemoveBlock(n, k[1], k[2])
      PROVE  MixInv'
  BY <1>3, RemoveKeepsMix
<1>4. CASE Compress
  BY <1>4, CompressKeepsMix
<1>5. CASE UNCHANGED vars
  BY <1>5 DEF vars, MixInv, Mixed
<1> QED BY <1>1, <1>2, <1>3, <1>4, <1>5 DEF Next

LEMMA AlwaysMixInv == Spec => []MixInv
<1>1. Init => MixInv
  <2>1. Init => \A n \in Neighbors : index[n].type # "mix"
    BY DEF Init, NoIndex
  <2> QED BY <2>1 DEF MixInv, Mixed
<1> QED BY <1>1, StepKeepsMix, AlwaysIndexInv, PTL DEF Spec

\* MixIndex answers every range of blocks below the largest id exactly, from the
\* intersection of its bitmap with a range of ones, whatever kinds of containers
\* additions, removals and compress made of it; and every container passes the
\* library's own validation.
THEOREM MixIndexExactHolds == Spec => []MixIndexExact
<1>1. MixInv => MixIndexExact
  <2> SUFFICES ASSUME MixInv, NEW n \in Mixed, NEW s \in Streams
               PROVE  /\ BitmapValid(index[n].bitmaps[s])
                      /\ \A lo \in 0..(MaxId - 1) : \A hi \in lo..(MaxId - 1) :
                            RangeQuery(n, s, lo, hi) = {b \in lo..hi : told[n][<<s, b>>] = 1}
    BY DEF MixIndexExact
  <2> DEFINE B == index[n].bitmaps[s]
  <2>1. /\ GoodBitmap(B)
        /\ \A b : b \in Elements(B) <=> b \in Ids /\ told[n][<<s, b>>] = 1
    BY DEF MixInv, Exact
  <2>2. ASSUME NEW lo \in 0..(MaxId - 1), NEW hi \in lo..(MaxId - 1)
        PROVE  RangeQuery(n, s, lo, hi) = {b \in lo..hi : told[n][<<s, b>>] = 1}
    <3>1. /\ lo \in Nat /\ hi \in Nat /\ lo <= hi /\ lo..hi \subseteq Ids
          /\ hi + 1 \in 0..(IdModulus - 1)
      BY DEF MaxId, Ids
    <3>2. (hi + 1) % IdModulus = hi + 1
      <4> DEFINE h == hi + 1
      <4>1. h \in 0..(IdModulus - 1)
        BY <3>1
      <4> HIDE DEF h
      <4>2. h % IdModulus = h
        BY <4>1, ModSmall
      <4> QED BY <4>2 DEF h
    <3>3. RangeQuery(n, s, lo, hi) = Elements(BitmapAnd(B, RangeBitmap(lo, hi + 1)))
      <4>1. index[n].type = "mix"
        BY DEF Mixed
      <4> QED BY <3>2, <4>1 DEF RangeQuery
    <3> HIDE DEF B
    <3>4. /\ AnyBitmap(RangeBitmap(lo, hi + 1))
          /\ Elements(RangeBitmap(lo, hi + 1)) = lo..hi
      BY <3>1, RangeBitmapIs
    <3>5. Elements(BitmapAnd(B, RangeBitmap(lo, hi + 1))) = Elements(B) \cap (lo..hi)
      BY <2>1, <3>4, GoodIsAny, BitmapAndIs
    <3> QED BY <2>1, <3>1, <3>3, <3>5
  <2>3. BitmapValid(B)
    BY <2>1, GoodBitmapValid
  <2> QED BY <2>2, <2>3
<1> QED BY <1>1, AlwaysMixInv, PTL

-----------------------------------------------------------------------------
\* Types.

NodesInv ==
    /\ latency \in [Neighbors -> Latencies \cup {0, Unmeasured}]
    /\ measured \subseteq Neighbors /\ overflowed \subseteq Neighbors

LEMMA StepKeepsNodes == NodesInv /\ [Next]_vars => NodesInv'
<1> SUFFICES ASSUME NodesInv, [Next]_vars PROVE NodesInv'
  OBVIOUS
<1>1. ASSUME NEW n \in Neighbors, NEW l \in Latencies, SetNodeLatency(n, l)
      PROVE  NodesInv'
  BY <1>1 DEF SetNodeLatency, NodesInv
<1>2. ASSUME NEW n \in Neighbors, NEW k, AddBlock(n, k[1], k[2])
      PROVE  NodesInv'
  <2>1. EntryOf(n) \in Latencies \cup {0, Unmeasured}
    BY DEF EntryOf, NodesInv
  <2>2. /\ \/ latency' = [latency EXCEPT ![n] = EntryOf(n)]
           \/ latency' = [latency EXCEPT ![n] = @]
        /\ measured' = measured
        /\ overflowed' = overflowed \/ overflowed' = overflowed \cup {n}
    BY <1>2 DEF AddBlock
  <2> QED BY <2>1, <2>2 DEF NodesInv
<1>3. ASSUME NEW n \in Neighbors, NEW k, RemoveBlock(n, k[1], k[2])
      PROVE  NodesInv'
  BY <1>3 DEF RemoveBlock, NodesInv
<1>4. CASE Compress
  BY <1>4 DEF Compress, NodesInv
<1>5. CASE UNCHANGED vars
  BY <1>5 DEF vars, NodesInv
<1> QED BY <1>1, <1>2, <1>3, <1>4, <1>5 DEF Next

LEMMA AlwaysNodesInv == Spec => []NodesInv
<1>1. Init => NodesInv
  BY DEF Init, NodesInv
<1> QED BY <1>1, StepKeepsNodes, PTL DEF Spec

\* A neighbour has no index, one bitmap per stream of block ids, or a filter
\* whose counters fit a byte; what it told of a block stays between one removal
\* too many and the bound.
THEOREM TypeCorrect == Spec => []TypeOK
<1>1. NodesInv /\ IndexInv /\ MixInv => TypeOK
  <2> SUFFICES ASSUME NodesInv, IndexInv, MixInv PROVE TypeOK
    OBVIOUS
  <2>1. told \in [Neighbors -> [Keys -> -1..MaxCopies]]
    BY DEF IndexInv, ToldType
  <2>2. ASSUME NEW n \in Neighbors
        PROVE  CASE index[n].type = "none" -> index[n] = NoIndex
                 [] index[n].type = "mix" ->
                       \A s \in Streams : Elements(index[n].bitmaps[s]) \subseteq Ids
                 [] index[n].type = "bloom" ->
                       /\ index[n].filter.counters \in [0..(Slots - 1) -> 0..CounterMax]
                       /\ index[n].filter.inserted \in 0..(SizeModulus - 1)
    <3>1. IsIndex(index[n])
      BY DEF IndexInv
    <3>2. index[n].type = "none" => index[n] = NoIndex
      BY <3>1, IndexShape
    <3>3. index[n].type = "mix" =>
             \A s \in Streams : Elements(index[n].bitmaps[s]) \subseteq Ids
      BY DEF MixInv, Mixed, Exact
    <3>4. index[n].type = "bloom" =>
             /\ index[n].filter.counters \in [0..(Slots - 1) -> 0..CounterMax]
             /\ index[n].filter.inserted \in 0..(SizeModulus - 1)
      BY <3>1, IndexShape DEF FilterType
    <3>5. index[n].type \in {"none", "mix", "bloom"}
      <4> DEFINE x == index[n]
      <4>1. NoIndex.type = "none"
        BY DEF NoIndex
      <4>2. /\ \A B : [type |-> "mix", bitmaps |-> B].type = "mix"
            /\ \A f : [type |-> "bloom", filter |-> f].type = "bloom"
        OBVIOUS
      <4>3. IsIndex(x)
        BY <3>1
      <4> HIDE DEF x
      <4>4. x.type \in {"none", "mix", "bloom"}
        BY <4>1, <4>2, <4>3 DEF IsIndex
      <4> QED BY <4>4 DEF x
    <3> QED BY <3>2, <3>3, <3>4, <3>5
  <2> QED BY <2>1, <2>2 DEF NodesInv, TypeOK
<1> QED BY <1>1, AlwaysNodesInv, AlwaysIndexInv, AlwaysMixInv, PTL

-----------------------------------------------------------------------------
\* The loop of queryMainIndex over the neighbours.

\* The loop's results after each of the first N neighbours.
Searched(f, N, order, s, b) ==
    f = [i \in 0..N |-> IF i = 0 THEN {} ELSE TakeOver(f[i - 1], order[i], s, b)]

LEMMA SearchExists ==
    ASSUME NEW order, NEW s, NEW b, NEW N \in Nat
    PROVE  \E f : Searched(f, N, order, s, b)
<1> DEFINE Bad == {i \in Nat : ~\E f : Searched(f, i, order, s, b)}
<1>1. SUFFICES ASSUME Bad # {} PROVE FALSE
  OBVIOUS
<1>2. PICK i \in Bad : \A j \in Bad : i <= j
  BY <1>1, Least
<1>3. i # 0
  <2> DEFINE g == [j \in 0..0 |-> {}]
  <2>1. Searched(g, 0, order, s, b)
    BY DEF Searched
  <2> QED BY <2>1
<1>4. i \in Nat /\ i - 1 \in Nat /\ i - 1 \notin Bad
  BY <1>2, <1>3
<1>5. PICK g : Searched(g, i - 1, order, s, b)
  BY <1>4
<1> DEFINE h == [j \in 0..i |-> IF j = i THEN TakeOver(g[i - 1], order[i], s, b) ELSE g[j]]
<1>6. ASSUME NEW j \in 0..i
      PROVE  h[j] = IF j = 0 THEN {} ELSE TakeOver(h[j - 1], order[j], s, b)
  <2>1. \A k \in 0..(i - 1) : g[k] = IF k = 0 THEN {} ELSE TakeOver(g[k - 1], order[k], s, b)
    BY <1>4, <1>5 DEF Searched
  <2>2. \A k \in 0..(i - 1) : h[k] = g[k]
    BY <1>4
  <2>3. h[i] = TakeOver(g[i - 1], order[i], s, b)
    BY <1>4
  <2>4. CASE j = i
    <3>1. h[j - 1] = g[i - 1]
      BY <1>4, <2>2, <2>4
    <3> HIDE DEF h
    <3> QED BY <1>3, <2>3, <2>4, <3>1
  <2>5. CASE j # i
    <3>1. j \in 0..(i - 1) /\ (j # 0 => j - 1 \in 0..(i - 1))
      BY <1>4, <2>5
    <3> HIDE DEF h
    <3> QED BY <2>1, <2>2, <3>1
  <2> QED BY <2>4, <2>5
<1>7. Searched(h, i, order, s, b)
  <2>1. h = [j \in 0..i |-> h[j]]
    OBVIOUS
  <2> HIDE DEF h
  <2>2. h = [j \in 0..i |-> IF j = 0 THEN {} ELSE TakeOver(h[j - 1], order[j], s, b)]
    BY <1>6, <2>1
  <2> QED BY <2>2 DEF Searched
<1> QED BY <1>2, <1>7

LEMMA FoundIs ==
    ASSUME NEW order, NEW s, NEW b, Len(order) \in Nat
    PROVE  \E f : Searched(f, Len(order), order, s, b) /\ Found(order, s, b) = f[Len(order)]
<1> DEFINE f == CHOOSE g : Searched(g, Len(order), order, s, b)
<1>1. Searched(f, Len(order), order, s, b)
  BY SearchExists
<1>2. Found(order, s, b) = f[Len(order)]
  BY DEF Found, Searched
<1> QED BY <1>1, <1>2

Holder(n, s, b) == b \in RangeQuery(n, s, b, b)

\* What the loop has after i neighbours: nothing, or one of them that holds the
\* block and is as near as any of them that does.
BestOf(found, order, i, s, b) ==
    /\ found = {} \/ \E j \in 1..i : found = {order[j]} /\ Holder(order[j], s, b)
    /\ \A j \in 1..i : Holder(order[j], s, b) =>
          \E n \in found : WholeMs(n) <= WholeMs(order[j])

LEMMA WholeMsType ==
    ASSUME NodesInv, NEW n \in Neighbors
    PROVE  WholeMs(n) \in Int
<1>1. latency[n] \in Latencies \cup {0, Unmeasured} /\ Latencies \subseteq Nat
  BY LatenciesAreNat DEF NodesInv
<1>2. latency[n] # Unmeasured => latency[n] \in Nat
  <2>1. CASE latency[n] \in Latencies
    BY <1>1, <2>1
  <2>2. CASE latency[n] \in {0, Unmeasured}
    BY <2>2
  <2> QED BY <1>1, <2>1, <2>2
<1>3. latency[n] # Unmeasured => latency[n] \div PartsPerMs \in Int
  BY <1>2, LatenciesAreNat
<1> QED BY <1>3 DEF WholeMs

LEMMA SearchFindsBest ==
    ASSUME NodesInv, NEW N \in Nat, NEW order \in [1..N -> Neighbors], NEW s, NEW b, NEW f,
           Searched(f, N, order, s, b)
    PROVE  BestOf(f[N], order, N, s, b)
<1> DEFINE Bad == {i \in Nat : i <= N /\ ~BestOf(f[i], order, i, s, b)}
<1>1. SUFFICES ASSUME Bad # {} PROVE FALSE
  OBVIOUS
<1>2. PICK i \in Bad : \A j \in Bad : i <= j
  BY <1>1, Least
<1>3. \A k \in 0..N : f[k] = IF k = 0 THEN {} ELSE TakeOver(f[k - 1], order[k], s, b)
  BY DEF Searched
<1>4. i # 0
  BY <1>3 DEF BestOf
<1>5. /\ i \in 1..N /\ i - 1 \in Nat /\ i - 1 <= N
      /\ BestOf(f[i - 1], order, i - 1, s, b)
  BY <1>2, <1>4
<1> DEFINE n == order[i]
           old == f[i - 1]
<1>6. f[i] = TakeOver(old, n, s, b)
  BY <1>3, <1>5
<1>7. n \in Neighbors /\ \A j \in 1..N : order[j] \in Neighbors
  BY <1>5
<1>8. old = {} \/ \E j \in 1..(i - 1) : old = {order[j]} /\ Holder(order[j], s, b)
  BY <1>5 DEF BestOf
<1>9. \A j \in 1..(i - 1) : Holder(order[j], s, b) =>
         \E m \in old : WholeMs(m) <= WholeMs(order[j])
  BY <1>5 DEF BestOf
<1>10. /\ 1..(i - 1) \subseteq 1..i /\ i \in 1..i
       /\ \A j \in 1..i : j \in 1..(i - 1) \/ j = i
       /\ \A j \in 1..i : j \in 1..N
  BY <1>5
<1>11. \A m \in Neighbors : WholeMs(m) \in Int
  BY WholeMsType
<1>12. CASE Holder(n, s, b) /\ \A m \in old : WholeMs(n) < WholeMs(m)
  <2>1. f[i] = {n}
    BY <1>6, <1>12 DEF TakeOver, Holder
  <2>2. ASSUME NEW j \in 1..i, Holder(order[j], s, b)
        PROVE  WholeMs(n) <= WholeMs(order[j])
    <3>1. CASE j = i
      BY <1>7, <1>11, <3>1
    <3>2. CASE j \in 1..(i - 1)
      <4>1. PICK m \in old : WholeMs(m) <= WholeMs(order[j])
        BY <1>9, <2>2, <3>2
      <4>2. m \in Neighbors /\ order[j] \in Neighbors
        BY <1>7, <1>8, <1>10
      <4>3. WholeMs(n) < WholeMs(m)
        BY <1>12
      <4> HIDE DEF n
      <4> QED BY <1>7, <1>11, <4>1, <4>2, <4>3
    <3> QED BY <1>10, <3>1, <3>2
  <2>3. BestOf(f[i], order, i, s, b)
    BY <1>10, <1>12, <2>1, <2>2 DEF BestOf
  <2> QED BY <1>2, <2>3
<1>13. CASE ~(Holder(n, s, b) /\ \A m \in old : WholeMs(n) < WholeMs(m))
  <2>1. f[i] = old
    BY <1>6, <1>13 DEF TakeOver, Holder
  <2>2. ASSUME NEW j \in 1..i, Holder(order[j], s, b)
        PROVE  \E m \in old : WholeMs(m) <= WholeMs(order[j])
    <3>1. CASE j = i
      <4>1. PICK m \in old : ~(WholeMs(n) < WholeMs(m))
        BY <1>13, <2>2, <3>1
      <4>2. m \in Neighbors
        BY <1>7, <1>8, <1>10
      <4>3. WholeMs(m) <= WholeMs(n)
        BY <1>7, <1>11, <4>1, <4>2
      <4> QED BY <3>1, <4>3
    <3>2. CASE j \in 1..(i - 1)
      BY <1>9, <2>2, <3>2
    <3> QED BY <1>10, <3>1, <3>2
  <2>3. BestOf(f[i], order, i, s, b)
    BY <1>8, <1>10, <2>1, <2>2 DEF BestOf
  <2> QED BY <1>2, <2>3
<1> QED BY <1>12, <1>13

\* An order of the hash map visits every neighbour.
LEMMA OrdersVisitAll ==
    ASSUME NEW order \in Orders
    PROVE  /\ Len(order) \in Nat /\ order \in [1..Len(order) -> Neighbors]
           /\ \A n \in Neighbors : \E j \in 1..Len(order) : order[j] = n
<1> DEFINE N == Cardinality(Neighbors)
<1>1. N \in Nat
  BY NeighborsAreNodes, FS_CardinalityType
<1>2. order \in [1..N -> Neighbors] /\ \A i, j \in 1..N : i # j => order[i] # order[j]
  BY DEF Orders, SetToSeqs
<1> HIDE DEF N
<1>3. Len(order) = N
  BY <1>1, <1>2, LenProperties
<1>4. order \in Injection(1..N, Neighbors)
  BY <1>2 DEF Injection, IsInjective
<1>5. Cardinality(1..N) = N
  BY <1>1, FS_Interval
<1>6. order \in Surjection(1..N, Neighbors)
  BY <1>4, <1>5, NeighborsAreNodes, FS_Injection DEF N
<1>7. \A n \in Neighbors : \E j \in 1..N : order[j] = n
  BY <1>6 DEF Surjection
<1> QED BY <1>1, <1>2, <1>3, <1>7

\* queryMainIndex and createQueryTasks send a block to a neighbour whose index
\* has it, and to the nearest of those, whatever the order of the hash map; to
\* the center only when no index has it.
THEOREM NearestHolderHolds == Spec => []NearestHolder
<1>1. NodesInv => NearestHolder
  <2> SUFFICES ASSUME NodesInv, NEW s \in Streams, NEW b \in 0..(MaxId - 1), NEW order \in Orders
               PROVE  LET holders == {n \in Neighbors : b \in RangeQuery(n, s, b, b)}
                          target == Target(order, s, b)
                      IN  IF target = Center THEN holders = {}
                          ELSE /\ target \in holders
                               /\ \A n \in holders \cap measured :
                                     target \in measured => WholeMs(target) <= WholeMs(n)
    BY DEF NearestHolder
  <2> DEFINE holders == {n \in Neighbors : b \in RangeQuery(n, s, b, b)}
             target == Target(order, s, b)
             found == Found(order, s, b)
             N == Len(order)
  <2>1. /\ N \in Nat /\ order \in [1..N -> Neighbors]
        /\ \A n \in Neighbors : \E j \in 1..N : order[j] = n
    BY OrdersVisitAll
  <2>2. BestOf(found, order, N, s, b)
    BY <2>1, FoundIs, SearchFindsBest
  <2>3. found = {} \/ \E n \in holders : found = {n}
    BY <2>1, <2>2 DEF BestOf, Holder
  <2>4. \A n \in holders : \E m \in found : WholeMs(m) <= WholeMs(n)
    BY <2>1, <2>2 DEF BestOf, Holder
  <2>5. target = IF found = {} THEN Center ELSE CHOOSE n \in found : TRUE
    BY DEF Target
  <2> HIDE DEF found, target
  <2> DEFINE Claim == IF target = Center THEN holders = {}
                      ELSE /\ target \in holders
                           /\ \A n \in holders \cap measured :
                                 target \in measured => WholeMs(target) <= WholeMs(n)
  <2>6. CASE found = {}
    <3>1. target = Center /\ holders = {}
      BY <2>4, <2>5, <2>6
    <3> HIDE DEF holders
    <3>2. Claim
      BY <3>1
    <3> QED BY <3>2 DEF holders, target
  <2>7. CASE found # {}
    <3>1. PICK n \in holders : found = {n}
      BY <2>3, <2>7
    <3>2. target = n
      BY <2>5, <3>1
    <3>3. target # Center
      BY <3>2, NeighborsAreNodes
    <3>4. \A m \in holders : WholeMs(target) <= WholeMs(m)
      BY <2>4, <3>1, <3>2
    <3> HIDE DEF holders
    <3>5. Claim
      BY <3>1, <3>2, <3>3, <3>4
    <3> QED BY <3>5 DEF holders, target
  <2> QED BY <2>6, <2>7
<1> QED BY <1>1, AlwaysNodesInv, PTL
=============================================================================
