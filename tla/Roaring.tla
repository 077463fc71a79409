------------------------------- MODULE Roaring -------------------------------
(***************************************************************************)
(* The part of the Roaring bitmap library (roaring.c, vendored) that an    *)
(* edge's block index uses: add, remove, a range of ones, intersection and *)
(* run optimization.  A bitmap maps the high half of its values to a       *)
(* container for the low halves, kept as a sorted array, as a bit set or   *)
(* as runs; every operation picks the kind of its result by size.          *)
(* Abstracted: the words of a bit set and the cells of an array are the    *)
(* set of the values they stand for, with the kind remembered; runs are    *)
(* kept as the library keeps them.  Memory is never short.                 *)
(***************************************************************************)
EXTENDS Integers, FiniteSets, SequencesExt

CONSTANTS
    ChunkSize,      \* values per container: 2^16
    ArrayMax,       \* DEFAULT_MAX_SIZE: 4096
    BitsetBytes     \* size of a bit set: 8192

ASSUME ContainerSizes ==
    /\ ChunkSize \in Nat \ {0} /\ ArrayMax \in Nat
    /\ ArrayMax < ChunkSize

Low == 0..(ChunkSize - 1)

-----------------------------------------------------------------------------
\* Containers.

ArrayOf(S) == [kind |-> "array", values |-> S]
BitsetOf(S) == [kind |-> "bitset", values |-> S]
RunsOf(runs) == [kind |-> "run", runs |-> runs]

RunValues(r) == r.value..(r.value + r.length)
ValuesOf(c) ==
    IF c.kind = "run" THEN UNION {RunValues(c.runs[i]) : i \in DOMAIN c.runs}
    ELSE c.values

\* The runs of a set of values, in order: the i-th is the one whose start has
\* i - 1 starts before it.
StartsOf(S) == {v \in S : v - 1 \notin S}
EndOf(S, v) == CHOOSE w \in S : w >= v /\ v..w \subseteq S /\ w + 1 \notin S
NthStart(S, i) ==
    CHOOSE v \in StartsOf(S) : Cardinality({u \in StartsOf(S) : u < v}) = i - 1
RunsIn(S) ==
    [i \in 1..Cardinality(StartsOf(S)) |->
        [value |-> NthStart(S, i), length |-> EndOf(S, NthStart(S, i)) - NthStart(S, i)]]

ArrayBytes(n) == 2 * n + 2
RunBytes(n) == 4 * n + 2

\* interleavedBinarySearch: the run that starts at v or before it, 0 if none.
Preceding(runs, v) == Cardinality({i \in DOMAIN runs : runs[i].value <= v})

\* run_container_add.
\* Mutant: adjacent runs are not joined.
RunAddUnjoined(runs, v) ==
    LET i == Preceding(runs, v) IN
    IF i > 0 /\ v \in RunValues(runs[i]) THEN runs
    ELSE InsertAt(runs, i + 1, [value |-> v, length |-> 0])
RunAdd(runs, v) ==
    LET i == Preceding(runs, v)
        before == i > 0 /\ runs[i].value + runs[i].length + 1 = v
        after == i < Len(runs) /\ runs[i + 1].value = v + 1
    IN
    IF i > 0 /\ v \in RunValues(runs[i]) THEN runs
    ELSE IF before /\ after
    THEN RemoveAt([runs EXCEPT ![i].length =
                     runs[i + 1].value + runs[i + 1].length - runs[i].value], i + 1)
    ELSE IF before THEN [runs EXCEPT ![i].length = @ + 1]
    ELSE IF after THEN [runs EXCEPT ![i + 1] = [value |-> v, length |-> @.length + 1]]
    ELSE InsertAt(runs, i + 1, [value |-> v, length |-> 0])

\* run_container_remove.
RunRemove(runs, v) ==
    LET i == Preceding(runs, v)
        r == runs[i]
        offset == v - r.value
    IN
    IF i = 0 \/ offset > r.length THEN runs
    ELSE IF r.length = 0 THEN RemoveAt(runs, i)
    ELSE IF offset = 0 THEN [runs EXCEPT ![i] = [value |-> v + 1, length |-> r.length - 1]]
    ELSE IF offset = r.length THEN [runs EXCEPT ![i].length = @ - 1]
    ELSE InsertAt([runs EXCEPT ![i].length = offset - 1], i + 1,
                  [value |-> v + 1, length |-> r.length - offset - 1])

\* array_container_try_add refuses a value beyond ArrayMax: container_add then
\* makes a bit set.
ContainerAdd(c, v) ==
    CASE c.kind = "bitset" -> BitsetOf(c.values \cup {v})
      [] c.kind = "array" ->
            IF v \in c.values \/ Cardinality(c.values) < ArrayMax
            THEN ArrayOf(c.values \cup {v}) ELSE BitsetOf(c.values \cup {v})
      [] c.kind = "run" -> RunsOf(RunAdd(c.runs, v))

\* A bit set that became small is an array again; runs stay runs.
\* Mutant: the size is tested before the removal.
ContainerRemoveLate(c, v) ==
    CASE c.kind = "bitset" ->
            IF Cardinality(c.values) <= ArrayMax
            THEN ArrayOf(c.values \ {v}) ELSE BitsetOf(c.values \ {v})
      [] c.kind = "array" -> ArrayOf(c.values \ {v})
      [] c.kind = "run" -> RunsOf(RunRemove(c.runs, v))
ContainerRemove(c, v) ==
    CASE c.kind = "bitset" ->
            IF v \in c.values /\ Cardinality(c.values) - 1 <= ArrayMax
            THEN ArrayOf(c.values \ {v}) ELSE BitsetOf(c.values \ {v})
      [] c.kind = "array" -> ArrayOf(c.values \ {v})
      [] c.kind = "run" -> RunsOf(RunRemove(c.runs, v))

\* container_range_of_ones for the values of lo..hi: the library counts one
\* value too many when it chooses, so two values are runs already.
RangeOfOnes(lo, hi) ==
    IF hi - lo + 2 <= 2 THEN ArrayOf(lo..hi)
    ELSE RunsOf(<<[value |-> lo, length |-> hi - lo]>>)

\* Runs stay runs unless another kind is smaller.
EfficientRuns(runs) ==
    LET S == ValuesOf(RunsOf(runs))
        n == Cardinality(S)
    IN
    IF RunBytes(Len(runs)) <= ArrayBytes(n) /\ RunBytes(Len(runs)) <= BitsetBytes
    THEN RunsOf(runs)
    ELSE IF n <= ArrayMax THEN ArrayOf(S) ELSE BitsetOf(S)

\* The kind of an intersection of bit sets.
Packed(S) == IF Cardinality(S) > ArrayMax THEN BitsetOf(S) ELSE ArrayOf(S)

IsFull(c) == c.kind = "run" /\ c.runs = <<[value |-> 0, length |-> ChunkSize - 1]>>
RunBitsetAnd(r, c) ==
    LET S == ValuesOf(r) \cap c.values IN
    IF IsFull(r) THEN c
    ELSE IF Cardinality(ValuesOf(r)) <= ArrayMax THEN ArrayOf(S) ELSE Packed(S)

ContainerAnd(c, d) ==
    LET S == ValuesOf(c) \cap ValuesOf(d)
        kinds == {c.kind, d.kind}
    IN
    CASE "array" \in kinds -> ArrayOf(S)
      [] kinds = {"bitset"} -> Packed(S)
      [] kinds = {"run"} -> EfficientRuns(RunsIn(S))
      [] kinds = {"bitset", "run"} ->
            IF c.kind = "run" THEN RunBitsetAnd(c, d) ELSE RunBitsetAnd(d, c)

\* convert_run_optimize.
RunOptimize(c) ==
    LET runs == RunsIn(ValuesOf(c)) IN
    CASE c.kind = "run" -> EfficientRuns(c.runs)
      [] c.kind = "array" ->
            IF RunBytes(Len(runs)) < ArrayBytes(Cardinality(c.values)) THEN RunsOf(runs) ELSE c
      [] c.kind = "bitset" ->
            IF RunBytes(Len(runs)) < BitsetBytes THEN RunsOf(runs) ELSE c

-----------------------------------------------------------------------------
\* Bitmaps: functions from the keys in use to containers.

EmptyBitmap == [k \in {} |-> ArrayOf({})]
Elements(b) == UNION {{k * ChunkSize + v : v \in ValuesOf(b[k])} : k \in DOMAIN b}

SetContainer(b, k, c) == [j \in DOMAIN b \cup {k} |-> IF j = k THEN c ELSE b[j]]
Without(b, k) == [j \in DOMAIN b \ {k} |-> b[j]]

BitmapAdd(b, x) ==
    LET k == x \div ChunkSize
        c == IF k \in DOMAIN b THEN b[k] ELSE ArrayOf({})
    IN SetContainer(b, k, ContainerAdd(c, x % ChunkSize))

\* An empty container is dropped.
BitmapRemove(b, x) ==
    LET k == x \div ChunkSize IN
    IF k \notin DOMAIN b THEN b
    ELSE LET c == ContainerRemove(b[k], x % ChunkSize) IN
         IF ValuesOf(c) = {} THEN Without(b, k) ELSE SetContainer(b, k, c)

\* addRange(lo, end) of an empty bitmap: nothing when end is not above lo, the
\* closed range up to end - 1 otherwise.
RangeBitmap(lo, end) ==
    LET hi == end - 1
        first == lo \div ChunkSize
        last == hi \div ChunkSize
        From(k) == IF k = first THEN lo % ChunkSize ELSE 0
        To(k) == IF k = last THEN hi % ChunkSize ELSE ChunkSize - 1
    IN IF end <= lo THEN EmptyBitmap
       ELSE [k \in first..last |-> RangeOfOnes(From(k), To(k))]

BitmapAnd(b, d) ==
    LET both == DOMAIN b \cap DOMAIN d
        And(k) == ContainerAnd(b[k], d[k])
    IN [k \in {j \in both : ValuesOf(And(j)) # {}} |-> And(k)]

BitmapRunOptimize(b) == [k \in DOMAIN b |-> RunOptimize(b[k])]

-----------------------------------------------------------------------------
\* roaring_bitmap_internal_validate and the validators of the three kinds.

RunsValid(runs) ==
    /\ runs # << >>
    /\ \A i \in DOMAIN runs : runs[i].value + runs[i].length < ChunkSize
    /\ \A i \in 1..(Len(runs) - 1) :
          runs[i + 1].value > runs[i].value + runs[i].length + 1

ContainerValid(c) ==
    CASE c.kind = "array" -> c.values # {} /\ Cardinality(c.values) <= ArrayMax
      [] c.kind = "bitset" -> Cardinality(c.values) > ArrayMax
      [] c.kind = "run" -> RunsValid(c.runs)

BitmapValid(b) ==
    \A k \in DOMAIN b : ContainerValid(b[k]) /\ ValuesOf(b[k]) \subseteq Low
=============================================================================
