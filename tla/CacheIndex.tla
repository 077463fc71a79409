------------------------------ MODULE CacheIndex ------------------------------
(***************************************************************************)
(* EdgeCacheIndex: what an edge server knows of the blocks its neighbours  *)
(* hold.  Each neighbour gets an index of its own with the first block it  *)
(* pushes: a MixIndex, one Roaring bitmap per stream, when the neighbour   *)
(* is far (its latency is at the threshold or above), a counting Bloom     *)
(* filter when it is near.  Pushes arrive in any order, repeated or with   *)
(* removals of blocks never added.  A query finds the nearest holder of a  *)
(* block by a walk over all indexes.                                       *)
(* Abstracted: latencies are a small set of values; one operation is one   *)
(* step (overlapping queries are the subject of EdgeQuery).                *)
(***************************************************************************)
EXTENDS BlockIds, Roaring, CountingBloomFilter

CONSTANTS
    Neighbors,
    Center,         \* center_addr_
    Streams,
    Latencies,      \* what setNodeLatency is called with: a double, here a
                    \* number of parts of a millisecond
    PartsPerMs,
    Threshold,      \* config_latency_threshold_ms_
    Pushed,         \* Pushed[n][kind]: the <<stream, block>> n pushes, by the
                    \* kind its index has
    MaxCopies       \* bound: additions of a block minus removals, in a filter,
                    \* where one removal may come too early;
                    \* a filter that overflowed is not followed further

ASSUME NeighborsAreNodes == IsFiniteSet(Neighbors) /\ Center \notin Neighbors

Keys == Streams \X Ids
Unmeasured == -1    \* getNodeLatency without an entry

ASSUME LatenciesAreNat ==
    /\ Latencies \subseteq Nat /\ Threshold \in Nat
    /\ PartsPerMs \in Nat \ {0} /\ MaxCopies \in Nat \ {0}
ASSUME KeysAreHashed ==
    /\ IsFiniteSet(Streams)
    /\ \A k \in Keys : Hash[k] \in (0..(HashModulus - 1)) \X (0..(HashModulus - 1))
ASSUME PushedAreKeys ==
    Neighbors \subseteq DOMAIN Pushed /\ Pushed \in [DOMAIN Pushed -> [{"mix", "bloom"} -> SUBSET Keys]]

VARIABLES
    latency,        \* node_latencies_; Unmeasured: no entry
    index,          \* timeseries_main_index_ and index_type_
    measured,       \* history: neighbours whose latency was really set
    told,           \* history: per neighbour and key, what it told since it has
                    \* an index: 1 or 0 for a bitmap, the balance for a filter
    overflowed      \* history: filters that met a full counter

vars == <<latency, index, measured, told, overflowed>>

NoIndex == [type |-> "none"]

-----------------------------------------------------------------------------
Init ==
    /\ latency = [n \in Neighbors |-> Unmeasured]
    /\ index = [n \in Neighbors |-> NoIndex]
    /\ measured = {}
    /\ told = [n \in Neighbors |-> [k \in Keys |-> 0]]
    /\ overflowed = {}

\* createIndex reads node_latencies_[n], which makes an entry of 0 for a
\* neighbour that has none.
EntryOf(n) == IF latency[n] = Unmeasured THEN 0 ELSE latency[n]
KindFor(l) == IF l >= Threshold * PartsPerMs THEN "mix" ELSE "bloom"
CreateIndex(l) ==
    IF KindFor(l) = "mix"
    THEN [type |-> "mix", bitmaps |-> [s \in Streams |-> EmptyBitmap]]
    ELSE [type |-> "bloom", filter |-> EmptyFilter]

\* UpdateClusterNodes, for a node it takes as a neighbour.
SetNodeLatency(n, l) ==
    /\ latency' = [latency EXCEPT ![n] = l]
    /\ measured' = measured \cup {n}
    /\ UNCHANGED <<index, told, overflowed>>

\* An ADD operation of UpdateMetadata.
AddBlock(n, s, b) ==
    LET k == <<s, b>>
        current == IF index[n] = NoIndex THEN CreateIndex(EntryOf(n)) ELSE index[n]
        added == AddKey(current.filter, k)
    IN
    /\ k \in Pushed[n][current.type]
    /\ latency' = [latency EXCEPT ![n] = IF index[n] = NoIndex THEN EntryOf(n) ELSE @]
    /\ \/ /\ current.type = "mix"
          /\ index' = [index EXCEPT ![n] =
                [current EXCEPT !.bitmaps[s] = BitmapAdd(@, b)]]
          /\ told' = [told EXCEPT ![n][k] = 1]
          /\ UNCHANGED overflowed
       \/ /\ current.type = "bloom" /\ told[n][k] < MaxCopies /\ n \notin overflowed
          /\ index' = [index EXCEPT ![n] = [current EXCEPT !.filter = added.filter]]
          /\ told' = [told EXCEPT ![n][k] = @ + 1]
          /\ overflowed' = IF added.counted THEN overflowed ELSE overflowed \cup {n}
    /\ UNCHANGED measured

\* A REMOVE operation; without an index there is nothing to do.
RemoveBlock(n, s, b) ==
    LET k == <<s, b>> IN
    /\ index[n] # NoIndex
    /\ k \in Pushed[n][index[n].type]
    /\ \/ /\ index[n].type = "mix"
          /\ index' = [index EXCEPT ![n].bitmaps[s] = BitmapRemove(@, b)]
          /\ told' = [told EXCEPT ![n][k] = 0]
       \/ /\ index[n].type = "bloom" /\ told[n][k] >= 0 /\ n \notin overflowed
          /\ index' = [index EXCEPT ![n].filter = RemoveKey(@, k)]
          /\ told' = [told EXCEPT ![n][k] = @ - 1]
    /\ UNCHANGED <<latency, measured, overflowed>>

\* compress; Bloom filters stay as they are.
Compress ==
    /\ index' = [n \in Neighbors |->
          IF index[n].type = "mix"
          THEN [index[n] EXCEPT !.bitmaps = [s \in Streams |-> BitmapRunOptimize(@[s])]]
          ELSE index[n]]
    /\ UNCHANGED <<latency, measured, told, overflowed>>

Next ==
    \/ \E n \in Neighbors :
          \/ \E l \in Latencies : SetNodeLatency(n, l)
          \/ \E k \in UNION {Pushed[n][t] : t \in {"mix", "bloom"}} :
                AddBlock(n, k[1], k[2]) \/ RemoveBlock(n, k[1], k[2])
    \/ Compress

Spec == Init /\ [][Next]_vars

-----------------------------------------------------------------------------
\* Queries, for hi < MaxId: the loop of a Bloom filter has no end for MaxId, and
\* a MixIndex adds one to it and finds nothing.

RangeQuery(n, s, lo, hi) ==
    CASE index[n].type = "none" -> {}
      [] index[n].type = "mix" ->
            Elements(BitmapAnd(index[n].bitmaps[s],
                               RangeBitmap(lo, (hi + 1) % IdModulus)))
      [] index[n].type = "bloom" ->
            {b \in lo..hi : KeyMayMatch(index[n].filter, <<s, b>>)}

\* What queryMainIndex makes of a latency: the fraction is cut off.
WholeMs(n) == IF latency[n] = Unmeasured THEN -1 ELSE latency[n] \div PartsPerMs

\* queryMainIndex for one block, the neighbours in the order of the hash map: a
\* neighbour takes a block over from one whose latency is higher.
\* Mutant: the last neighbour that has the block gets it.
TakeOverAlways(found, n, s, b) ==
    IF b \in RangeQuery(n, s, b, b) THEN {n} ELSE found
TakeOver(found, n, s, b) ==
    IF b \in RangeQuery(n, s, b, b) /\ \A m \in found : WholeMs(n) < WholeMs(m)
    THEN {n} ELSE found

Found(order, s, b) ==
    LET found[i \in 0..Len(order)] ==
          IF i = 0 THEN {} ELSE TakeOver(found[i - 1], order[i], s, b)
    IN found[Len(order)]
Orders == SetToSeqs(Neighbors)

\* createQueryTasks: the target of every block.
Target(order, s, b) ==
    LET found == Found(order, s, b) IN
    IF found = {} THEN Center ELSE CHOOSE n \in found : TRUE

-----------------------------------------------------------------------------
TypeOK ==
    /\ latency \in [Neighbors -> Latencies \cup {0, Unmeasured}]
    /\ measured \subseteq Neighbors /\ overflowed \subseteq Neighbors
    /\ told \in [Neighbors -> [Keys -> -1..MaxCopies]]
    /\ \A n \in Neighbors :
          CASE index[n].type = "none" -> index[n] = NoIndex
            [] index[n].type = "mix" ->
                  \A s \in Streams : Elements(index[n].bitmaps[s]) \subseteq Ids
            [] index[n].type = "bloom" ->
                  /\ index[n].filter.counters \in [0..(Slots - 1) -> 0..CounterMax]
                  /\ index[n].filter.inserted \in 0..(SizeModulus - 1)

Mixed == {n \in Neighbors : index[n].type = "mix"}
Filtered == {n \in Neighbors : index[n].type = "bloom" /\ n \notin overflowed}

\* A MixIndex answers every range of blocks exactly, whatever mixture of arrays,
\* bit sets and runs its bitmaps have become, and every container stays one that
\* the library's own validation accepts.
MixIndexExact ==
    \A n \in Mixed, s \in Streams :
       /\ BitmapValid(index[n].bitmaps[s])
       /\ \A lo \in 0..(MaxId - 1) : \A hi \in lo..(MaxId - 1) :
             RangeQuery(n, s, lo, hi) = {b \in lo..hi : told[n][<<s, b>>] = 1}

\* What a neighbour told of the keys of its filter: the copies added and not yet
\* removed, the keys removed before they were added, and the probes of each that
\* hit slot s.
Copies(n) == {c \in Pushed[n]["bloom"] \X (1..MaxCopies) : c[2] <= told[n][c[1]]}
Owed(n) == {k \in Pushed[n]["bloom"] : told[n][k] < 0}
ProbesOfCopies(n, s) == {p \in Copies(n) \X (1..ProbeCount) : Probes(p[1][1])[p[2]] = s}
ProbesOwed(n, s) == {p \in Owed(n) \X (1..ProbeCount) : Probes(p[1])[p[2]] = s}

\* Until a counter has been full, each counter of a filter is the number of
\* probes of the keys it was told of, with their copies, modulo the width of a
\* counter, and insert_num_ their number modulo its own: a removal that comes
\* too early is remembered, not swallowed.
CountersAccount ==
    \A n \in Filtered :
       /\ \A s \in 0..(Slots - 1) :
             index[n].filter.counters[s]
             = (Cardinality(ProbesOfCopies(n, s)) - Cardinality(ProbesOwed(n, s)))
               % (CounterMax + 1)
       /\ index[n].filter.inserted
          = (Cardinality(Copies(n)) - Cardinality(Owed(n))) % SizeModulus

\* A key that was added and not removed is found, whatever other keys came and
\* went, unless a counter overflowed or a key was removed that was not there.
NoFalseNegative ==
    \A n \in Filtered :
       (\A k \in Keys : told[n][k] >= 0) =>
          \A k \in Keys : told[n][k] > 0 => KeyMayMatch(index[n].filter, k)

\* The neighbour a block is asked for at has it as far as its index knows, and
\* no neighbour that has it is nearer by a whole millisecond, among those whose
\* latency was measured.
NearestHolder ==
    \A s \in Streams, b \in 0..(MaxId - 1) :
       LET holders == {n \in Neighbors : b \in RangeQuery(n, s, b, b)} IN
       \A order \in Orders :
          LET target == Target(order, s, b) IN
          IF target = Center THEN holders = {}
          ELSE /\ target \in holders
               /\ \A n \in holders \cap measured :
                     target \in measured => WholeMs(target) <= WholeMs(n)
=============================================================================
