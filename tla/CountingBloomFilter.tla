-------------------------- MODULE CountingBloomFilter --------------------------
(***************************************************************************)
(* The counting Bloom filter an edge server keeps about a near node, as    *)
(* operators on a filter: Add, Remove and KeyMayMatch.  The index gives it *)
(* whatever ADD and REMOVE operations the node pushes (module CacheIndex), *)
(* and because a push may be lost and a block may be added twice (module   *)
(* CacheReplacement), keys are removed that the filter does not have, and  *)
(* counters can reach their maximum.                                       *)
(* Abstracted: MurmurHash.  Hash[k] is the pair of 32-bit words the double *)
(* hashing starts from.                                                    *)
(***************************************************************************)
EXTENDS Integers, FiniteSets

CONSTANTS
    Hash,           \* Hash[k]: <<h, delta>> of a key "stream_id:block_id"
    HashModulus,    \* 2^32
    Slots,          \* length of filter_data_; a counter has a byte
    ProbeCount,     \* k_
    CounterMax,     \* max_counter_value_, 255: a counter is % (CounterMax + 1)
    SizeModulus,    \* 2^64: insert_num_ is a size_t
    Expected        \* expect_num_

\* One expected key takes ten counters already, at a false positive rate of 1%.
ASSUME SizesArePositive ==
    /\ Slots \in Nat /\ Slots >= 2 /\ ProbeCount \in Nat \ {0}
    /\ CounterMax \in Nat \ {0} /\ HashModulus \in Nat \ {0}
    /\ Expected \in Nat /\ SizeModulus \in Nat /\ SizeModulus > 2 * Expected

-----------------------------------------------------------------------------
EmptyFilter == [counters |-> [s \in 0..(Slots - 1) |-> 0], inserted |-> 0]

\* The slots of a key, in order; h += delta wraps, and a slot may come twice.
Probes(k) ==
    [j \in 1..ProbeCount |-> ((Hash[k][1] + (j - 1) * Hash[k][2]) % HashModulus) % Slots]
Hits(k, s) == Cardinality({j \in 1..ProbeCount : Probes(k)[j] = s})

\* Add probes in order, up to a counter that is full: the probes before it stay
\* counted.  Probes that came earlier to the same slot have raised its counter.
Earlier(k, j) == Cardinality({i \in 1..(j - 1) : Probes(k)[i] = Probes(k)[j]})
MeetsFull(f, k, j) == f.counters[Probes(k)[j]] + Earlier(k, j) >= CounterMax
Counted(f, k) == {j \in 1..ProbeCount : \A i \in 1..j : ~MeetsFull(f, k, i)}

\* Mutant: a full counter starts again at zero.
IncrementWrapping(f, k) ==
    [values |-> [s \in 0..(Slots - 1) |-> (f.counters[s] + Hits(k, s)) % (CounterMax + 1)],
     ok |-> TRUE]
\* Mutant: a slot that occurs twice is counted once.
IncrementOnce(f, k) ==
    [values |-> [s \in 0..(Slots - 1) |->
                   IF Hits(k, s) > 0 /\ f.counters[s] < CounterMax
                   THEN f.counters[s] + 1 ELSE f.counters[s]],
     ok |-> TRUE]
Increment(f, k) ==
    [values |-> [s \in 0..(Slots - 1) |->
                   f.counters[s] + Cardinality({j \in Counted(f, k) : Probes(k)[j] = s})],
     ok |-> Counted(f, k) = 1..ProbeCount]

\* Add answers FALSE when a counter is full or too many keys were inserted; the
\* index ignores the answer.
AddKey(f, k) ==
    LET after == Increment(f, k)
        count == IF after.ok THEN (f.inserted + 1) % SizeModulus ELSE f.inserted
    IN [filter |-> [counters |-> after.values, inserted |-> count],
        counted |-> after.ok,
        result |-> after.ok /\ count <= 2 * Expected]

\* Every probe is decremented.  The counter is unsigned, so the test for a
\* negative value and the assertion behind it never see one.
\* Mutant: the counter does not wrap.
DecrementUnwrapped(f, k) == [s \in 0..(Slots - 1) |-> f.counters[s] - Hits(k, s)]
Decrement(f, k) ==
    [s \in 0..(Slots - 1) |-> (f.counters[s] - Hits(k, s)) % (CounterMax + 1)]

RemoveKey(f, k) ==
    [counters |-> Decrement(f, k), inserted |-> (f.inserted - 1) % SizeModulus]

KeyMayMatch(f, k) == Slots >= 2 /\ \A j \in 1..ProbeCount : f.counters[Probes(k)[j]] # 0
=============================================================================
