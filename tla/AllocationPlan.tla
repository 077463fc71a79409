---------------------------- MODULE AllocationPlan ----------------------------
(***************************************************************************)
(* One planning round of the center's cacheReplacementLoop: the blocks     *)
(* with an access history are scored for every registered edge node        *)
(* (calculateQCCVs, one thread-pool task per block), the best node of each *)
(* block enters a priority queue (buildPriorityQueue) and                  *)
(* generateAllocationPlan pops the queue until it is empty or every node   *)
(* is full.  Edge servers register at any moment of the round.             *)
(*                                                                         *)
(* Abstracted: how a QCCV is computed from access counts and network       *)
(* metrics.  A score is any member of Values.  With a bandwidth of zero,   *)
(* which a failed measurement leaves behind, the division yields NaN, so   *)
(* NaN is one of the scores: it compares as smaller than nothing, and a    *)
(* heap it has entered is no longer ordered.  The delivery of the plan     *)
(* (executeCacheReplacement) is module CacheReplacement.                   *)
(***************************************************************************)
EXTENDS Integers, Sequences, FiniteSets

CONSTANTS
    Blocks,        \* block keys "stream_id:block_id"
    Nodes,         \* addresses of edge servers
    Values,        \* the ordinary (ordered) QCCV values
    NaN,           \* the score of a division 0/0 or inf - inf
    Capacity,      \* total_capacity: blocks an edge server may cache
    MaxAddresses   \* bound: registrations explored

ASSUME BlocksFinite == IsFiniteSet(Blocks)
ASSUME NodesFinite == IsFiniteSet(Nodes)
ASSUME ValuesAreNumbers == Values \subseteq Int
ASSUME NaNIsNoNumber == NaN \notin Int
ASSUME CapacityIsNat == Capacity \in Nat
ASSUME BoundIsNat == MaxAddresses \in Nat

Scores == Values \cup {NaN}

VARIABLES
    addresses,     \* edge_server_addresses_: a vector, one entry per Register
    history,       \* the keys of historical_stats_
    pc,            \* where the replacement thread is
    tasks,         \* blocks whose QCCV task has not run yet
    evaluated,     \* nodes each block was scored for in this round
    qccv,          \* node_qccv_values, per block
    candidates,    \* block_candidates_: nodes still open to each block
    queue,         \* priority_queue_: <<block, node>>, ordered by qccv
    unordered,     \* a NaN has entered the heap of this round
    plan,          \* new_allocation_plan
    used,          \* used_node_capacities
    fullNodes      \* full_nodes; full_nodes_num is its size

vars == <<addresses, history, pc, tasks, evaluated, qccv, candidates, queue,
          unordered, plan, used, fullNodes>>

scoring == <<tasks, evaluated, qccv>>
placing == <<plan, used, fullNodes>>

-----------------------------------------------------------------------------
Registered == {addresses[i] : i \in 1..Len(addresses)}

\* operator< on doubles: false as soon as one side is NaN.
Less(x, y) == x # NaN /\ y # NaN /\ x < y

\* std::max_element over the candidates of b, in any vector order.
\* Mutant: the first candidate of the vector is taken.
AnyCandidate(b, open) == open
Best(b, open) == {n \in open : \A m \in open : ~Less(qccv[b][n], qccv[b][m])}

Score(e) == qccv[e[1]][e[2]]

\* The element priority_queue_.top() may return: one of the largest, ties
\* broken by strings; any element when NaN has broken the heap order.
Top == {e \in queue : unordered \/ \A d \in queue : ~Less(Score(e), Score(d))}

-----------------------------------------------------------------------------
Init ==
    /\ addresses = << >>
    /\ history = {}
    /\ pc = "idle"
    /\ tasks = {}
    /\ evaluated = [b \in Blocks |-> {}]
    /\ qccv = [b \in Blocks |-> [n \in Nodes |-> NaN]]
    /\ candidates = [b \in Blocks |-> {}]
    /\ queue = {}
    /\ unordered = FALSE
    /\ plan = [n \in Nodes |-> {}]
    /\ used = [n \in Nodes |-> 0]
    /\ fullNodes = {}

\* Register: the address is appended, whether or not it is already there.
Register(n) ==
    /\ Len(addresses) < MaxAddresses
    /\ addresses' = Append(addresses, n)
    /\ UNCHANGED <<history, pc, candidates, queue, unordered, scoring, placing>>

\* collectPeriodStats and updateAccessHistory: the blocks accessed in the
\* period join the history, which no key ever leaves; calculateQCCVs then
\* clears the queue and submits one task per block of the history.
StartRound(accessed) ==
    /\ pc = "idle"
    /\ history' = history \cup accessed
    /\ tasks' = history'
    /\ evaluated' = [b \in Blocks |-> {}]
    /\ qccv' = [b \in Blocks |-> [n \in Nodes |-> NaN]]
    /\ candidates' = [b \in Blocks |-> {}]
    /\ queue' = {}
    /\ unordered' = FALSE
    /\ pc' = "scoring"
    /\ UNCHANGED <<addresses, placing>>

\* processQCCVTask on a worker thread: every address is scored, the complete
\* candidate list replaces the block's entry.
ProcessQCCVTask(b) ==
    /\ pc = "scoring"
    /\ b \in tasks
    /\ \E values \in [Registered -> Scores] :
          qccv' = [qccv EXCEPT ![b] =
                     [n \in Nodes |-> IF n \in Registered THEN values[n] ELSE NaN]]
    /\ evaluated' = [evaluated EXCEPT ![b] = Registered]
    /\ candidates' = [candidates EXCEPT ![b] = Registered]
    /\ tasks' = tasks \ {b}
    /\ UNCHANGED <<addresses, history, pc, queue, unordered, placing>>

\* generateAllocationPlan starts from an empty plan and zeroed counters.
\* Mutant: the counters survive from the round before.
StartPlanKeepingCounters ==
    /\ plan' = [n \in Nodes |-> {}]
    /\ fullNodes' = {}
    /\ UNCHANGED used
StartPlan ==
    /\ plan' = [n \in Nodes |-> {}]
    /\ used' = [n \in Nodes |-> 0]
    /\ fullNodes' = {}

\* buildPriorityQueue once all futures are ready: addNextBestCandidate for
\* every block; then the placement loop starts.
BuildPriorityQueue ==
    /\ pc = "scoring"
    /\ tasks = {}
    /\ LET open == {b \in Blocks : candidates[b] # {}} IN
       \E choice \in [open -> Nodes] :
          /\ \A b \in open : choice[b] \in Best(b, candidates[b])
          /\ queue' = {<<b, choice[b]>> : b \in open}
          /\ unordered' = (\E b \in open : qccv[b][choice[b]] = NaN)
    /\ StartPlan
    /\ pc' = "placing"
    /\ UNCHANGED <<addresses, history, candidates, scoring>>

\* The pop of getTopPlacementChoice also strikes the node off the block's
\* candidates.  Mutant: the candidate list is left alone.
RemainingUnstruck(b, n) == candidates[b]
Remaining(b, n) == candidates[b] \ {n}

\* Mutant: an off-by-one in the capacity test.
FitsOneMore(n) == used[n] <= Capacity
Fits(n) == used[n] + 1 <= Capacity

\* The loop's exit test, full_nodes_num >= edge_server_addresses_.size().
\* Mutant: leave as soon as some node is full.
AnyNodeFull == fullNodes # {}
AllNodesFull == Cardinality(fullNodes) >= Len(addresses)

\* The popped choice fits: it becomes part of the plan.
\* Mutant: the block's next best node is queued after a success as well.
PlaceAndRequeue(b, n) ==
    /\ pc = "placing"
    /\ <<b, n>> \in Top
    /\ ~AllNodesFull
    /\ Fits(n)
    /\ plan' = [plan EXCEPT ![n] = @ \cup {b}]
    /\ used' = [used EXCEPT ![n] = @ + 1]
    /\ candidates' = [candidates EXCEPT ![b] = Remaining(b, n)]
    /\ queue' = (queue \ {<<b, n>>}) \cup ({b} \X Remaining(b, n))
    /\ UNCHANGED <<addresses, history, pc, unordered, fullNodes, scoring>>
Place(b, n) ==
    /\ pc = "placing"
    /\ <<b, n>> \in Top
    /\ ~AllNodesFull
    /\ Fits(n)
    /\ plan' = [plan EXCEPT ![n] = @ \cup {b}]
    /\ used' = [used EXCEPT ![n] = @ + 1]
    /\ queue' = queue \ {<<b, n>>}
    /\ candidates' = [candidates EXCEPT ![b] = Remaining(b, n)]
    /\ UNCHANGED <<addresses, history, pc, unordered, fullNodes, scoring>>

\* The popped choice does not fit: the block's next best node is queued.
Reject(b, n) ==
    /\ pc = "placing"
    /\ <<b, n>> \in Top
    /\ ~AllNodesFull
    /\ ~Fits(n)
    /\ candidates' = [candidates EXCEPT ![b] = Remaining(b, n)]
    /\ \/ /\ Remaining(b, n) = {}
          /\ queue' = queue \ {<<b, n>>}
          /\ UNCHANGED unordered
       \/ \E m \in Best(b, Remaining(b, n)) :
             /\ queue' = (queue \ {<<b, n>>}) \cup {<<b, m>>}
             /\ unordered' = (unordered \/ qccv[b][m] = NaN)
    /\ fullNodes' = fullNodes \cup {n}
    /\ UNCHANGED <<addresses, history, pc, plan, used, scoring>>

\* The loop is left when as many nodes are full as there are addresses; the
\* choice popped for the test is dropped.
StopAllFull(b, n) ==
    /\ pc = "placing"
    /\ <<b, n>> \in Top
    /\ AllNodesFull
    /\ queue' = queue \ {<<b, n>>}
    /\ candidates' = [candidates EXCEPT ![b] = Remaining(b, n)]
    /\ pc' = "idle"
    /\ UNCHANGED <<addresses, history, unordered, scoring, placing>>

StopQueueEmpty ==
    /\ pc = "placing"
    /\ queue = {}
    /\ pc' = "idle"
    /\ UNCHANGED <<addresses, history, candidates, queue, unordered, scoring, placing>>

Pop(b, n) == Place(b, n) \/ Reject(b, n) \/ StopAllFull(b, n)

PlanningStep ==
    \/ \E b \in Blocks : ProcessQCCVTask(b)
    \/ BuildPriorityQueue
    \/ \E b \in Blocks, n \in Nodes : Pop(b, n)
    \/ StopQueueEmpty

Next ==
    \/ \E n \in Nodes : Register(n)
    \/ \E accessed \in SUBSET Blocks : StartRound(accessed)
    \/ PlanningStep

Spec == Init /\ [][Next]_vars

\* The replacement thread and the pool's workers keep running; nobody has to
\* register and no access has to be reported.
FairSpec == Spec /\ WF_vars(PlanningStep)

-----------------------------------------------------------------------------
TypeOK ==
    /\ addresses \in Seq(Nodes)
    /\ history \subseteq Blocks
    /\ pc \in {"idle", "scoring", "placing"}
    /\ tasks \subseteq history
    /\ evaluated \in [Blocks -> SUBSET Nodes]
    /\ qccv \in [Blocks -> [Nodes -> Scores]]
    /\ candidates \in [Blocks -> SUBSET Nodes]
    /\ queue \subseteq Blocks \X Nodes
    /\ unordered \in BOOLEAN
    /\ plan \in [Nodes -> SUBSET Blocks]
    /\ used \in [Nodes -> 0..Capacity]
    /\ fullNodes \subseteq Nodes

\* The counter generateAllocationPlan compares with the capacity is the number
\* of blocks the plan really gives the node, and never exceeds the capacity.
CapacityRespected ==
    \A n \in Nodes : used[n] = Cardinality(plan[n]) /\ used[n] <= Capacity

\* However often a block is pushed back for its next best node, the plan of a
\* round caches it at one node at most: the cluster's capacity is not spent on
\* copies.
SinglePlacement ==
    \A m, n \in Nodes : m # n => plan[m] \cap plan[n] = {}

Placed(b) == \E n \in Nodes : b \in plan[n]
Queued(b) == \E n \in Nodes : <<b, n>> \in queue
IsFull(n) == Cardinality(plan[n]) = Capacity

\* A round never drops a block that could still be cached: while placing, a
\* block of the history that is neither placed nor queued, and at the end of
\* the round one that is not placed, has found every node it was scored for
\* full, also when nodes registered twice or joined during the round.
NoBlockLost ==
    /\ pc = "placing" =>
         \A b \in history : Placed(b) \/ Queued(b) \/ \A n \in evaluated[b] : IsFull(n)
    /\ pc = "idle" =>
         \A b \in history : Placed(b) \/ \A n \in evaluated[b] : IsFull(n)

\* Greedy placement is stable: when a block ends at a node worse than n, or at
\* none, then n is full of blocks that are worth at least as much there.  Only
\* a NaN score, which breaks the order of the heap, may void this.
Settled(b) == pc = "idle" \/ (pc = "placing" /\ ~Queued(b))
EnvyFree(b) ==
    \A n \in evaluated[b] :
       \/ \E m \in Nodes : b \in plan[m] /\ ~Less(qccv[b][m], qccv[b][n])
       \/ IsFull(n) /\ \A c \in plan[n] : ~Less(qccv[c][n], qccv[b][n])
NoEnvy == ~unordered => \A b \in history : Settled(b) => EnvyFree(b)

\* Every planning round comes to an end, whatever the scores: each pop strikes
\* a candidate off, and no block is queued without a candidate.
RoundEnds == pc # "idle" ~> pc = "idle"
=============================================================================
