--------------------------- MODULE CacheReplacement ---------------------------
(***************************************************************************)
(* How a new allocation plan reaches the edge servers.  The center's       *)
(* replacement thread (executeCacheReplacement) compares the plan with its *)
(* record of what each node caches and sends one ReplaceCache call per     *)
(* address, one after the other.  An edge server executes the operations   *)
(* of a call in order, each in database transactions of its own, and then  *)
(* pushes them to its neighbours, whose cache index lists what it caches.  *)
(*                                                                         *)
(* Covered: calls that never reach the edge, replies that never reach the  *)
(* center while the handler runs on, operations that fail before or after  *)
(* their local commit, lost pushes, edge restarts (the database survives,  *)
(* the index does not), late and repeated registrations.                   *)
(* Abstracted: a block is all its rows, the center's table never lacks     *)
(* them; the plan is any one that fits and leaves out no block that a node *)
(* has room for (module AllocationPlan places them one by one); the        *)
(* neighbour list an edge receives is the current one (module Membership   *)
(* has the lists that arrive late), and before it the edge has none: the   *)
(* center's address, which it starts with, is gone before it can push;     *)
(* hash collisions of the Bloom filter.                                    *)
(***************************************************************************)
EXTENDS Integers, Sequences, FiniteSets, Functions

CONSTANTS
    Nodes, Blocks,
    Capacity,       \* blocks an edge server may cache
    Near,           \* Near[n]: the nodes n measures as nearer than the center
    Exact,          \* <<m, n>>: m keeps a MixIndex about n, not a Bloom filter
    MaxAddresses, MaxRounds, MaxFaults     \* bounds on what is explored

ASSUME CapacityIsNat == Capacity \in Nat
ASSUME NearIsNodes == Near \in [Nodes -> SUBSET Nodes]
ASSUME ExactIsPairs == Exact \subseteq Nodes \X Nodes
ASSUME BoundsAreNat == {MaxAddresses, MaxRounds, MaxFaults} \subseteq Nat

VARIABLES
    \* center
    addresses,      \* edge_server_addresses_
    alloc,          \* node_block_allocation_map_
    history,        \* keys of historical_stats_, which never leave it
    settled,        \* edge_server_addresses_ when the last round ended: these
                    \* nodes are candidates of every block in the next one
    pc,             \* "idle" between rounds, "executing" within one
    plan,           \* new_allocation_plan; a node without blocks has no entry
    toAdd, toRemove,\* blocks_to_add, blocks_to_remove
    work,           \* addresses the round still has to visit
    current,        \* the ReplaceCache call the center waits for, or 0
    \* edge servers
    notified,       \* nodes that have received UpdateClusterNodes: they know
                    \* the schema and their neighbours
    neighbors,      \* neighbor_addrs_
    stored,         \* copies of each block's rows in the local database
    index,          \* index[m][n][b]: what m's index about n counts for b
    handlers,       \* ReplaceCache handlers that are running
    \* bounds and history
    calls, rounds, faults,
    disturbed,      \* nodes that had a failed call or registered again
    missed          \* <<m, n>>: m has missed an update of n

center ==
    <<addresses, alloc, history, settled, pc, plan, toAdd, toRemove, work, current>>
edges == <<notified, neighbors, stored, index, handlers>>
ghosts == <<calls, rounds, faults, disturbed, missed>>
vars == <<center, edges, ghosts>>

-----------------------------------------------------------------------------
Registered == Range(addresses)
NoBlocks == [b \in Blocks |-> 0]

\* Plans that fit: no node beyond its capacity, no block twice.
Fitting ==
    {p \in [Nodes -> SUBSET Blocks] :
       /\ \A n \in Nodes : Cardinality(p[n]) <= Capacity
       /\ \A m, n \in Nodes : m # n => p[m] \cap p[n] = {}}

\* What generateAllocationPlan can return when blocks h have been accessed so
\* far.  A block goes to one of its candidates, the nodes registered when it is
\* scored; it is left out only if they are all full.
Plans(h) ==
    {p \in Fitting :
       /\ \A n \in Nodes \ Registered : p[n] = {}
       /\ UNION Range(p) \subseteq h
       /\ h \ UNION Range(p) # {} =>
             \A n \in settled : Cardinality(p[n]) = Capacity}

\* calculateIncrementalChanges walks the entries of the plan, so a node the
\* plan gives no block is not compared.
\* Mutants: blocks the node has already are added again; nothing is removed.
AddsAll(p, n) == p[n]
RemovesNothing(p, n) == {}
Adds(p, n) == IF p[n] = {} THEN {} ELSE p[n] \ alloc[n]
Removes(p, n) == IF p[n] = {} THEN {} ELSE alloc[n] \ p[n]

\* MixIndex keeps a set.  The counting filter adds up to 255 and wraps at 0.
IndexAdd(exact, count) ==
    IF exact THEN 1 ELSE IF count < 255 THEN count + 1 ELSE count
\* Mutant: the counter does not wrap.
IndexRemoveUnwrapped(exact, count) == IF exact THEN 0 ELSE count - 1
IndexRemove(exact, count) ==
    IF exact THEN 0 ELSE (count - 1) % 256

\* updateBlockOperations at m for a call of n.
\* Mutant: only the additions are applied.
ApplyAddsOnly(m, n, ops) ==
    [b \in Blocks |->
       IF <<"ADD", b>> \in ops THEN IndexAdd(<<m, n>> \in Exact, index[m][n][b])
       ELSE index[m][n][b]]
Apply(m, n, ops) ==
    [b \in Blocks |->
       IF <<"ADD", b>> \in ops THEN IndexAdd(<<m, n>> \in Exact, index[m][n][b])
       ELSE IF <<"REMOVE", b>> \in ops
            THEN IndexRemove(<<m, n>> \in Exact, index[m][n][b])
            ELSE index[m][n][b]]

\* The blocks m's index lists at n.
Listed(m, n) == {b \in Blocks : index[m][n][b] # 0}

-----------------------------------------------------------------------------
Init ==
    /\ addresses = << >>
    /\ alloc = [n \in Nodes |-> {}]
    /\ history = {} /\ settled = {}
    /\ pc = "idle"
    /\ plan = [n \in Nodes |-> {}]
    /\ toAdd = [n \in Nodes |-> {}]
    /\ toRemove = [n \in Nodes |-> {}]
    /\ work = << >>
    /\ current = 0
    /\ notified = {}
    /\ neighbors = [n \in Nodes |-> {}]
    /\ stored = [n \in Nodes |-> NoBlocks]
    /\ index = [m \in Nodes |-> [n \in Nodes |-> NoBlocks]]
    /\ handlers = {}
    /\ calls = 0 /\ rounds = 0 /\ faults = 0
    /\ disturbed = {}
    /\ missed = {}

-----------------------------------------------------------------------------
\* Registration and restart.

\* Register of a node the center does not know; rounds may be under way, and
\* only those that start later visit it.
Register(n) ==
    /\ n \notin Registered
    /\ Len(addresses) < MaxAddresses
    /\ addresses' = Append(addresses, n)
    /\ UNCHANGED <<alloc, history, settled, pc, plan, toAdd, toRemove, work, current,
                   edges, ghosts>>

\* notifyAllNodes reaches n: UpdateClusterNodes replaces its neighbour list.
UpdateClusterNodes(n) ==
    /\ n \in Registered
    /\ notified' = notified \cup {n}
    /\ neighbors' = [neighbors EXCEPT ![n] = Registered \cap Near[n]]
    /\ UNCHANGED <<stored, index, handlers, center, ghosts>>

\* The center's thread sees the outcome of the call it waits for; outcomes of
\* calls it has given up on go unnoticed.
\* Mutant: an error status leaves the thread waiting.
CallEndsOnSuccess(id, n, ok) ==
    IF id = current /\ ok
    THEN /\ current' = 0
         /\ work' = Tail(work)
         /\ alloc' = [alloc EXCEPT ![n] = (@ \cup toAdd[n]) \ toRemove[n]]
    ELSE UNCHANGED <<current, work, alloc>>
\* Mutant: additions are recorded whatever the status.
CallEndsRecordingAdds(id, n, ok) ==
    IF id = current
    THEN /\ current' = 0
         /\ work' = Tail(work)
         /\ alloc' = IF ok THEN [alloc EXCEPT ![n] = (@ \cup toAdd[n]) \ toRemove[n]]
                           ELSE [alloc EXCEPT ![n] = @ \cup toAdd[n]]
    ELSE UNCHANGED <<current, work, alloc>>
CallEnds(id, n, ok) ==
    IF id = current
    THEN /\ current' = 0
         /\ work' = Tail(work)
         /\ alloc' = IF ok THEN [alloc EXCEPT ![n] = (@ \cup toAdd[n]) \ toRemove[n]]
                           ELSE alloc
    ELSE UNCHANGED <<current, work, alloc>>

\* The edge process stops and starts again: its handlers and its index are
\* gone, its database is not.  Start registers it a second time.
Restart(n) ==
    /\ n \in Registered
    /\ faults < MaxFaults
    /\ Len(addresses) < MaxAddresses
    /\ faults' = faults + 1
    /\ addresses' = Append(addresses, n)
    /\ handlers' = {h \in handlers : h.node # n}
    /\ IF \E h \in handlers : h.node = n /\ h.id = current
       THEN CallEnds(current, n, FALSE)
       ELSE UNCHANGED <<current, work, alloc>>
    /\ index' = [index EXCEPT ![n] = [m \in Nodes |-> NoBlocks]]
    /\ notified' = notified \ {n}
    /\ neighbors' = [neighbors EXCEPT ![n] = {}]
    /\ disturbed' = disturbed \cup {n}
    /\ missed' = missed \cup ({n} \X Nodes)
    /\ UNCHANGED <<history, settled, pc, plan, toAdd, toRemove, stored, calls, rounds>>

-----------------------------------------------------------------------------
\* The replacement thread of the center.

\* updateAccessHistory, generateAllocationPlan and calculateIncrementalChanges;
\* the loop then walks the addresses as they are.
StartRound(h, p) ==
    /\ pc = "idle"
    /\ rounds < MaxRounds
    /\ rounds' = rounds + 1
    /\ history' = h
    /\ plan' = p
    /\ toAdd' = [n \in Nodes |-> Adds(p, n)]
    /\ toRemove' = [n \in Nodes |-> Removes(p, n)]
    /\ work' = addresses
    /\ pc' = "executing"
    /\ UNCHANGED <<addresses, alloc, settled, current, edges, calls, faults,
                   disturbed, missed>>

NothingToDo(n) == toAdd[n] = {} /\ toRemove[n] = {}

SkipNode ==
    /\ pc = "executing" /\ current = 0 /\ work # << >>
    /\ NothingToDo(Head(work))
    /\ work' = Tail(work)
    /\ UNCHANGED <<addresses, alloc, history, settled, pc, plan, toAdd, toRemove,
                   current, edges, ghosts>>

\* executeNodeCacheUpdate: the ReplaceCache call is sent and waited for.
\* Mutant: the blocks to remove are not put into the request.
RequestOfAdds(n) == {"ADD"} \X toAdd[n]
Request(n) == ({"ADD"} \X toAdd[n]) \cup ({"REMOVE"} \X toRemove[n])

Call ==
    /\ pc = "executing" /\ current = 0 /\ work # << >>
    /\ ~NothingToDo(Head(work))
    /\ calls' = calls + 1
    /\ current' = calls + 1
    /\ LET n == Head(work) IN
       /\ handlers' = handlers \cup
            {[id |-> calls + 1, node |-> n, ops |-> Request(n),
              left |-> Request(n), phase |-> "ops", push |-> {}]}
       \* a node registered twice is sent the same request twice
       /\ disturbed' = IF Cardinality({i \in 1..Len(work) : work[i] = n}) > 1
                       THEN disturbed \cup {n} ELSE disturbed
    /\ UNCHANGED <<addresses, alloc, history, settled, pc, plan, toAdd, toRemove,
                   work, notified, neighbors, stored, index, rounds, faults, missed>>

\* The edge cannot be reached: the status is an error, the loop goes on.
CallUnreachable ==
    /\ pc = "executing" /\ current = 0 /\ work # << >>
    /\ ~NothingToDo(Head(work))
    /\ faults < MaxFaults
    /\ faults' = faults + 1
    /\ disturbed' = disturbed \cup {Head(work)}
    /\ work' = Tail(work)
    /\ UNCHANGED <<addresses, alloc, history, settled, pc, plan, toAdd, toRemove,
                   current, edges,
                   calls, rounds, missed>>

\* The connection breaks while the handler runs: the center gives the call up.
ReplyLost ==
    /\ current # 0
    /\ faults < MaxFaults
    /\ faults' = faults + 1
    /\ disturbed' = disturbed \cup {Head(work)}
    /\ CallEnds(current, Head(work), FALSE)
    /\ UNCHANGED <<addresses, history, settled, pc, plan, toAdd, toRemove, edges,
                   calls, rounds, missed>>

FinishRound ==
    /\ pc = "executing" /\ work = << >>
    /\ pc' = "idle"
    /\ settled' = Registered
    /\ UNCHANGED <<addresses, alloc, history, plan, toAdd, toRemove, work, current,
                   edges, ghosts>>

-----------------------------------------------------------------------------
\* The ReplaceCache handler of an edge server.

\* Operations are taken in the order of the request: additions first.
NextOps(h) ==
    LET adds == {op \in h.left : op[1] = "ADD"} IN
    IF adds # {} THEN adds ELSE h.left

\* addDataBlock inserts the block's rows once more, removeDataBlock deletes
\* every row in the block's time range.
Effect(op, copies) == IF op[1] = "ADD" THEN copies + 1 ELSE 0

DoOp(h) ==
    /\ h \in handlers /\ h.phase = "ops" /\ h.left # {}
    /\ h.node \in notified
    /\ \E op \in NextOps(h) :
          /\ stored' = [stored EXCEPT ![h.node][op[2]] = Effect(op, @)]
          /\ handlers' = (handlers \ {h}) \cup {[h EXCEPT !.left = @ \ {op}]}
    /\ UNCHANGED <<notified, neighbors, index, center, ghosts>>

\* An operation throws: the handler returns INTERNAL and pushes nothing, also
\* for the operations already done.
HandlerFails(h) ==
    /\ handlers' = handlers \ {h}
    /\ CallEnds(h.id, h.node, FALSE)
    /\ disturbed' = disturbed \cup {h.node}
    /\ UNCHANGED <<addresses, history, settled, pc, plan, toAdd, toRemove,
                   notified, neighbors,
                   index, calls, rounds, missed>>

\* The stream of the block is not known yet.
FailUnknownStream(h) ==
    /\ h \in handlers /\ h.phase = "ops" /\ h.left # {}
    /\ h.node \notin notified
    /\ HandlerFails(h)
    /\ UNCHANGED <<stored, faults>>

\* The database reports an error, before the local commit or after it.
FailOp(h) ==
    /\ h \in handlers /\ h.phase = "ops" /\ h.left # {}
    /\ faults < MaxFaults
    /\ faults' = faults + 1
    /\ HandlerFails(h)
    /\ \/ UNCHANGED stored
       \/ \E op \in NextOps(h) :
             stored' = [stored EXCEPT ![h.node][op[2]] = Effect(op, @)]

StartPush(h) ==
    /\ h \in handlers /\ h.phase = "ops" /\ h.left = {}
    /\ handlers' = (handlers \ {h}) \cup
         {[h EXCEPT !.phase = "push", !.push = neighbors[h.node]]}
    /\ missed' = missed \cup ((Nodes \ neighbors[h.node]) \X {h.node})
    /\ UNCHANGED <<notified, neighbors, stored, index, center, calls, rounds,
                   faults, disturbed>>

\* PushMetadataUpdate and, at the neighbour, UpdateMetadata.
Push(h, m) ==
    /\ h \in handlers /\ h.phase = "push" /\ m \in h.push
    /\ index' = [index EXCEPT ![m][h.node] = Apply(m, h.node, h.ops)]
    /\ handlers' = (handlers \ {h}) \cup {[h EXCEPT !.push = @ \ {m}]}
    /\ UNCHANGED <<notified, neighbors, stored, center, ghosts>>

\* A push that fails is logged and forgotten.
PushLost(h, m) ==
    /\ h \in handlers /\ h.phase = "push" /\ m \in h.push
    /\ faults < MaxFaults
    /\ faults' = faults + 1
    /\ missed' = missed \cup {<<m, h.node>>}
    /\ handlers' = (handlers \ {h}) \cup {[h EXCEPT !.push = @ \ {m}]}
    /\ UNCHANGED <<notified, neighbors, stored, index, center, calls, rounds, disturbed>>

Return(h) ==
    /\ h \in handlers /\ h.phase = "push" /\ h.push = {}
    /\ handlers' = handlers \ {h}
    /\ CallEnds(h.id, h.node, TRUE)
    /\ UNCHANGED <<addresses, history, settled, pc, plan, toAdd, toRemove,
                   notified, neighbors,
                   stored, index, ghosts>>

-----------------------------------------------------------------------------
CenterStep ==
    \/ \E h \in SUBSET Blocks :
          history \subseteq h /\ \E p \in Plans(h) : StartRound(h, p)
    \/ SkipNode \/ Call \/ FinishRound
HandlerStep ==
    \E h \in handlers :
       \/ DoOp(h) \/ FailUnknownStream(h) \/ StartPush(h) \/ Return(h)
       \/ \E m \in Nodes : Push(h, m)
Fault ==
    \/ \E n \in Nodes : Restart(n)
    \/ CallUnreachable \/ ReplyLost
    \/ \E h \in handlers : FailOp(h) \/ \E m \in Nodes : PushLost(h, m)

Next ==
    \/ \E n \in Nodes : Register(n) \/ UpdateClusterNodes(n)
    \/ CenterStep \/ HandlerStep \/ Fault

Spec == Init /\ [][Next]_vars

\* The replacement thread keeps going and started handlers are executed;
\* registrations, notifications and faults need not happen.
FairSpec == Spec /\ WF_vars(CenterStep) /\ WF_vars(HandlerStep)

-----------------------------------------------------------------------------
Handler ==
    [id : Nat \ {0}, node : Nodes, ops : SUBSET ({"ADD", "REMOVE"} \X Blocks),
     left : SUBSET ({"ADD", "REMOVE"} \X Blocks), phase : {"ops", "push"},
     push : SUBSET Nodes]

TypeOK ==
    /\ addresses \in Seq(Nodes) /\ work \in Seq(Nodes)
    /\ alloc \in [Nodes -> SUBSET Blocks]
    /\ history \subseteq Blocks /\ settled \subseteq Nodes
    /\ pc \in {"idle", "executing"}
    /\ plan \in [Nodes -> SUBSET Blocks]
    /\ toAdd \in [Nodes -> SUBSET Blocks] /\ toRemove \in [Nodes -> SUBSET Blocks]
    /\ current \in 0..calls
    /\ notified \subseteq Nodes
    /\ neighbors \in [Nodes -> SUBSET Nodes]
    /\ stored \in [Nodes -> [Blocks -> Nat]]
    /\ index \in [Nodes -> [Nodes -> [Blocks -> 0..255]]]
    /\ \A h \in handlers : h \in Handler
    /\ calls \in Nat /\ rounds \in 0..MaxRounds /\ faults \in 0..MaxFaults
    /\ disturbed \subseteq Nodes /\ missed \subseteq Nodes \X Nodes

\* Whatever fails, what the center believes a node caches fits the node.
RecordWithinCapacity == \A n \in Nodes : Cardinality(alloc[n]) <= Capacity

InCall(n) == \E h \in handlers : h.node = n

\* At a node whose calls have all succeeded, the database holds exactly the
\* blocks of the center's record, each once, whenever no call is under way.
RecordMatchesStore ==
    \A n \in Nodes \ disturbed : ~InCall(n) =>
       \A b \in Blocks : stored[n][b] = (IF b \in alloc[n] THEN 1 ELSE 0)

\* While a call is executed, blocks the plan leaves at the node stay available,
\* and no block is there that neither the old nor the new plan put there.
KeptBlocksStay ==
    \A n \in Nodes \ disturbed : InCall(n) =>
       \A b \in Blocks :
          /\ b \in alloc[n] \ toRemove[n] => stored[n][b] = 1
          /\ b \notin alloc[n] \cup toAdd[n] => stored[n][b] = 0

\* A neighbour that has heard every update of a node lists exactly what the
\* node caches, in a MixIndex and in a counting filter alike.
IndexMatchesRecord ==
    \A m, n \in Nodes :
       <<m, n>> \notin missed /\ n \notin disturbed /\ ~InCall(n) =>
          Listed(m, n) = alloc[n]

\* The record of a node changes only within a round, and then from the blocks
\* of one plan to all the blocks of the next: whatever fails on the way, and
\* whichever late reply comes in, it is never a mixture.
Delivery == INSTANCE PlanDelivery WITH
    record <- alloc, target <- plan, open <- (pc = "executing")
DeliversWholePlans == Delivery!Spec

\* The replacement thread finishes every round, whatever fails.
RoundCompletes == pc = "executing" ~> pc = "idle"

-----------------------------------------------------------------------------
\* The comments "record of the current period's block allocation" and
\* "compute the incremental changes of every node" say that after a round in
\* which every call succeeded the record is the plan.
RecordIsPlan ==
    pc = "executing" /\ work = << >> /\ current = 0 /\ disturbed = {} =>
       alloc = plan

\* "Find the blocks that have to be added": no block is added to a database
\* that has it already, as long as no node registers twice.
AddsOnlyMissing ==
    Cardinality(Registered) = Len(addresses) =>
       \A n \in Nodes, b \in Blocks : stored[n][b] <= 1
=============================================================================
