------------------------------ MODULE EdgeQuery ------------------------------
(***************************************************************************)
(* Query processing at one edge server.  Each client call runs Query in a  *)
(* gRPC thread of its own: queryMainIndex fills a map from block to node   *)
(* (a function-local static, shared by all threads), createQueryTasks      *)
(* reads it and starts one asynchronous SubQuery per block, at the node    *)
(* found or at the center, and processQueryResults collects the answers.   *)
(* At an edge server SubQuery checks for the block in one transaction and  *)
(* fetches it in another.  A node whose table does not have the block      *)
(* answers FALSE_POSITIVE and the block is asked for again at the center;  *)
(* a node without the stream's table or schema answers INTERNAL, and the   *)
(* query fails.                                                            *)
(*                                                                         *)
(* The other servers are the environment: ReplaceCache creates tables,     *)
(* adds and removes blocks, UpdateClusterNodes brings the schema, which a  *)
(* restart loses, and metadata updates change the index, in any order, so  *)
(* the index may be stale or a Bloom filter wrong.                         *)
(* Abstracted: the rows of a block are one unit, of which an answer has    *)
(* the number of copies the table holds; a table holds at most one (module *)
(* CacheReplacement has the case of two); an index look-up and clear() are *)
(* atomic, though the map gives no such guarantee against clear().         *)
(***************************************************************************)
EXTENDS Integers, FiniteSets

CONSTANTS
    Queries,        \* client calls
    Nodes,          \* edge servers the index has an entry for
    Center,         \* center_addr_
    None,           \* a block queryMainIndex found nowhere
    Address,        \* Address[n]: place of n's address in string order
    Streams,        \* data streams, of each of which the center has a table
    Zero,           \* the stream whose unique id is 0
    Known,          \* streams whose schema this edge has
    Told,           \* nodes that have it as well from the beginning
    Blocks,         \* block ids, an interval of naturals
    Latency,        \* node_latencies_
    MaxChanges, MaxFaults       \* bounds on what is explored

ASSUME CenterIsNoEdge == Center \notin Nodes /\ None \notin Nodes \cup {Center}
ASSUME StreamsAssumption == Zero \in Streams /\ Known \subseteq Streams
ASSUME ToldAssumption == Told \subseteq Nodes
ASSUME BlocksAreNat == Blocks \subseteq Nat /\ 0 \in Blocks
ASSUME BoundsAreNat == MaxChanges \in Nat /\ MaxFaults \in Nat
ASSUME LatencyIsInt == Latency \in [Nodes -> Int] /\ Address \in [Nodes -> Nat]

Keys == Streams \X Blocks

VARIABLES
    tables,         \* streams with a table in the database of each edge server
    stored,         \* blocks in these tables
    schema,         \* schema_ of each edge server
    index,          \* index[n]: blocks timeseries_main_index_ lists for n
    results,        \* the static map of queryMainIndex: block -> node
    pc,             \* where each query is
    query,          \* its stream and block range
    unseen,         \* indexes queryMainIndex has still to look at
    next,           \* block the grouping loop has reached
    target,         \* node each block's task is made for
    task,           \* state of each block's task
    answer,         \* copies of the block in the task's answer
    open,           \* tasks processQueryResults has not collected
    recorded,       \* records each query put on pending_report_access_info_
    raced,          \* history: tasks whose block was removed before the fetch
    misled,         \* history: tasks made for a node that cannot look up the stream
    changes, faults

environment == <<tables, stored, schema, index, changes>>
routing == <<results, unseen, next, target, misled>>
vars == <<environment, routing, pc, query, task, answer, open, recorded, raced, faults>>

-----------------------------------------------------------------------------
Range(q) == {b \in Blocks : query[q].lo <= b /\ b <= query[q].hi}
Key(q, b) == <<query[q].stream, b>>
Forwarded(q) == query[q].stream \notin Known

Init ==
    /\ tables \in [Nodes -> SUBSET Known]
    /\ stored \in {f \in [Nodes -> SUBSET (Known \X Blocks)] :
                     \A n \in Nodes : f[n] \subseteq tables[n] \X Blocks}
    /\ schema = [n \in Nodes |-> IF n \in Told THEN Known ELSE {}]
    /\ index \in [Nodes -> SUBSET (Known \X Blocks)]
    /\ results = [b \in Blocks |-> None]
    /\ pc = [q \in Queries |-> "idle"]
    /\ query = [q \in Queries |-> [stream |-> Zero, lo |-> 0, hi |-> 0]]
    /\ unseen = [q \in Queries |-> {}]
    /\ next = [q \in Queries |-> 0]
    /\ target = [q \in Queries |-> [b \in Blocks |-> Center]]
    /\ task = [q \in Queries |-> [b \in Blocks |-> "none"]]
    /\ answer = [q \in Queries |-> [b \in Blocks |-> 0]]
    /\ open = [q \in Queries |-> {}]
    /\ recorded = [q \in Queries |-> [k \in Keys |-> 0]]
    /\ raced = {} /\ misled = {}
    /\ changes = 0
    /\ faults = 0

-----------------------------------------------------------------------------
\* Query: getStreamMeta finds the stream; queryMainIndex clears the map.
StartQuery(q, s, lo, hi) ==
    /\ pc[q] = "idle" /\ s \in Known /\ lo <= hi
    /\ pc' = [pc EXCEPT ![q] = "lookup"]
    /\ query' = [query EXCEPT ![q] = [stream |-> s, lo |-> lo, hi |-> hi]]
    /\ results' = [b \in Blocks |-> None]
    /\ unseen' = [unseen EXCEPT ![q] = Nodes]
    /\ next' = [next EXCEPT ![q] = lo]
    /\ UNCHANGED <<environment, target, misled, task, answer, open, recorded, raced,
                   faults>>

\* A stream without schema is forwarded to the center as one sub-query, for
\* block 0 of stream 0 as far as the request says.
ForwardQuery(q, s) ==
    /\ pc[q] = "idle" /\ s \notin Known
    /\ pc' = [pc EXCEPT ![q] = "collect"]
    /\ query' = [query EXCEPT ![q] = [stream |-> s, lo |-> 0, hi |-> 0]]
    /\ task' = [task EXCEPT ![q][0] = "sent"]
    /\ open' = [open EXCEPT ![q] = {0}]
    /\ UNCHANGED <<environment, routing, answer, recorded, raced, faults>>

\* One pass of queryMainIndex over a node's index; a lower latency wins.
Better(n, b) == results[b] = None \/ Latency[n] < Latency[results[b]]
LookUp(q, n) ==
    /\ pc[q] = "lookup" /\ n \in unseen[q]
    /\ results' = [b \in Blocks |->
                     IF b \in Range(q) /\ Key(q, b) \in index[n] /\ Better(n, b)
                     THEN n ELSE results[b]]
    /\ unseen' = [unseen EXCEPT ![q] = @ \ {n}]
    /\ UNCHANGED <<environment, next, target, misled, pc, query, task, answer, open,
                   recorded, raced, faults>>

\* A node can look a stream up once UpdateClusterNodes has brought the schema
\* and ReplaceCache has made the table.
Serves(n, s) == s \in schema[n] /\ s \in tables[n]

\* One turn of the grouping loop: the map is read again for every block.
Group(q) ==
    /\ pc[q] = "lookup" /\ unseen[q] = {} /\ next[q] <= query[q].hi
    /\ target' = [target EXCEPT ![q][next[q]] =
                    IF results[next[q]] = None THEN Center ELSE results[next[q]]]
    /\ misled' = misled \cup {t \in {<<q, next[q]>>} :
                    results[t[2]] # None /\ ~Serves(results[t[2]], query[q].stream)}
    /\ next' = [next EXCEPT ![q] = @ + 1]
    /\ UNCHANGED <<environment, results, unseen, pc, query, task, answer, open,
                   recorded, raced, faults>>

\* std::async starts the sub-queries of all blocks.
\* Mutant: blocks the index does not know are forgotten.
LaunchFound(q) ==
    /\ pc[q] = "lookup" /\ unseen[q] = {} /\ next[q] > query[q].hi
    /\ pc' = [pc EXCEPT ![q] = "collect"]
    /\ LET found == {b \in Range(q) : target[q][b] # Center} IN
       /\ task' = [task EXCEPT ![q] = [b \in Blocks |->
                     IF b \in found THEN "sent" ELSE "none"]]
       /\ open' = [open EXCEPT ![q] = found]
    /\ UNCHANGED <<environment, routing, query, answer, recorded, raced, faults>>
\* Mutant: one block too many.
LaunchOneMore(q) ==
    /\ pc[q] = "lookup" /\ unseen[q] = {} /\ next[q] > query[q].hi
    /\ pc' = [pc EXCEPT ![q] = "collect"]
    /\ task' = [task EXCEPT ![q] = [b \in Blocks |->
                  IF b \in Range(q) THEN "sent" ELSE "none"]]
    /\ open' = [open EXCEPT ![q] = query[q].lo .. query[q].hi + 1]
    /\ UNCHANGED <<environment, routing, query, answer, recorded, raced, faults>>
Launch(q) ==
    /\ pc[q] = "lookup" /\ unseen[q] = {} /\ next[q] > query[q].hi
    /\ pc' = [pc EXCEPT ![q] = "collect"]
    /\ task' = [task EXCEPT ![q] = [b \in Blocks |->
                  IF b \in Range(q) THEN "sent" ELSE "none"]]
    /\ open' = [open EXCEPT ![q] = Range(q)]
    /\ UNCHANGED <<environment, routing, query, answer, recorded, raced, faults>>

-----------------------------------------------------------------------------
\* executeSubQuery in its thread and SubQuery at the node it asks.

\* addStatsToReport: only an OK answer is an access, and only when the schema
\* knows the stream the request named.
Record(q, k) ==
    recorded' = IF k[1] \in Known THEN [recorded EXCEPT ![q][k] = @ + 1] ELSE recorded

RequestKey(q, b) == IF Forwarded(q) THEN <<Zero, 0>> ELSE Key(q, b)

\* First transaction: EXISTS over the block's time range.  Without the schema
\* or the table it throws, the node answers INTERNAL and executeSubQuery throws.
LookedUp(q, b) ==
    LET n == target[q][b] IN
    IF ~Serves(n, query[q].stream) THEN "error"
    ELSE IF Key(q, b) \in stored[n] THEN "exists" ELSE "falsePositive"

\* Mutant: a false positive is reported as an access too.
ExistsRecorded(q, b) ==
    /\ task[q][b] = "sent" /\ target[q][b] \in Nodes
    /\ task' = [task EXCEPT ![q][b] = LookedUp(q, b)]
    /\ IF LookedUp(q, b) = "falsePositive" THEN Record(q, RequestKey(q, b))
       ELSE UNCHANGED recorded
    /\ UNCHANGED <<environment, routing, pc, query, answer, open, raced, faults>>
Exists(q, b) ==
    /\ task[q][b] = "sent" /\ target[q][b] \in Nodes
    /\ task' = [task EXCEPT ![q][b] = LookedUp(q, b)]
    /\ UNCHANGED <<environment, routing, pc, query, answer, open, recorded, raced, faults>>

\* Second transaction: the query itself; OK whatever it returns.
Fetch(q, b) ==
    /\ task[q][b] = "exists"
    /\ answer' = [answer EXCEPT ![q][b] =
                    IF Key(q, b) \in stored[target[q][b]] THEN 1 ELSE 0]
    /\ task' = [task EXCEPT ![q][b] = "ok"]
    /\ Record(q, RequestKey(q, b))
    /\ UNCHANGED <<environment, routing, pc, query, open, raced, faults>>

\* SubQuery at the center: one transaction on the complete table.
FetchAtCenter(q, b) ==
    /\ task[q][b] = "retry" \/ (task[q][b] = "sent" /\ target[q][b] = Center)
    /\ answer' = [answer EXCEPT ![q][b] = 1]
    /\ task' = [task EXCEPT ![q][b] = "ok"]
    /\ Record(q, RequestKey(q, b))
    /\ UNCHANGED <<environment, routing, pc, query, open, raced, faults>>

\* The channel does not connect, the call fails or the node reports an error:
\* executeSubQuery throws, the exception waits in the future.
SubQueryFails(q, b) ==
    /\ task[q][b] \in {"sent", "exists", "retry"}
    /\ faults < MaxFaults
    /\ faults' = faults + 1
    /\ task' = [task EXCEPT ![q][b] = "error"]
    /\ UNCHANGED <<environment, routing, pc, query, answer, open, recorded, raced>>

-----------------------------------------------------------------------------
\* processQueryResults takes the tasks in the order createQueryTasks made them:
\* the std::map of nodes by address, then the blocks that go to the center.

Before(q, a, b) ==
    LET ta == target[q][a]  tb == target[q][b] IN
    \/ ta = tb /\ a < b
    \/ ta # Center /\ tb = Center
    \/ ta \in Nodes /\ tb \in Nodes /\ Address[ta] < Address[tb]

Collecting(q, b, state) ==
    /\ pc[q] = "collect" /\ b \in open[q] /\ task[q][b] = state
    /\ \A a \in open[q] \ {b} : Before(q, b, a)

CollectOK(q, b) ==
    /\ Collecting(q, b, "ok")
    /\ open' = [open EXCEPT ![q] = @ \ {b}]
    /\ UNCHANGED <<environment, routing, pc, query, task, answer, recorded, raced, faults>>

\* FALSE_POSITIVE: the block is asked for again, at the center, while the
\* remaining futures wait.
\* Mutant: the false positive is taken for an empty block.
IgnoreFalsePositive(q, b) ==
    /\ Collecting(q, b, "falsePositive")
    /\ open' = [open EXCEPT ![q] = @ \ {b}]
    /\ UNCHANGED <<environment, routing, pc, query, task, answer, recorded, raced, faults>>
\* Mutant: the false positive is an error like any other.
FalsePositiveFails(q, b) ==
    /\ Collecting(q, b, "falsePositive")
    /\ pc' = [pc EXCEPT ![q] = "unwind"]
    /\ UNCHANGED <<environment, routing, query, task, answer, open, recorded, raced, faults>>
\* Mutant: the block is asked for again at the node that does not have it.
RetryAtSameNode(q, b) ==
    /\ Collecting(q, b, "falsePositive")
    /\ task' = [task EXCEPT ![q][b] = "sent"]
    /\ UNCHANGED <<environment, routing, pc, query, answer, open, recorded, raced, faults>>
RetryAtCenter(q, b) ==
    /\ Collecting(q, b, "falsePositive")
    /\ task' = [task EXCEPT ![q][b] = "retry"]
    /\ UNCHANGED <<environment, routing, pc, query, answer, open, recorded, raced, faults>>

\* future.get() throws: Query is left by the exception, but the destructors of
\* the remaining futures wait for their tasks.
CollectError(q, b) ==
    /\ Collecting(q, b, "error")
    /\ pc' = [pc EXCEPT ![q] = "unwind"]
    /\ UNCHANGED <<environment, routing, query, task, answer, open, recorded, raced, faults>>

Running(q) == {b \in Blocks : task[q][b] \in {"sent", "exists", "retry"}}

Fail(q) ==
    /\ pc[q] = "unwind" /\ Running(q) = {}
    /\ pc' = [pc EXCEPT ![q] = "failed"]
    /\ UNCHANGED <<environment, routing, query, task, answer, open, recorded, raced, faults>>

\* mergeQueryResults: the rows of all answers.
Return(q) ==
    /\ pc[q] = "collect" /\ open[q] = {}
    /\ pc' = [pc EXCEPT ![q] = "done"]
    /\ UNCHANGED <<environment, routing, query, task, answer, open, recorded, raced, faults>>

-----------------------------------------------------------------------------
\* The environment.

\* ReplaceCache: the stream's first ADD at a node creates the table, in a
\* transaction of its own; every operation needs the schema.
CreateTable(n, s) ==
    /\ changes < MaxChanges /\ s \in schema[n] /\ s \notin tables[n]
    /\ tables' = [tables EXCEPT ![n] = @ \cup {s}]
    /\ changes' = changes + 1
    /\ UNCHANGED <<stored, schema, index, routing, pc, query, task, answer, open,
                   recorded, raced, faults>>

AddBlock(n, k) ==
    /\ changes < MaxChanges /\ Serves(n, k[1]) /\ k \notin stored[n]
    /\ stored' = [stored EXCEPT ![n] = @ \cup {k}]
    /\ changes' = changes + 1
    /\ UNCHANGED <<tables, schema, index, routing, pc, query, task, answer, open, recorded,
                   raced, faults>>

RemoveBlock(n, k) ==
    /\ changes < MaxChanges /\ Serves(n, k[1]) /\ k \in stored[n]
    /\ stored' = [stored EXCEPT ![n] = @ \ {k}]
    /\ changes' = changes + 1
    /\ raced' = raced \cup {t \in Queries \X Blocks :
                   /\ task[t[1]][t[2]] = "exists" /\ target[t[1]][t[2]] = n
                   /\ Key(t[1], t[2]) = k}
    /\ UNCHANGED <<tables, schema, index, routing, pc, query, task, answer, open,
                   recorded, faults>>

UpdateIndex(n, k) ==
    /\ changes < MaxChanges
    /\ \/ index' = [index EXCEPT ![n] = @ \cup {k}]
       \/ index' = [index EXCEPT ![n] = @ \ {k}]
    /\ changes' = changes + 1
    /\ UNCHANGED <<tables, stored, schema, routing, pc, query, task, answer, open,
                   recorded, raced, faults>>

\* The center tells a node the streams; what it knows already it keeps.
UpdateSchema(n) ==
    /\ changes < MaxChanges /\ schema[n] # Known
    /\ schema' = [schema EXCEPT ![n] = Known]
    /\ changes' = changes + 1
    /\ UNCHANGED <<tables, stored, index, routing, pc, query, task, answer, open,
                   recorded, raced, faults>>

\* A node's process starts again: the database stays, the schema and the calls
\* it was serving are gone.
Restart(n) ==
    /\ faults < MaxFaults
    /\ faults' = faults + 1
    /\ schema' = [schema EXCEPT ![n] = {}]
    /\ task' = [q \in Queries |-> [b \in Blocks |->
                  IF task[q][b] = "exists" /\ target[q][b] = n THEN "error"
                  ELSE task[q][b]]]
    /\ UNCHANGED <<tables, stored, index, changes, routing, pc, query, answer, open,
                   recorded, raced>>

-----------------------------------------------------------------------------
QueryStep(q) ==
    \/ \E n \in Nodes : LookUp(q, n)
    \/ Group(q) \/ Launch(q) \/ Fail(q) \/ Return(q)
    \/ \E b \in Blocks :
          \/ Exists(q, b) \/ Fetch(q, b) \/ FetchAtCenter(q, b)
          \/ CollectOK(q, b) \/ RetryAtCenter(q, b) \/ CollectError(q, b)

Next ==
    \/ \E q \in Queries :
          \/ \E s \in Streams, lo, hi \in Blocks : StartQuery(q, s, lo, hi)
          \/ \E s \in Streams : ForwardQuery(q, s)
          \/ QueryStep(q)
          \/ \E b \in Blocks : SubQueryFails(q, b)
    \/ \E n \in Nodes :
          \/ UpdateSchema(n) \/ Restart(n)
          \/ \E s \in Known : CreateTable(n, s)
          \/ \E k \in Known \X Blocks :
                AddBlock(n, k) \/ RemoveBlock(n, k) \/ UpdateIndex(n, k)

Spec == Init /\ [][Next]_vars

\* Handler threads, asynchronous tasks and the nodes they ask keep running.
FairSpec == Spec /\ \A q \in Queries : WF_vars(QueryStep(q))

-----------------------------------------------------------------------------
TaskStates == {"none", "sent", "exists", "retry", "ok", "falsePositive", "error"}

TypeOK ==
    /\ tables \in [Nodes -> SUBSET Streams] /\ schema \in [Nodes -> SUBSET Streams]
    /\ stored \in [Nodes -> SUBSET Keys] /\ index \in [Nodes -> SUBSET Keys]
    /\ results \in [Blocks -> Nodes \cup {None}]
    /\ pc \in [Queries -> {"idle", "lookup", "collect", "unwind", "done", "failed"}]
    /\ query \in [Queries -> [stream : Streams, lo : Blocks, hi : Blocks]]
    /\ unseen \in [Queries -> SUBSET Nodes]
    /\ next \in [Queries -> Nat]
    /\ target \in [Queries -> [Blocks -> Nodes \cup {Center}]]
    /\ task \in [Queries -> [Blocks -> TaskStates]]
    /\ answer \in [Queries -> [Blocks -> 0..1]]
    /\ open \in [Queries -> SUBSET Blocks]
    /\ recorded \in [Queries -> [Keys -> Nat]]
    /\ raced \subseteq Queries \X Blocks /\ misled \subseteq Queries \X Nat
    /\ changes \in 0..MaxChanges /\ faults \in 0..MaxFaults

\* However stale the index is, and whatever other queries write into the
\* shared map, an answered query has every block of its range; only a removal
\* between a task's two transactions can empty a block.
AnswersComplete ==
    \A q \in Queries : pc[q] = "done" =>
       \A b \in Range(q) : answer[q][b] = 1 \/ <<q, b>> \in raced

\* An answered query leaves exactly one access record for each of its blocks,
\* retried at the center or not, and none for other blocks; a query that
\* failed leaves at most one.
AccessRecordedOnce ==
    \A q \in Queries : ~Forwarded(q) =>
       \A k \in Keys :
          /\ recorded[q][k] <= (IF k[1] = query[q].stream /\ k[2] \in Range(q) THEN 1 ELSE 0)
          /\ pc[q] = "done" /\ k[1] = query[q].stream /\ k[2] \in Range(q) =>
                recorded[q][k] = 1

\* Without a fault a query fails only when the map, stale, wrong or shared,
\* named for one of its blocks a node that had not got the stream's table or
\* schema; a false positive at any other node, a race on the map, a block removed
\* or an index updated while the query runs is no error.
FailsOnlyOnFault ==
    \A q \in Queries : pc[q] \in {"unwind", "failed"} =>
       faults > 0 \/ \E b \in Range(q) : <<q, b>> \in misled

\* Every query is answered or fails, and leaves no task behind.
QueryEnds ==
    \A q \in Queries :
       pc[q] # "idle" ~> pc[q] \in {"done", "failed"} /\ Running(q) = {}

=============================================================================
