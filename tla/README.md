# A verification project for CECCD

CECCD is a cloud-edge cache for time series. A *center server* owns the
complete tables in PostgreSQL; *edge servers* cache blocks (time ranges) of those tables in
databases of their own, answer SQL queries from the caches of the cluster, and
fall back to the center. Once per period the center decides anew which edge
caches which block.

This directory holds TLA+ modules of the parts of the system whose correctness
depends on the order of events, TLC configurations that check them on small instances,
and TLAPS proofs of theorems about most of them. Line numbers are those of the
sources beside this directory, `src/center_server.cpp` (abbreviated C),
`src/edge_server.cpp` (E), `src/edge_cache_index.cpp` (I),
`include/countingBloomFilter.hpp` (B), `include/db_connection_pool.h` (D).

## 1. Inventory

### Components

| component | state | operations | correct when |
|---|---|---|---|
| Allocation planning (center, C:124-241, 301-383, 434-501) | `edge_server_addresses_`, `historical_stats_`, the candidate queue, plan, `used_node_capacities`, `full_nodes` | `calculateQCCVs`, `processQCCVTask`, `buildPriorityQueue`, `getTopPlacementChoice`, `addNextBestCandidate`, `generateAllocationPlan` | capacities hold, a block is placed once, none is lost while a node has room, placement is greedy-optimal, the loop ends |
| Cache replacement (center C:243-263, 503-601; edge E:657-917) | `node_block_allocation_map_`, edge databases, handlers, neighbours' indexes | `calculateIncrementalChanges`, `executeNodeCacheUpdate`, `ReplaceCache`, `addDataBlock`, `removeDataBlock`, `PushMetadataUpdate`, `UpdateMetadata` | record, databases and indexes agree again when calls succeed, and disagree only within limits when they fail |
| Distributed query (edge, E:135-321, 946-1054; center C:805-852) | the static result map, tasks and futures, `pending_report_access_info_` | `Query`, `createQueryTasks`, `processQueryResults`, `mergeQueryResults`, `executeSubQuery`, `SubQuery` | every answered query is complete, whatever the index says; every access is reported once |
| Cache index (edge, I, `edge_cache_index.h`) | `timeseries_main_index_`: a MixIndex (exact) for nodes whose latency reaches the threshold, a counting Bloom filter for nearer ones | `addBlock`, `removeBlock`, `queryMainIndex` | lists what the neighbours cache; finds the nearest holder |
| Counting Bloom filter (B) | `filter_data_` (u8 counters), `insert_num_` | `Add`, `Remove`, `KeyMayMatch` | no false negatives while no counter overflowed |
| Connection pool (center, D) | queue of connections, mutex, condition variable | `getConnection`, `returnConnection` | no connection is duplicated or forgotten, no wake-up lost, nobody waits for ever |
| Cluster membership (C:41-101, 670-709; E:85-131, 1103-1173) | `active_nodes_`, `network_metrics_`, `neighbor_addrs_`, `node_latencies_` | `Register`, `initializeNetworkMetrics`, `notifyAllNodes`, `UpdateClusterNodes` | every edge ends with the current node list; a stopped node or a failed measurement does not stop registration |
| Access statistics (E:48-83, 921-942; C:103-162, 434-464) | `pending_report_access_info_`, `current_period_stats_`, `historical_stats_` (window of five periods) | `addStatsToReport`, `reportStatistics`, `ReportStatistics`, `collectPeriodStats`, `updateAccessHistory` | an access counts once in one period, or is lost in a known way |
| Block ranges and WHERE clauses (E:219-240, 323-612, `edge_server.h` 87-104; center C:604-660) | the schema of a stream | `parseWhereClause`, `getBlockRange`, `addBlockConditions`, `expressionToString`, `calculateTimeRange`, `updateSchemaInfo` | every row the query selects is fetched by exactly one of its tasks |
| Thread pool (`thread_pool.h`) | task queue, stop flag | `enqueue`, worker loop, destructor | every task runs; the destructor returns |

Of the vendored Roaring library (`roaring.c`) only the operations a MixIndex
calls are a part of the system; MurmurHash is an arbitrary assignment in the models. Left out for
good: `rosetta.hpp` (not used by the servers), the
configuration reader, the command-line client, deployment and plotting scripts.

### How the components interact

- An edge calls `Register`; the center appends the address, measures the network and sends every
  node the list of nodes (`UpdateClusterNodes`).
- `Query` consults the index, starts one `SubQuery` per block at edges
  or center, and records each answered access; records travel to the center
  every reporting period.
- The center's replacement thread turns the records into scores, scores into a
  plan, and the plan into one `ReplaceCache` call per address, in sequence.
- An edge executes a call against its database and pushes the operations
  to its neighbours' indexes, which the next queries use.

### What is hard here

Handlers are gRPC threads and run concurrently; the replacement thread reads `edge_server_addresses_`
without the mutex that `Register` takes; the result map of `queryMainIndex` is a function-local
static; ReplaceCache is a sequence of separate transactions without undo, its
reply and its pushes may be lost, and an edge that restarts keeps its database
but not its index; scores may be NaN; counters are eight bits wide; times are converted between signed and unsigned and cut to 32 bits; every
exception path of the pool changes the number of connections. The list with
the line where each hazard bites is `hazards` in `PROJECT.json`.

## 2. Modules

| module | models | theorems |
|---|---|---|
| `AllocationPlan` | one planning round after the other, with registrations | `AllocationPlanProofs` |
| `CacheReplacement` | delivery of a plan: center, edge handlers, pushes, faults | `CacheReplacementProofs` |
| `PlanDelivery` | abstract: what CacheReplacement promises about the record | |
| `EdgeQuery` | concurrent queries at one edge, other nodes' caches as environment | `EdgeQueryProofs` |
| `ConnectionPool` | the pool and the handlers that use it | `ConnectionPoolProofs` |
| `AccessStatistics` | access records from an edge to the scores, reports and crashes | `AccessStatisticsProofs` |
| `AccessLedger` | abstract: what AccessStatistics promises about an access | |
| `ThreadPool` | the pool that scores blocks, used by AccessStatistics | |
| `Membership` | registration, network measurement, distribution of node lists | `MembershipProofs` |
| `CacheIndex` | what an edge knows of its neighbours' blocks, one index per neighbour; which holder a query asks | `CacheIndexProofs` |
| `Roaring`, `CountingBloomFilter`, `BlockIds` | the two kinds of index as operators on values, used by CacheIndex | `CacheIndexProofs` |
| `BlockTimes` | operators: where the blocks of a stream lie in time, with the widths of the code's integers | `QueryPlanningProofs` |
| `WhereClause`, `BlockRange` | functions on conditions: their text, what a database reads in it, bounds, sub-queries | `QueryPlanningProofs` |
| `QueryPlanning` | composes CacheIndex and BlockRange: from a query to its tasks | `QueryPlanningProofs` |

Each `MC...` module instantiates the module it names. Operators with the comment
"Mutant" are variants of the definition below them with a plausible bug;
nothing refers to them. They exist to show that each property can fail.

### AllocationPlan

*State.* `addresses` is the vector, in which a node that registers twice occurs
twice, because `Register` (C:49) does not look for it. `tasks`, `evaluated` and `qccv` are
the scoring tasks in the thread pool and what they computed; `candidates`,
`queue` are `block_candidates_` and `priority_queue_`; `plan`, `used`,
`fullNodes` the locals of `generateAllocationPlan`.

*Actions.* `StartRound` is collectPeriodStats, updateAccessHistory and the
first part of calculateQCCVs; `ProcessQCCVTask` is one task on a worker, which
scores the block for the addresses *of that moment*; `BuildPriorityQueue`
follows the last future. One turn of the placement loop is `Place`, `Reject`
(with the next-best candidate) or `StopAllFull`; `StopQueueEmpty` is the empty
queue. `Register` may happen between any two steps.

*Data.* A score is any member of `Values`, or `NaN`: after a failed measurement
bandwidths are zero, and the divisions of C:485 give inf and NaN. `Less` is false with
NaN on either side, as `<` on doubles is, so `Best` is what `max_element`
may return for some order of the vector, and `Top` is any element once a NaN
has entered the heap.

### CacheReplacement

*State.* `alloc` is the center's record, `history` the blocks ever accessed; `toAdd`, `toRemove` the incremental
changes; `work` the addresses the loop still has to visit; `current` the call it
waits for. `stored[n][b]` counts the copies of a block's rows in the database of
n: the inserts have no uniqueness check (E:739-762), so a second ADD doubles them.
`index[m][n][b]` is m's index about n: 0/1 in a MixIndex, a counter modulo 256
in a counting filter. `handlers` are the ReplaceCache calls in execution, also those
whose reply nobody waits for.

*Actions.* `Call`, `SkipNode`, `FinishRound` are the loop of
executeCacheReplacement. `DoOp` is one operation with its commit; `FailOp` an
exception before or after the local commit; `StartPush`, `Push`, `PushLost` and
`Return` the rest of the handler. `CallUnreachable`, `ReplyLost` and `Restart`
are failures of network and process. `Plans` are the plans generateAllocationPlan
may return: they fit, place accessed blocks on registered nodes, and leave a block of the
history out only if every node that was registered when the last round ended
(`settled`: these are among its candidates) is full (C:205-241). A node without blocks has
no entry in a plan.

*History variables.* `disturbed` collects the nodes that had a failed call, restarted, or
were sent a call twice; `missed` the pairs (m, n) where m missed a push of n.
The properties exempt exactly these.

*Refinement.* `PlanDelivery` knows rounds, the plan of the round and the record, nothing of
calls, handlers or failures: within a round a node's record changes to all the
blocks the plan gives it or not at all, and outside rounds never.
`DeliversWholePlans` is that specification under the mapping `Delivery`.

### EdgeQuery

*State.* `results` is the static map of `queryMainIndex`, one for all queries.
Per query: the indexes still to look at, the block the grouping loop has
reached, the `target` and state of each block's task, the futures not yet
collected, the access records. Per node: the streams whose table its database has,
the blocks in these tables, and its schema.

*Actions.* `StartQuery` (clears the map), `LookUp` (one pass over a node's
index), `Group` (one turn of the loop that reads the map), `Launch`; then per
task `Exists` and `Fetch` (the two transactions of E:977-990), `FetchAtCenter`,
of which `Exists` has three outcomes (`LookedUp`): the block is there, FALSE_POSITIVE,
or, at a node without the stream's schema (E:955-963) or table (E:977), an
exception, INTERNAL, and an exception in the future (E:1016-1020, 1051-1053);
`SubQueryFails`; `CollectOK`, `RetryAtCenter`, `CollectError` in the order in
which createQueryTasks made the tasks; `Fail` after the destructors of the
remaining futures have waited; `Return`. `ForwardQuery` is the path for an unknown
stream, which names stream 0 and block 0 in its request. `CreateTable` (ensureTableExists,
before a stream's first ADD), `AddBlock`, `RemoveBlock`, `UpdateSchema`, `Restart` and
`UpdateIndex` let tables, caches, schemas and index change at any moment.

*History variables.* `raced` collects the tasks whose block was removed between the two
transactions, `misled` the tasks that the map gave to a node which could not
look the stream up at that moment (`Serves`).

### ConnectionPool

One action per section under `mutex_`. `wait_for` is split where it releases the
mutex: a caller is `blocked`, then `woken` (by notify_one or spuriously) or
`expired`, and only then looks at the queue. A woken caller that finds nothing
blocks again, an expired one throws. `EnterCatch` is any exception in the
caller's try block, including the one `returnConnection` throws; `ReturnFails` the second
exception, from the catch block. `lost` counts connections
that were dropped and not replaced (D:36 and D:51).

### AccessStatistics, AccessLedger and ThreadPool

*State.* An access is a number with an edge and a block. `pending[e]` is
`pending_report_access_info_`; `waiting[e]` the report whose reply the report
thread waits for; `reports` the calls the center has not handled; `current`
and `period` are `current_period_stats_` and what collectPeriodStats moved out
of it; `history` is `historical_stats_`, per block a sequence of periods.

*Actions.* `AddStats`, `Report` (moves the records out), `GiveUp` (an error
reply; the records are not put back, and the call may still be handled),
`LoseReport`, `Crash`; at the center `ReportStatistics`, `CollectPeriodStats`,
`UpdateAccessHistory` with the window, `Submit`, `FuturesReady`, `EndRound`.
The workers are those of `ThreadPool`, which calculateQCCVs constructs and destroys in
every round: `Construct`, `Enqueue` with its notify_one, `Wait`, `Take`,
`Finish`, `Exit`, `BeginDestroy` and `EndDestroy`. The rest of the round is one
step here and the subject of AllocationPlan and CacheReplacement.

*Refinement.* `AccessLedger` gives each access one standing: pending, reported,
weighted, expired or lost, and says which may follow which. An access that is
counted again after it was weighted, or comes back after it was lost, is not in it.

### CacheIndex, Roaring and CountingBloomFilter

`AddBlock` creates the index of a neighbour with its first block: a MixIndex
when its latency is at the threshold or above, a filter below. The latency
read for that is an entry of 0 when the neighbour was not measured yet (I:7-8
inserts it). `RemoveBlock` and `Compress` are the other updates;
`SetNodeLatency` may come before or after.

A bitmap is a function from high parts to containers, which are arrays, bit
sets or runs. `ContainerAdd`, `ContainerRemove`, `ContainerAnd`, `RangeOfOnes`
and `RunOptimize` do the conversions where `roaring.c` does them: an array
that is full becomes a bit set, a bit set that shrinks to the array's size an
array, a run container whatever is smallest, an empty one goes. `ContainerValid`
is the library's internal validation. `RunsIn` gives the runs of a set of values in
order, by the positions at which a run starts (`StartsOf`) and the end of each.

A filter has counters of fixed width. `AddKey` stops at the first full counter and leaves the
earlier probes counted; `RemoveKey` decrements every probe and wraps at zero,
since the test `< 0` at B:207 compares an unsigned value; `insert_num_` wraps as
well. Probes come from double hashing with any hash, so they may repeat. Both loops
over the probes have a closed form: a counter changes by the number of its probes.

`TakeOver` is one turn of queryMainIndex: a neighbour takes a block over from
one whose latency is higher by a whole millisecond, since both are cut to int64.
`Found` is the whole loop in one order of the hash map, and `Target` the node
createQueryTasks asks for a block: the holder found, or the center.

### WhereClause, BlockRange and QueryPlanning

`WhereClause` has the conditions as the parser's trees, up to the height
`MaxHeight`: `Language[h]` gives the factors, products, sums and conditions of height h at
most. A level per strength of binding is how the language leaves out the arithmetic whose
text says something else, such as `a - (b - c)`. `Written` are the clauses of a
query; a sub-query may be two levels higher, since it has two more conditions.
`Text` is what expressionToString writes, as tokens (`Joined` sets the
parentheses); `Read` is what PostgreSQL reads in
tokens, by its table of operator precedence: a set of trees, empty if the text
is no condition. `Holds` is the value of a condition on a row, by which two
conditions are compared, and `Value` that of a term. All four are recursive functions, over the
trees and over the sequences of tokens, so that they can be reasoned about.

`BlockTimes` has `BlockId` with its conversions (unsigned difference, quotient cut to
the width of an id), `BlockBegin` and `BlockEnd` (the signed arithmetic of
addBlockConditions), and for the center `TimeRange` (which wraps) and `SchemaOf`. `BlockRange` has
`Narrow` (parseWhereClause; a strict bound at the end of the integers wraps) and `SubQueryText` (the text addBlockConditions writes).

`QueryPlanning` adds the schema an edge keeps (the first one it is sent) to the
state of CacheIndex, and the sub-queries of the tasks (`Fetching`).

### Membership

*State.* `addresses`, `active`, `metrics` are the center's; `handler[r]` holds
the locals of the r-th call of `Register`; `holder` is the handler that keeps `nodes_mutex_` between steps,
which only initializeNetworkMetrics does. `up` and `neighbors` belong to the edges;
`update[r][n]` holds the locals of the UpdateClusterNodes call that n executes for handler r.

*Actions.* `Insert`, `Lock`; per pair `Connect` and `Measure`; `Unlock` at the end, or
at the first source that is not connected to (C:75-79); `Snapshot`; for each server, in the order
of the addresses, `Notify` or `Lose`; `Return`. At the notified edge `MeasureLatencies` and
`WriteNeighbors`; the latter also resumes the handler that waits. A measurement makes three calls and averages those that
succeed (`ForwardNetworkMeasurement`, `MeasureLatency`); only if none does, it
fails: the center stores zeros, the edge leaves the node out. `Start` and `Stop` of edges come at any moment; a stop
ends the updates the edge was executing, but not the handlers at the center, and a source that stops
between `Connect` and `Measure` leaves zeros for the pair.

*Failures.* Each of these may also happen while the server runs, and is counted by `Fail`: a
connection that is not made within five seconds (`Unlock` before the last pair), a
measurement without a successful call, a notification that does not arrive (`Lose`;
C:702 logs the status and goes on), a reply that does not, while the edge completes the
update (`LoseReply`; the handler then notifies the next server at the same time).

*History variables.* `delivered[n]` is what n has been told since it started,
`lost[n]` the nodes of lists that did not reach it although it was running,
`overtaken` the edges whose last list was older than an earlier one,
`missed[n]` the nodes the measurements for n's last list did not reach, `cutShort`
whether the last measurement of all pairs ended early.

## 3. Checks

| run | instance | states | shows |
|---|---|---|---|
| `allocation_plan` | 3 blocks, 2 nodes, 2 scores and NaN, capacity 1, 2 registrations | 381,135 | capacity, single placement, no lost block, no envy; every round ends |
| `cache_replacement` | 2 nodes, 3 blocks, capacity 2, 2 rounds, 1 fault, 3 registrations | 637,036 | record, databases and indexes agree, with the exemptions named in the properties; the record changes in whole plans |
| `cache_replacement_ends` | 2 nodes, 1 block, 2 rounds, 1 fault | 35,564 | the replacement thread finishes its round |
| `edge_query` | 1 query, 2 nodes, one with the schema, a known and an unknown stream, 2 blocks, 2 changes, 1 fault | 1,032,136 | complete answers under changing caches and schemas; failure only after a fault or at a node that cannot look the stream up; queries end |
| `edge_query_shared_map` | 2 queries, 1 node with a table of each, one or no stream, 2 known streams, 2 blocks, no fault | 2,226,732 | the shared map costs neither completeness nor an access record, and a query fails only if the map sends it to a node without its stream's table |
| `connection_pool` | 5 callers, 3 connections | 10,817 | connections conserved, no lost wake-up, `getConnection` comes back |
| `query_planning` | 2 neighbours, 2 streams, 8 block ids, 3 latencies, 2 tables, 78 clauses | 164,844 | indexes exact or without false negatives, nearest holder asked, every row in one task |
| `access_statistics` | 2 edges, 2 blocks, 2 workers, 3 accesses, window 2, 1 fault | 280,648 | an access is in one place, tasks stay in their round, the ledger is kept, every access is weighted or lost |
| `membership` | 2 servers, 3 registrations, 1 stop, lost call or reply, or failed measurement | 952,808 | everybody is told what was not lost, neighbours and metrics are complete but for the causes named below, registrations return |
| `record_is_plan` | 2 nodes, 2 blocks, no fault | violation | see findings |
| `adds_only_missing` | 2 nodes, 2 blocks, 1 fault | violation | see findings |
| `or_takes_widest_range` | as `query_planning` | violation | see findings |

### Properties

- *NoBlockLost* relates queue, plan and scores: a block of the history that is
  neither placed nor queued has met only full nodes, although nodes register
  twice (the loop's exit test then counts addresses, not nodes) or in the
  middle of a round. *NoEnvy* is the stability of the greedy plan; a NaN in
  the heap voids it, and the property says so.
- *RecordMatchesStore*, *KeptBlocksStay* and *IndexMatchesRecord* relate the
  three places that know what a node caches, between calls and during one.
  *RecordWithinCapacity* holds through all failures.
- *AnswersComplete* says that the index is only a hint: stale entries, false
  positives and entries another query wrote cost a detour, never a row. The
  exception is `raced`: between SubQuery's two transactions (E:977-990) a
  replacement may delete the block, and the node then answers OK without rows.
- *FailsOnlyOnFault* says which of these detours end a query: only that to a node
  which had not got the stream's table or schema when the map named it (`misled`). A false positive
  anywhere else, a block removed at any moment, or a schema that comes late is no error.
- *NoLostWakeup* says that while callers sleep there are as many callers on
  their way to the queue as connections in it. It covers the cases in which a
  newcomer takes the connection a caller was woken for, or the wake-up and the
  deadline coincide.
- *DeliversWholePlans* is the refinement of PlanDelivery: late and lost replies
  of two rounds never leave a mixture of two plans in the record of a node.
- *EachAccessOnce* follows an access from the edge into the window: a report that
  was given up and arrives all the same, a report handled at the moment the
  period ends, a crash between two reports neither double it nor lose it
  silently. *ImplementsLedger* adds the order of its standings.
- *TasksOfRound* and *AccessesAreWeighted* are about the pool: a task runs once and in
  its round, and no worker sleeps through the destructor, which would stop
  the replacement thread for ever.
- *MixIndexExact* compares every range query with what the neighbour pushed,
  through all conversions of the containers.
- *CountersAccount* is the exact value of every counter, modulo its width. A removal that
  comes before its addition takes another key's probe, which the addition gives
  back; if no other key had probed there, the counter wraps to its maximum, the
  addition meets a full counter and is refused, and the filter counts as overflowed.
  Filters that met a full counter are exempt and not followed further.
- *NearestHolder* holds for every order of the hash map, and only up to
  fractions of a millisecond; a neighbour that was never measured counts as 0 ms away.
- *RowsInOneTask* reads the text of every sub-query as the database does: for a
  clause with bounds inside the stream, every row the query selects is in
  exactly one task, and no row it does not select is in any. For a clause with
  bounds outside the stream rows may be missed. Rows are fetched twice only when
  the range has a block that reaches past the largest time (`Overrun`), whose task
  is sent without limits.
- *EveryoneIsTold* holds for all overlaps and stops, since a handler takes its
  list after it has stored its address, and notifies the nodes of the moment. A server that
  does not receive a list, because a call to it failed, lacks nodes of that list at most.
- *NeighborsCurrent* says what makes neighbours wrong when all registrations have returned: of two lists under way the older
  was written last (`overtaken`); a node of the last list could not be measured, which
  the next list repairs (`missed`); or a list was lost, and the neighbours are those
  of the lists that arrived. Without a stop or failure only the first is left.
- *MetricsComplete*: C:79 leaves the measurement at the first source that is not connected
  to, stopped or running, and with it all later pairs, old and new. The next registration that measures
  to the end makes up for it, whatever else failed: the property demands all pairs unless
  the *last* measurement was cut short. A failed measurement costs its own pair only.

### Bounds, and why they suffice

Two nodes are enough for a rejected candidate to move on, for a block to be
wanted by a better and a worse node, and for pushes. In `allocation_plan` the two registrations
are two nodes, or one node twice, at any point of a round, and of three blocks with capacity 1
one always fits nowhere; more nodes and addresses are the theorems' part. With capacity 2 a cache holds a block that
stays beside one that changes, and a third address in `cache_replacement`
lets a node register twice, or restart. Two rounds let the second round
meet what the first left behind; one fault is placed at every point of both.
A fault in `edge_query` is one failed sub-query among those of the query, or a node that restarts; two changes
are enough to remove a block and add another, to create a table and fill it, or to make index and cache disagree
both ways. In `edge_query_shared_map` the two queries alone provide the interleavings, with tables, blocks and index
any at the start; what a fault does to a query is `edge_query`'s part. Three registrations of two servers are two that overlap and a restart, or a third
that meets the lists of both; the one fault comes at every point, and those before a third registration
show what it repairs. Five callers of three connections exceed
the pool by two, so a newcomer can overtake a woken caller while another sleeps.

In `access_statistics` three accesses fill a window of two periods and push the
first period out; of two workers one can sleep while the other works.

In `query_planning` the widths are scaled down together: 8 block ids instead of
2^32 and 60 time values instead of 2^64, so that a block id still wraps within the
times; containers of 5 values with arrays of at most 3, so that six blocks fill one
container in all three forms and start a second; counters up to 3 and sizes
modulo 16, so that a filter overflows and wraps. Of the latencies, two
differ by less than a millisecond and one is above the threshold. A filter's key
is added at most twice more than removed (`MaxCopies`). The 78 clauses are all pairs of strict and
non-strict bounds at values inside, at and outside the blocks' ends, alone and joined by AND and OR with
conditions that bound nothing; in one of the two tables 50 have both bounds inside the
stream, in the other 43. Their height is at most `MaxHeight` = 5. The table with the longer blocks has one that
reaches past the largest time, which 23 of the clauses ask for.

`MaxAddresses`, `MaxRounds`, `MaxFaults`, `MaxChanges`, `MaxAccesses`,
`MaxCopies` and `MaxRegistrations` are bounds
on the exploration only; no code corresponds to them. Symmetry is used for
blocks, nodes or queries no definition singles out, and never in a run with a
liveness property.

Deadlock is not checked in the runs of `EdgeQuery` (queries end) and
`Membership` (registrations end).

### Fairness

- `AllocationPlan`: weak fairness of the planning steps. The replacement thread
  and the pool's workers are threads that nothing blocks. Registration and the start of a
  round are not fair.
- `CacheReplacement`: weak fairness of the replacement thread's steps and of
  running handlers. A call ends by its reply or by a broken connection; no
  deadline is set on it, so an edge that hangs would stop the thread: the fairness of
  handlers is the assumption that it does not hang.
- `EdgeQuery`: weak fairness of each query's steps, its asynchronous tasks
  included.
- `AccessStatistics`: weak fairness of each edge's report thread, of the center's
  handlers, of the replacement thread and of each worker of the pool, all of them threads
  that run in loops. A worker that sleeps is woken by a notification only; spurious
  wake-ups, crashes and faults are not fair.
- `ConnectionPool`: a caller that is awake reacquires the mutex (weak fairness); the five seconds of
  `wait_for` pass even if the caller is woken in vain again and again, since the wait keeps its absolute
  deadline, hence strong fairness of `Deadline`. No fairness of
  returning a connection is assumed.
- `Membership`: weak fairness of the handlers together, the updates at the edges included. A stopped server breaks its connections,
  which ends the call; a server that hangs would block `nodes_mutex_`, because the
  calls of initializeNetworkMetrics have no deadline.

### Findings

1. `record_is_plan`. `calculateIncrementalChanges` (C:514) walks the entries
   of the new plan. A node that receives no block in it has no entry, so its old blocks
   stay in its database and in the record; after a round without failures the
   record still differs from the plan. In the trace the first round gives a node its
   only block, and the second, when another node has registered and takes it, the first none:
   the block is now cached twice in the cluster.
2. `adds_only_missing`. The record is updated only after an OK (C:587). If a
   call fails behind the local commit of an ADD (E:758-761), the block is added
   again in a later round, and queries at that node return its rows twice.
3. `or_takes_widest_range`. For an OR, parseWhereClause takes back the bounds it
   has found and sets those of int64 (E:588), "using widest possible date_time range".
   getBlockId subtracts the stream's start unsigned and cuts the quotient to 32
   bits (`edge_server.h` 94), so the two bounds become neighbouring numbers far behind the
   table: the query asks for one block that does not exist, or for none, and answers
   without the rows. A query without time bounds fares alike.

Further observations, visible in the models as exemptions of properties:

- `queryMainIndex` returns a function-local static keyed by the block id alone
  (I:42). A concurrent query for another stream makes a task go to a node the
  index does not list for the block. A node that has the stream's table and schema answers
  FALSE_POSITIVE, the center is asked, and the answer is complete nevertheless (`edge_query_shared_map`).
  A node that has not, since no block of the stream was ever added there (E:839) or since it has
  restarted and not been told, throws in the look-up, and the query fails (`misled`),
  though the comment at E:175 has such blocks queried again at the center. A false positive of a Bloom filter fares alike.
- The text of a sub-query has no parentheses around arithmetic: `a - (b - c)` is
  sent as `a - b - c` (E:386). The clauses of `Language` need none, and `ClauseIsRead`
  proves that for them.
- BETWEEN, IN lists and a unary minus become text the database refuses (E:371, 399);
  such a query fails in every task (`Refused`).
- A query whose last block is 2^32 - 1 loops for ever (E:257; `Unbounded`).
- The end of a block that reaches past INT64_MAX wraps and lies before its begin,
  so E:506 sends that block's task the query as it came. A query without an upper bound
  whose blocks are longer than 2^31 time units has that block as its last, and gets all its rows twice (`Overrun`).
- A report that fails is not repeated (E:940): its accesses are lost, or, if only
  the reply was lost, counted.
- A block that is not accessed keeps its window: its history does not age.
- Of two registrations that overlap, the older list may reach an edge last;
  the edge then lacks a neighbour until the next registration (`overtaken`). So does an edge that a
  notification did not reach: its failure is logged and not repeated (C:703; `lost`).
- A failed measurement overwrites an earlier good one with zeros, which is where NaN
  scores come from.
- An index learns of changes only. A node that joins or restarts does not hear
  of blocks cached before (`missed`; E:868), and asks the center for them.
- The pool shrinks by a connection whenever a reconnection fails (`lost`), also
  if the database is back a moment later; with none left every `getConnection`
  times out.
- The assertion against negative counters (B:207-209) cannot fire.
- A query whose block is removed between SubQuery's two transactions is
  answered OK without the block's rows (`raced`).

## 4. Proofs

The proofs hold for all values of the constants that satisfy the assumptions
named in the modules: finite sets of blocks, nodes, workers and callers, integer scores,
natural capacities. No fairness is used. Every safety property of a passing run, its
refinements included, is a theorem.

`AllocationPlanProofs`: `TypeCorrect`, `CapacityHolds`, `SinglePlacementHolds`,
`NoBlockLostHolds`, `NoEnvyHolds`, each `Spec => []...` for the property of that name.
None of them is inductive alone. The argument has three layers:

- `PlanInv` = types, capacity, single placement and `QueueInv`: a block is queued at most once,
  with a node that is still one of its candidates, and not while it is
  placed. Without it a placement could place a block a second time.
- `RoundInv`: candidates were scored and scored nodes are registered; full nodes
  are registered and filled to capacity; a block without queue entry is placed or out of candidates;
  a node that was struck off a block's list caches it or is full. This turns "no
  candidate is left" into "every scored node is full". The exit of the loop
  needs that there are no more distinct nodes than addresses.
- `OrderInv`: while no NaN has entered the heap, everything placed is worth at
  least as much as everything queued, a queued or placed block stands with its best candidate, and a node
  struck off its list is full of blocks worth at least as much there. At the end of the round this is `NoEnvy`.

`CacheReplacementProofs`: `TypeCorrect`, `RecordWithinCapacityHolds`,
`DeliversWholePlansHolds`, `RecordMatchesStoreHolds`, `KeptBlocksStayHolds`,
`IndexMatchesRecordHolds`. The third is the refinement: initial states map to
initial states of PlanDelivery, each step to a step or a stutter. It rests on
`RecordInv`: what is to be added to a node lies in its part of the plan, what is
to be removed outside, and while a round runs the record with the additions
covers that part and the part with the removals covers the record; both lists
are empty for a node without blocks in the plan. Applying both to the record
therefore gives exactly the node's part, before the first call to an address of the
node succeeds and after. `TypeInv` adds to the types that the loop waits for a
reply only in a round and with an address left. Capacity follows: an entry that changes becomes a
part of a plan, and plans fit.

The last three need the handlers' progress. `StoreInv` adds to these invariants:

- `HandlersInv`: an undisturbed node has at most one handler, that of the call the
  center waits for, and it executes this round's request. A late handler of an
  earlier call is always at a node that is marked as disturbed.
- `WorkInv`: an undisturbed node is visited once, and what it is still to be sent
  does not overlap what it has.
- `ProgressInv`: for every undisturbed node and block, the number of copies in the database
  lies where the operations still to do say (`Copies`), between old entry and new one;
  and a neighbour that missed no push counts the new entry once it has the
  push, and the old one before (`Counted`).

A call that ends well finds no operation left, and the record takes over
exactly what the database has. The exemptions `disturbed` and `missed` are those of the checked properties.

`ConnectionPoolProofs`: `TypeCorrect`, `PoolConservedHolds`, `NoLostWakeupHolds`. The
inductive invariant `PoolInv` is the conjunction of types, conservation and
`NoLostWakeup`; the types of `idle` and `lost` (at most `PoolSize`) follow only
from conservation. The work is in counting: lemmas say how the cardinalities of
the holders and of the awake callers change when one caller moves.

`EdgeQueryProofs`: `TypeCorrect`, `AnswersCompleteHolds`,
`AccessRecordedOnceHolds`, `FailsOnlyOnFaultHolds`. The inductive invariant
`QueryInv` says what each state of a task means: tasks exist only after the
launch and for the query's own blocks (`Launched`); a block leaves the
collecting loop with an OK answer only (`Collected`); between the two
transactions the block is there or its removal is in `raced` (`Checked`), so an
OK answer has it (`Served`); an error was counted or its task is in `misled` (`Faulted`, with
`Routed` for what is known of the node when a task is made for it); and a key's record
is one exactly if its task is OK (`Recorded`). It holds whichever node a
task asks, so the races on the shared map and stale indexes are harmless for every number of
queries, not only for the two of the run. The proofs assume that the set of blocks
contains block 0 and that the bounds are naturals.

`AccessStatisticsProofs`: `TypeCorrect`, `EachAccessOnceHolds`, `TasksOfRoundHolds`,
`ImplementsLedgerHolds`. `PlaceInv` says that an access that was made is in exactly one of
seven places (pending, in a report, in the current period, in the collected one, in
the window, expired, lost), that no two reports share one, and that
a block's periods hold accesses of that block only; the collected period is empty
except between collectPeriodStats and the update of the history. `TaskInv` does
the same for a block's task: to submit, queued, at a worker or completed, one of
these, and queued or running only while its round scores; outside a round there are no workers. The
refinement compares the places of an access before and after a step: it stays
(`Stays`), or makes one of the four moves the ledger has (`Moves`).
Assumed: the states of a worker that runs no task are not blocks (`TasksAreNoStates`), and the
pool has a worker (`SomeWorker`). The standard allows `hardware_concurrency()` (C:177) to return 0,
and a pool of that size would leave the round waiting for its first future.

`MembershipProofs`: `TypeCorrect`, `EveryoneIsToldHolds`, `NeighborsCurrentHolds`,
`MetricsCompleteHolds`. `MemberInv` has a part for each. `LocalsInv` is what a handler's locals
mean in each phase, `UpdatesInv` what an update's do: it is at a running server that its handler has already
visited, or has given up. `ServersInv`: a running server is stored or its registration is
about to store it. `ToldInv`: whatever is stored and was neither told to a running server nor lost will be told
or lost by some handler, because it has not taken its list yet, has it and not reached that
server, or its update there is not written (`WillTell`). When no registration is under way there is no such handler,
so all was told. `MetricsInv` argues likewise with the pairs a
handler has still to measure (`WillMeasure`): what is unmeasured and has no such handler was left out by the
last measurement, and then `cutShort` holds. `NeighborsInv` is
NeighborsCurrent with what a failed measurement leaves. An address that occurs twice,
a list taken while another handler stores, and any number of servers and faults are covered.

`CacheIndexProofs`: `CountersAccountHolds`, `NoFalseNegativeHolds`, `MixIndexExactHolds`,
`NearestHolderHolds`, `TypeCorrect`. Its first half has no state: each operation on a container or
bitmap does to the set of its elements what its name says and leaves it valid, for any
container size and any limit of an array (`ContainerSizes`): the conversions
between the three kinds, the runs of a set, ranges, intersection, run optimization, and the split of an
id into its halves. The second half has the invariants:

- `IndexInv`: every filter that met no full counter has in each counter the number of
  probes of the copies it was told of, minus those of removals that came too
  early, modulo the counter's width, and the size likewise. The
  work is in counting pairs of key and probe, as the probes of a key may coincide. A key
  that was told has all its counters above zero, when nothing is owed and
  nothing overflowed; that is `NoFalseNegative`. `MaxCopies` is any positive number,
  the balance of a key is at least -1.
- `MixInv`: every bitmap is good and its elements are the blocks told.
- `NodesInv` are the remaining types.
- `NearestHolder` is about the loop of queryMainIndex, here a recursive function over the order of the hash
  map. Its induction is by least counterexample (lemma `Least`, from the library's
  well-ordering of the naturals): after i turns the holder found is the best
  among the first i neighbours, up to fractions of a millisecond (`BestOf`).

Assumed of the index: hash values are in range (`KeysAreHashed`), a filter has at
least two slots, the neighbours are finitely many and the center, which has
another address, is none of them (`NeighborsAreNodes`).

`QueryPlanningProofs`: `RowsInOneTaskHolds`, `PlanningKeepsIndex`, `IndexWhilePlanning`,
and the four facts the first of them joins, theorems of their own:

- `ClauseIsRead`: the text expressionToString writes of a clause is read as
  that clause, and as nothing when it has a word the database refuses (`Clean` is
  the absence of BETWEEN, IN and `??`). The converse of writing is no recursion over trees but one over
  token sequences, so the proof says for each level of the language which operators
  its text can have outside parentheses (`MeansItself`: parentheses balanced, operators at least
  as strong as the level's, read as itself) and shows that the root the database finds is
  the root of the tree (`InfixReads`, `NotReads`, `EnclosedReads`). `SubQueryReads`
  does the same for the text with the limits of the block.
- `SelectedWithinBounds`: the time of a row that a clause selects is within the
  bounds `Narrow` finds, whatever AND, OR and NOT enclose and where a strict bound
  wraps; by the height of the clause, for any bounds found before (`NarrowsSoundly`).
- `EachTimeInOneBlock`: for a range that
  begins at the first row or behind it and ends in a block an id can name, a time
  of the range is in the limits of exactly one of the range's blocks, the one
  getBlockId names. That the last block passes addBlockConditions' own check is a
  hypothesis; a range whose last block does not is `Overrun`. Widths are any
  even `TimeModulus`, and block lengths any below it (`WidthsAssumption`, `StreamMeta`).
- `BlocksInOrder`: as long as no block's end wraps, the limits of blocks with
  different ids do not overlap, also when the bounds lie outside the stream
  and the range is arbitrary.

The state enters by one invariant: the schema is none or that of a table
(`SchemaIsOfTable`). Definitions by recursion are used through their equations, which
are proved first: that a recursive function exists follows level by level, or
length by length, with `Least` in the place of induction.
`PlanningKeepsIndex` is a refinement: the specification with a schema implements that of
the index, so the index's invariants hold while queries are planned (`IndexWhilePlanning`).
Assumed: first rows far enough apart for a block length other than zero (`FirstRowsApart`), clauses of the
language (`ClausesAreWritten`), at least two levels (`HeightAssumption`).

Only model-checked: all liveness (`RoundEnds`, `RoundCompletes`, `QueryEnds`, `GetReturns`,
`RegisterReturns`, `AccessesAreWeighted`), since the prover has no ENABLED.

## 5. What is abstracted or not modelled

- Undefined behaviour on containers: `edge_server_addresses_`, `active_nodes_`,
  `neighbor_addrs_` and `timeseries_main_index_` are iterated without the
  mutex that protects their updates. The models take the outcomes in which
  the container does not move under the iteration; whatever else a build may do has no
  useful description.
- Block statistics and the arithmetic of QCCV: a score is any value. Rows are
  modelled by their time and one more column, where a property is about them.
- Of a SELECT, all but WHERE. Columns, grouping, ordering and limits of a query
  are copied into every sub-query and the results are appended to each other
  (E:197, 525-570): a LIMIT or an aggregate is applied per block. No text in
  the repository promises more, so there is nothing to compare it with.
- The Roaring library beyond the operations of a MixIndex. `roaring.c` and its
  headers are nine tenths of the lines under `src/`; the servers reach adding,
  removing, ranges, intersection and iteration, and run optimization through
  `compress`, which only the tests call. Portable and frozen serialization, SIMD variants, the 64-bit tree,
  union, difference, statistics and the C++ wrapper have no caller whose result
  decides anything, and a model of them would say nothing of this system.
  Of the operations modelled the portable code is the reference.
- `rosetta.hpp` is not included by the servers; MurmurHash is any assignment of probes.
- The SQL of the center's schema discovery runs once before the server starts;
  the sampled row size is a constant.
- `getStreamMeta(uint32_t)` at the center would lock its mutex twice (C:406); nothing calls it.

## 6. Plan

Done: the modules of section 2, the refinements of PlanDelivery and
AccessLedger, the proofs of section 4. Every safety property the passing runs check is
proved for all values of the constants.

Left, in this order:

1. `RowsInOneTask` beyond the language: arithmetic that needs parentheses, with the rows the
   text without them selects instead.
2. `AccessStatistics`: that the window of a block is the suffix of its periods.
