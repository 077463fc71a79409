------------------------------ MODULE Membership ------------------------------
(***************************************************************************)
(* How edge servers join the cluster.  Register runs in a gRPC thread per  *)
(* call: it stores the address, measures the network between all nodes     *)
(* while it holds nodes_mutex_ (initializeNetworkMetrics), and sends the   *)
(* list of nodes to everybody (notifyAllNodes).  At an edge server         *)
(* UpdateClusterNodes reads its neighbours, measures the nodes it does not *)
(* know, and replaces the neighbours, without a lock between the two.      *)
(* Servers start, stop and start again at any moment.  Any call fails when *)
(* its server has stopped, and may fail though it runs: a connection that  *)
(* is not made in time, a measurement none of whose three calls succeeds,  *)
(* a notification that does not arrive, or whose reply does not while the  *)
(* update runs on.                                                         *)
(*                                                                         *)
(* Abstracted: what is measured is none, good, or the zeros of a failed    *)
(* call; of the latencies an edge measures only "nearer than the center"   *)
(* matters; the schema sent with the list.  The unknown nodes of one list  *)
(* are measured at one moment, and so are the samples of one pair.         *)
(* notifyAllNodes iterates active_nodes_, a std::set, without the mutex: a *)
(* node inserted meanwhile is visited if the iterator has not passed it.   *)
(***************************************************************************)
EXTENDS Integers, Sequences, FiniteSets

CONSTANTS
    Nodes,              \* edge servers
    Center,             \* center_addr_
    Address,            \* Address[n]: place of n's address in string order
    Near,               \* Near[n]: nodes with a latency below center_latency_
    MaxRegistrations, MaxFaults     \* bounds on what is explored

ASSUME CenterIsNoNode == Center \notin Nodes
ASSUME AddressesDiffer ==
    /\ Address \in [Nodes -> Nat \ {0}]
    /\ \A m, n \in Nodes : Address[m] = Address[n] => m = n
ASSUME NearIsNodes == Near \in [Nodes -> SUBSET Nodes]
ASSUME BoundsAreNat == MaxRegistrations \in Nat /\ MaxFaults \in Nat

Handlers == 1..MaxRegistrations
Nobody == 0

VARIABLES
    \* center
    addresses,      \* edge_server_addresses_
    active,         \* active_nodes_
    metrics,        \* network_metrics_
    holder,         \* handler that holds nodes_mutex_ across steps, or Nobody
    started,        \* calls of Register so far
    handler,        \* the handler of each call
    \* edge servers
    up,             \* edge servers that are running
    neighbors,      \* neighbor_addrs_
    update,         \* update[r][n]: UpdateClusterNodes that n executes for handler r
    \* history
    delivered,      \* nodes that occurred in a list since the server started
    lost,           \* nodes of the lists that did not arrive since then
    overtaken,      \* servers that received a list older than an earlier one
    missed,         \* nodes the last list's update at a server could not measure
    cutShort,       \* the last measurement left out pairs
    stops,          \* servers that stopped so far
    failures        \* calls of a running server that failed so far

center == <<addresses, active, metrics, holder, cutShort>>
edges == <<up, neighbors, update, delivered, lost, overtaken, missed>>
vars == <<center, started, handler, edges, stops, failures>>

-----------------------------------------------------------------------------
\* A handler and its locals: all_nodes, i and j of initializeNetworkMetrics;
\* the list, the place the iterator has reached and the server being notified.
NoLocals == [phase |-> "done", node |-> Center, all |-> << >>, i |-> 1, j |-> 2,
             list |-> {}, reached |-> 0, target |-> Center]

\* An update and its locals: the list, current_neighbors and new_neighbors.
NoUpdate == [phase |-> "none", list |-> {}, base |-> {}, fresh |-> {}, unheard |-> {}]

Init ==
    /\ addresses = << >>
    /\ active = {}
    /\ metrics = [p \in (Nodes \cup {Center}) \X (Nodes \cup {Center}) |-> "none"]
    /\ holder = Nobody
    /\ started = 0
    /\ handler = [r \in Handlers |-> NoLocals]
    /\ up = {}
    /\ neighbors = [n \in Nodes |-> {}]
    /\ update = [r \in Handlers |-> [n \in Nodes |-> NoUpdate]]
    /\ delivered = [n \in Nodes |-> {}] /\ lost = [n \in Nodes |-> {}]
    /\ overtaken = {}
    /\ missed = [n \in Nodes |-> {}]
    /\ cutShort = FALSE
    /\ stops = 0 /\ failures = 0

\* Of the calls that fail though their server runs, k more.
Fail(k) ==
    /\ k > 0 => stops + failures + k <= MaxFaults
    /\ failures' = failures + k

-----------------------------------------------------------------------------
\* An edge server starts: it serves requests, then calls Register.
Start(n) ==
    /\ n \notin up
    /\ started < MaxRegistrations
    /\ up' = up \cup {n}
    /\ neighbors' = [neighbors EXCEPT ![n] = {Center}]
    /\ started' = started + 1
    /\ handler' = [handler EXCEPT ![started + 1].phase = "insert",
                                  ![started + 1].node = n]
    /\ UNCHANGED <<center, update, delivered, lost, overtaken, missed, stops, failures>>

\* The call of a handler that waits for server n is over.
Resume(h, n) ==
    IF h.phase = "wait" /\ h.target = n
    THEN [h EXCEPT !.phase = "notify", !.target = Center] ELSE h

\* An edge server stops; the calls it was executing fail at the center.  The
\* center does not notice otherwise: its handlers go on.
Stop(n) ==
    /\ n \in up
    /\ stops + failures < MaxFaults
    /\ stops' = stops + 1
    /\ up' = up \ {n}
    /\ neighbors' = [neighbors EXCEPT ![n] = {}]
    /\ update' = [r \in Handlers |-> [update[r] EXCEPT ![n] = NoUpdate]]
    /\ delivered' = [delivered EXCEPT ![n] = {}]
    /\ lost' = [lost EXCEPT ![n] = {}]
    /\ overtaken' = overtaken \ {n}
    /\ missed' = [missed EXCEPT ![n] = {}]
    /\ handler' = [r \in Handlers |-> Resume(handler[r], n)]
    /\ UNCHANGED <<center, started, failures>>

-----------------------------------------------------------------------------
\* Register at the center.

Insert(r) ==
    /\ handler[r].phase = "insert" /\ holder = Nobody
    /\ active' = active \cup {handler[r].node}
    /\ addresses' = Append(addresses, handler[r].node)
    /\ handler' = [handler EXCEPT ![r].phase = "metrics"]
    /\ UNCHANGED <<metrics, holder, cutShort, started, edges, stops, failures>>

\* initializeNetworkMetrics takes the mutex and copies the addresses.
\* Mutant: the center is not one of the nodes to measure.
LockWithoutCenter(r) ==
    /\ handler[r].phase = "metrics" /\ holder = Nobody
    /\ holder' = r
    /\ handler' = [handler EXCEPT ![r].phase = "connect", ![r].all = addresses]
    /\ UNCHANGED <<addresses, active, metrics, cutShort, started, edges, stops, failures>>
Lock(r) ==
    /\ handler[r].phase = "metrics" /\ holder = Nobody
    /\ holder' = r
    /\ handler' = [handler EXCEPT ![r].phase = "connect",
                                  ![r].all = Append(addresses, Center)]
    /\ UNCHANGED <<addresses, active, metrics, cutShort, started, edges, stops, failures>>

From(r) == handler[r].all[handler[r].i]
To(r) == handler[r].all[handler[r].j]
PairsLeft(r) == handler[r].i < Len(handler[r].all)
Running(n) == n = Center \/ n \in up

\* One pair: the source is connected to within 5 seconds.
Connect(r) ==
    /\ handler[r].phase = "connect" /\ PairsLeft(r) /\ Running(From(r))
    /\ handler' = [handler EXCEPT ![r].phase = "measure"]
    /\ UNCHANGED <<center, started, edges, stops, failures>>

Samples == 3        \* REPEAT_COUNT

\* ForwardNetworkMeasurement, which the source executes: it connects to the
\* target and averages those of its calls that succeed.  Otherwise the status
\* is an error, and the response holds zeros.
\* Mutant: one failed call spoils the measurement.
ForwardStrictly(to, ok) == IF Running(to) /\ ok = Samples THEN "good" ELSE "zero"
ForwardNetworkMeasurement(to, ok) == IF Running(to) /\ ok > 0 THEN "good" ELSE "zero"

\* The call: its status is not looked at, so zeros overwrite an earlier good
\* measurement, also when the source has stopped since.
Measure(r) ==
    /\ handler[r].phase = "measure"
    /\ \E ok \in 0..Samples :
          LET value == IF Running(From(r)) THEN ForwardNetworkMeasurement(To(r), ok)
                       ELSE "zero" IN
          /\ Fail(IF Running(From(r)) /\ Running(To(r)) /\ ok = 0 THEN 1 ELSE 0)
          /\ metrics' = [metrics EXCEPT ![<<From(r), To(r)>>] = value,
                                        ![<<To(r), From(r)>>] = value]
    /\ handler' = IF handler[r].j < Len(handler[r].all)
                  THEN [handler EXCEPT ![r].phase = "connect", ![r].j = @ + 1]
                  ELSE [handler EXCEPT ![r].phase = "connect", ![r].i = @ + 1,
                                       ![r].j = handler[r].i + 2]
    /\ UNCHANGED <<addresses, active, holder, cutShort, started, edges, stops>>

\* The lock guard's scope ends: after the last pair, or at the first pair whose
\* source is not connected to, stopped or not, which leaves out all later pairs.
\* Mutant: the early return forgets the mutex.
UnlockAtEnd(r) ==
    /\ handler[r].phase = "connect"
    /\ Fail(IF PairsLeft(r) /\ Running(From(r)) THEN 1 ELSE 0)
    /\ cutShort' = PairsLeft(r)
    /\ holder' = IF PairsLeft(r) THEN holder ELSE Nobody
    /\ handler' = [handler EXCEPT ![r].phase = "snapshot", ![r].all = << >>,
                                  ![r].i = 1, ![r].j = 2]
    /\ UNCHANGED <<addresses, active, metrics, started, edges, stops>>
Unlock(r) ==
    /\ handler[r].phase = "connect"
    /\ Fail(IF PairsLeft(r) /\ Running(From(r)) THEN 1 ELSE 0)
    /\ cutShort' = PairsLeft(r)
    /\ holder' = Nobody
    /\ handler' = [handler EXCEPT ![r].phase = "snapshot", ![r].all = << >>,
                                  ![r].i = 1, ![r].j = 2]
    /\ UNCHANGED <<addresses, active, metrics, started, edges, stops>>

\* notifyAllNodes: the message is filled under the mutex, sent without it.
Snapshot(r) ==
    /\ handler[r].phase = "snapshot" /\ holder = Nobody
    /\ handler' = [handler EXCEPT ![r].phase = "notify", ![r].list = active]
    /\ UNCHANGED <<center, started, edges, stops, failures>>

Ahead(r) == {n \in active : Address[n] > handler[r].reached}
Visits(r, n) ==
    /\ handler[r].phase = "notify"
    /\ n \in Ahead(r) /\ \A m \in Ahead(r) : Address[n] <= Address[m]

\* The call reaches the edge server, which copies its neighbours.
Notify(r, n) ==
    /\ Visits(r, n) /\ n \in up
    /\ handler' = [handler EXCEPT ![r].phase = "wait", ![r].target = n,
                                  ![r].reached = Address[n]]
    /\ update' = [update EXCEPT ![r][n] = [NoUpdate EXCEPT
                    !.phase = "measure", !.list = handler[r].list, !.base = neighbors[n]]]
    /\ UNCHANGED <<center, started, up, neighbors, delivered, lost, overtaken, missed,
                   stops, failures>>

\* It does not: the server has stopped, or the call fails.  The status is logged.
Lose(r, n) ==
    /\ Visits(r, n)
    /\ Fail(IF n \in up THEN 1 ELSE 0)
    /\ lost' = [lost EXCEPT ![n] = IF n \in up THEN @ \cup handler[r].list ELSE @]
    /\ handler' = [handler EXCEPT ![r].reached = Address[n]]
    /\ UNCHANGED <<center, started, up, neighbors, update, delivered, overtaken, missed,
                   stops>>

\* The connection breaks while the server executes the call, and goes on.
LoseReply(r) ==
    /\ handler[r].phase = "wait"
    /\ Fail(1)
    /\ handler' = [handler EXCEPT ![r] = Resume(@, handler[r].target)]
    /\ UNCHANGED <<center, started, edges, stops>>

\* Every node has been notified.
\* Mutant: the loop ends behind the new node.
ReturnEarly(r) ==
    /\ handler[r].phase = "notify"
    /\ handler[r].reached = Address[handler[r].node]
    /\ handler' = [handler EXCEPT ![r] = NoLocals]
    /\ UNCHANGED <<center, started, edges, stops, failures>>
Return(r) ==
    /\ handler[r].phase = "notify" /\ Ahead(r) = {}
    /\ handler' = [handler EXCEPT ![r] = NoLocals]
    /\ UNCHANGED <<center, started, edges, stops, failures>>

-----------------------------------------------------------------------------
\* UpdateClusterNodes at the edge server.

\* measureLatency: an exception, which leaves the node out, when the node
\* cannot be connected to or no call succeeds.
MeasureLatency(m, ok) == Running(m) /\ ok > 0

\* The nodes of the list that the server did not have as neighbours.
Unknown(r, n) == update[r][n].list \ update[r][n].base
NearListed(r, n) == update[r][n].list \cap Near[n]

\* Nodes it had as neighbours are not measured again.
\* Mutants: the old neighbours are kept; neighbours it knows are left out.
KeepNeighbors(r, n) ==
    /\ update[r][n].phase = "measure"
    /\ \E ok \in [Unknown(r, n) -> 0..Samples] :
          LET unheard == {m \in Unknown(r, n) : ~MeasureLatency(m, ok[m])} IN
          /\ Fail(Cardinality(unheard \cap up))
          /\ update' = [update EXCEPT ![r][n].phase = "write", ![r][n].unheard = unheard,
               ![r][n].fresh = update[r][n].base \cup (NearListed(r, n) \ unheard)]
    /\ UNCHANGED <<center, started, handler, up, neighbors, delivered, lost, overtaken,
                   missed, stops>>
MeasureUnknown(r, n) ==
    /\ update[r][n].phase = "measure"
    /\ \E ok \in [Unknown(r, n) -> 0..Samples] :
          LET unheard == {m \in Unknown(r, n) : ~MeasureLatency(m, ok[m])} IN
          /\ Fail(Cardinality(unheard \cap up))
          /\ update' = [update EXCEPT ![r][n].phase = "write", ![r][n].unheard = unheard,
               ![r][n].fresh = (NearListed(r, n) \ update[r][n].base) \ unheard]
    /\ UNCHANGED <<center, started, handler, up, neighbors, delivered, lost, overtaken,
                   missed, stops>>
MeasureLatencies(r, n) ==
    /\ update[r][n].phase = "measure"
    /\ \E ok \in [Unknown(r, n) -> 0..Samples] :
          LET unheard == {m \in Unknown(r, n) : ~MeasureLatency(m, ok[m])} IN
          /\ Fail(Cardinality(unheard \cap up))
          /\ update' = [update EXCEPT ![r][n].phase = "write", ![r][n].unheard = unheard,
               ![r][n].fresh = NearListed(r, n) \ unheard]
    /\ UNCHANGED <<center, started, handler, up, neighbors, delivered, lost, overtaken,
                   missed, stops>>

\* The neighbours are replaced, and the call returns.
WriteNeighbors(r, n) ==
    LET u == update[r][n] IN
    /\ u.phase = "write"
    /\ neighbors' = [neighbors EXCEPT ![n] = u.fresh]
    /\ missed' = [missed EXCEPT ![n] = u.unheard]
    /\ delivered' = [delivered EXCEPT ![n] = @ \cup u.list]
    /\ overtaken' = IF delivered[n] \subseteq u.list
                    THEN overtaken \ {n} ELSE overtaken \cup {n}
    /\ update' = [update EXCEPT ![r][n] = NoUpdate]
    /\ handler' = [handler EXCEPT ![r] = Resume(@, n)]
    /\ UNCHANGED <<center, started, up, lost, stops, failures>>

-----------------------------------------------------------------------------
RegisterStep(r) ==
    \/ Insert(r) \/ Lock(r) \/ Connect(r) \/ Measure(r) \/ Unlock(r) \/ Snapshot(r)
    \/ LoseReply(r) \/ Return(r)
    \/ \E n \in Nodes :
          \/ Notify(r, n) \/ Lose(r, n)
          \/ MeasureLatencies(r, n) \/ WriteNeighbors(r, n)

Next ==
    \/ \E n \in Nodes : Start(n) \/ Stop(n)
    \/ \E r \in Handlers : RegisterStep(r)

Spec == Init /\ [][Next]_vars

\* Handler threads keep running; a server that stops breaks its connections,
\* none hangs.  Servers need not start or stop.
FairSpec == Spec /\ WF_vars(\E r \in Handlers : RegisterStep(r))

-----------------------------------------------------------------------------
TypeOK ==
    /\ addresses \in Seq(Nodes) /\ active \subseteq Nodes
    /\ metrics \in [(Nodes \cup {Center}) \X (Nodes \cup {Center}) ->
                       {"none", "zero", "good"}]
    /\ holder \in Handlers \cup {Nobody} /\ started \in 0..MaxRegistrations
    /\ \A r \in Handlers :
          /\ handler[r].phase \in {"done", "insert", "metrics", "connect", "measure",
                                   "snapshot", "notify", "wait"}
          /\ handler[r].node \in Nodes \cup {Center}
          /\ handler[r].target \in Nodes \cup {Center}
          /\ handler[r].all \in Seq(Nodes \cup {Center})
          /\ handler[r].list \subseteq Nodes
          /\ handler[r].reached \in {0} \cup {Address[n] : n \in Nodes}
    /\ \A r \in Handlers, n \in Nodes :
          /\ update[r][n].phase \in {"none", "measure", "write"}
          /\ update[r][n].list \subseteq Nodes /\ update[r][n].fresh \subseteq Nodes
          /\ update[r][n].unheard \subseteq Nodes
          /\ update[r][n].base \subseteq Nodes \cup {Center}
    /\ up \subseteq Nodes
    /\ neighbors \in [Nodes -> SUBSET (Nodes \cup {Center})]
    /\ delivered \in [Nodes -> SUBSET Nodes] /\ lost \in [Nodes -> SUBSET Nodes]
    /\ overtaken \subseteq Nodes /\ missed \in [Nodes -> SUBSET Nodes]
    /\ cutShort \in BOOLEAN
    /\ stops \in Nat /\ failures \in Nat /\ stops + failures <= MaxFaults

Quiet ==
    /\ \A r \in Handlers : handler[r].phase = "done"
    /\ \A r \in Handlers, n \in Nodes : update[r][n].phase = "none"

\* When all registrations have returned, every running edge server has been
\* told of every node that ever registered, whatever overlapped or stopped,
\* but for nodes of lists that were lost on the way to it.
EveryoneIsTold == Quiet => \A n \in up : active = delivered[n] \cup lost[n]

\* Then an edge server's neighbours are the near ones of the nodes it was told
\* of, except those its last list's measurements did not reach, unless an older
\* list arrived after a newer one.  Without a stop or a failure they are the
\* near ones of all nodes.
NeighborsCurrent ==
    Quiet =>
       \A n \in up \ overtaken :
          /\ neighbors[n] = IF delivered[n] = {} THEN {Center}
                            ELSE (delivered[n] \cap Near[n]) \ missed[n]
          /\ stops + failures = 0 => neighbors[n] = active \cap Near[n]

\* Registrations that overlap leave no pair of nodes unmeasured: each measures
\* all addresses of a moment after its own was stored, also the pairs an earlier
\* one left out, unless the last one was itself cut short.  A failed measurement
\* leaves zeros for its pair only.
MetricsComplete ==
    Quiet /\ (stops + failures = 0 \/ ~cutShort) =>
       \A m, n \in active \cup {Center} : m # n =>
          metrics[<<m, n>>] \in (IF stops + failures = 0 THEN {"good"} ELSE {"good", "zero"})

\* When the registrations cease, all of them return: none keeps nodes_mutex_,
\* whichever servers stop while they are measured or notified.
RegisterReturns ==
    ~Quiet ~> Quiet
=============================================================================
