------------------------ MODULE CacheReplacementProofs ------------------------
(***************************************************************************)
(* Center, databases and indexes, for any number of nodes, blocks, rounds  *)
(* and faults.  The record: its types, its capacity, and that it           *)
(* implements PlanDelivery.  The argument is RecordInv: within a round the *)
(* entry of a node differs from the plan by no more than what the round    *)
(* still adds and removes, so the end of a successful call makes it the    *)
(* plan, also when the node is visited twice.  Databases and indexes       *)
(* against the record: the argument is StoreInv, below.                    *)
(***************************************************************************)
EXTENDS CacheReplacement, FiniteSetTheorems, TLAPS

\* While the thread waits for a call, it is within a round, at an address.
WaitsForAddress == current # 0 => pc = "executing" /\ work # << >>

USE CapacityIsNat, NearIsNodes, ExactIsPairs, BoundsAreNat

-----------------------------------------------------------------------------
\* What an index counts for a block stays the value of a counter.
LEMMA CountsStayCounters ==
    ASSUME NEW exact, NEW count \in 0..255
    PROVE  /\ IndexAdd(exact, count) \in 0..255
           /\ IndexRemove(exact, count) \in 0..255
BY DEF IndexAdd, IndexRemove

\* So does everything a push applies.
LEMMA ApplyType ==
    ASSUME TypeOK, NEW m \in Nodes, NEW n \in Nodes, NEW ops
    PROVE  Apply(m, n, ops) \in [Blocks -> 0..255]
<1>1. ASSUME NEW b \in Blocks PROVE index[m][n][b] \in 0..255
  BY DEF TypeOK
<1>2. QED
  BY <1>1, CountsStayCounters DEF Apply

\* The end of a call keeps the types of what it changes.
LEMMA CallEndsType ==
    ASSUME TypeOK, WaitsForAddress, NEW id \in Nat \ {0}, NEW n \in Nodes,
           NEW ok \in BOOLEAN, CallEnds(id, n, ok)
    PROVE  /\ alloc' \in [Nodes -> SUBSET Blocks]
           /\ current' \in 0..calls
           /\ work' \in Seq(Nodes)
<1>1. CASE id = current
  <2>1. work \in Seq(Nodes) /\ work # << >>
    BY <1>1 DEF TypeOK, WaitsForAddress
  <2>2. Tail(work) \in Seq(Nodes)
    BY <2>1
  <2>3. work' = Tail(work) /\ current' = 0
    BY <1>1 DEF CallEnds
  <2>4. alloc' \in [Nodes -> SUBSET Blocks]
    <3>1. (alloc[n] \cup toAdd[n]) \ toRemove[n] \in SUBSET Blocks
      BY DEF TypeOK
    <3>2. alloc \in [Nodes -> SUBSET Blocks]
      BY DEF TypeOK
    <3>3. \/ alloc' = alloc
          \/ alloc' = [alloc EXCEPT ![n] = (alloc[n] \cup toAdd[n]) \ toRemove[n]]
      BY <1>1 DEF CallEnds
    <3> QED BY <3>1, <3>2, <3>3
  <2> QED BY <2>2, <2>3, <2>4 DEF TypeOK
<1>2. CASE id # current
  BY <1>2 DEF TypeOK, CallEnds
<1> QED BY <1>1, <1>2

-----------------------------------------------------------------------------
\* Type correctness.

TypeInv == TypeOK /\ WaitsForAddress

LEMMA InitTypes == Init => TypeInv
BY DEF Init, TypeInv, TypeOK, WaitsForAddress, NoBlocks

LEMMA RegisteredAreNodes ==
    ASSUME TypeOK
    PROVE  Registered \subseteq Nodes
BY DEF Registered, Range, TypeOK

\* The steps of the replacement thread.
LEMMA CenterTypes ==
    ASSUME TypeInv, CenterStep
    PROVE  TypeInv'
<1> USE DEF TypeInv
<1>1. ASSUME NEW known \in SUBSET Blocks,
             NEW p \in Plans(known), StartRound(known, p)
      PROVE  TypeInv'
  <2>1. p \in [Nodes -> SUBSET Blocks]
    BY DEF Plans, Fitting
  <2>2. toAdd' \in [Nodes -> SUBSET Blocks] /\ toRemove' \in [Nodes -> SUBSET Blocks]
    BY <1>1, <2>1 DEF StartRound, Adds, Removes, TypeOK
  <2> QED BY <1>1, <2>1, <2>2 DEF StartRound, TypeOK, WaitsForAddress, edges
<1>2. CASE SkipNode
  <2>1. Tail(work) \in Seq(Nodes)
    BY <1>2 DEF SkipNode, TypeOK
  <2> QED BY <1>2, <2>1 DEF SkipNode, TypeOK, WaitsForAddress, edges, ghosts
<1>3. CASE Call
  <2>1. Head(work) \in Nodes
    BY <1>3 DEF Call, TypeOK
  <2>2. Request(Head(work)) \subseteq {"ADD", "REMOVE"} \X Blocks
    BY <2>1 DEF Request, TypeOK
  <2> DEFINE call == [id |-> calls + 1, node |-> Head(work), ops |-> Request(Head(work)),
                      left |-> Request(Head(work)), phase |-> "ops", push |-> {}]
  <2>3. call \in Handler
    BY <2>1, <2>2 DEF Handler, TypeOK
  <2>4. handlers' = handlers \cup {call}
    BY <1>3 DEF Call
  <2>5. \A h \in handlers' : h \in Handler
    BY <2>3, <2>4 DEF TypeOK
  <2>6. disturbed' \subseteq Nodes
    BY <1>3, <2>1 DEF Call, TypeOK
  <2>7. current' \in 0..calls' /\ calls' \in Nat
    BY <1>3 DEF Call, TypeOK
  <2> HIDE DEF call
  <2> QED BY <1>3, <2>5, <2>6, <2>7 DEF Call, TypeOK, WaitsForAddress
<1>4. CASE FinishRound
  <2>1. settled' \subseteq Nodes
    BY <1>4, RegisteredAreNodes DEF FinishRound
  <2> QED BY <1>4, <2>1 DEF FinishRound, TypeOK, WaitsForAddress, edges, ghosts
<1> QED BY <1>1, <1>2, <1>3, <1>4 DEF CenterStep

\* The steps of an edge server: operations, pushes and the reply.
LEMMA HandlerTypes ==
    ASSUME TypeInv, NEW h \in handlers
    PROVE  /\ DoOp(h) => TypeInv'
           /\ StartPush(h) => TypeInv'
           /\ \A m \in Nodes : Push(h, m) => TypeInv'
           /\ \A m \in Nodes : PushLost(h, m) => TypeInv'
           /\ Return(h) => TypeInv'
<1> USE DEF TypeInv
<1>1. h \in Handler /\ h.node \in Nodes
  BY DEF TypeOK, Handler
<1>2. CASE DoOp(h)
  <2>1. PICK op \in NextOps(h) :
          /\ stored' = [stored EXCEPT ![h.node][op[2]] = Effect(op, @)]
          /\ handlers' = (handlers \ {h}) \cup {[h EXCEPT !.left = @ \ {op}]}
    BY <1>2 DEF DoOp
  <2>2. op \in {"ADD", "REMOVE"} \X Blocks
    BY <1>1 DEF NextOps, Handler
  <2>3. op[2] \in Blocks /\ stored[h.node][op[2]] \in Nat
    BY <1>1, <2>2 DEF TypeOK
  <2>4. Effect(op, stored[h.node][op[2]]) \in Nat
    BY <2>3 DEF Effect
  <2>5. stored' \in [Nodes -> [Blocks -> Nat]]
    BY <1>1, <2>1, <2>3, <2>4 DEF TypeOK
  <2>6. [h EXCEPT !.left = @ \ {op}] \in Handler
    BY <1>1 DEF Handler
  <2>7. \A k \in handlers' : k \in Handler
    BY <2>1, <2>6 DEF TypeOK
  <2> QED BY <1>2, <2>5, <2>7 DEF DoOp, TypeOK, WaitsForAddress, center, ghosts
<1>3. CASE StartPush(h)
  <2>1. [h EXCEPT !.phase = "push", !.push = neighbors[h.node]] \in Handler
    BY <1>1 DEF Handler, TypeOK
  <2>2. \A k \in handlers' : k \in Handler
    BY <1>3, <2>1 DEF StartPush, TypeOK
  <2>3. missed' \subseteq Nodes \X Nodes
    BY <1>1, <1>3 DEF StartPush, TypeOK
  <2> QED BY <1>3, <2>2, <2>3 DEF StartPush, TypeOK, WaitsForAddress, center
<1>4. ASSUME NEW m \in Nodes, Push(h, m) PROVE TypeInv'
  <2>1. [h EXCEPT !.push = @ \ {m}] \in Handler
    BY <1>1 DEF Handler
  <2>2. \A k \in handlers' : k \in Handler
    BY <1>4, <2>1 DEF Push, TypeOK
  <2>3. Apply(m, h.node, h.ops) \in [Blocks -> 0..255]
    BY <1>1, ApplyType
  <2>4. index' \in [Nodes -> [Nodes -> [Blocks -> 0..255]]]
    BY <1>1, <1>4, <2>3 DEF Push, TypeOK
  <2> QED BY <1>4, <2>2, <2>4 DEF Push, TypeOK, WaitsForAddress, center, ghosts
<1>5. ASSUME NEW m \in Nodes, PushLost(h, m) PROVE TypeInv'
  <2>1. [h EXCEPT !.push = @ \ {m}] \in Handler
    BY <1>1 DEF Handler
  <2>2. \A k \in handlers' : k \in Handler
    BY <1>5, <2>1 DEF PushLost, TypeOK
  <2>3. missed' \subseteq Nodes \X Nodes /\ faults' \in 0..MaxFaults
    BY <1>1, <1>5 DEF PushLost, TypeOK
  <2> QED BY <1>5, <2>2, <2>3 DEF PushLost, TypeOK, WaitsForAddress, center
<1>6. CASE Return(h)
  <2>1. h.id \in Nat \ {0}
    BY <1>1 DEF Handler
  <2>2. CallEnds(h.id, h.node, TRUE)
    BY <1>6 DEF Return
  <2>3. /\ alloc' \in [Nodes -> SUBSET Blocks]
        /\ current' \in 0..calls
        /\ work' \in Seq(Nodes)
    BY <1>1, <2>1, <2>2, CallEndsType
  <2>4. WaitsForAddress'
    BY <1>6, <2>2 DEF Return, CallEnds, WaitsForAddress
  <2>5. \A k \in handlers' : k \in Handler
    BY <1>6 DEF Return, TypeOK
  <2> QED BY <1>6, <2>3, <2>4, <2>5 DEF Return, TypeOK, ghosts
<1> QED BY <1>2, <1>3, <1>4, <1>5, <1>6

\* A call that fails, in the database or because the stream is not known.
LEMMA FailureTypes ==
    ASSUME TypeInv, NEW h \in handlers
    PROVE  FailUnknownStream(h) \/ FailOp(h) => TypeInv'
<1> USE DEF TypeInv
<1> SUFFICES ASSUME FailUnknownStream(h) \/ FailOp(h) PROVE TypeInv'
  OBVIOUS
<1>1. h \in Handler /\ h.node \in Nodes /\ h.id \in Nat \ {0}
  BY DEF TypeOK, Handler
<1>2. HandlerFails(h)
  BY DEF FailUnknownStream, FailOp
<1>3. CallEnds(h.id, h.node, FALSE)
  BY <1>2 DEF HandlerFails
<1>4. /\ alloc' \in [Nodes -> SUBSET Blocks]
      /\ current' \in 0..calls
      /\ work' \in Seq(Nodes)
  BY <1>1, <1>3, CallEndsType
<1>5. WaitsForAddress'
  BY <1>2, <1>3 DEF HandlerFails, CallEnds, WaitsForAddress
<1>6. stored' \in [Nodes -> [Blocks -> Nat]]
  <2>1. ASSUME NEW op \in NextOps(h),
               stored' = [stored EXCEPT ![h.node][op[2]] = Effect(op, @)]
        PROVE  stored' \in [Nodes -> [Blocks -> Nat]]
    <3>1. op[2] \in Blocks /\ stored[h.node][op[2]] \in Nat
      BY <1>1 DEF NextOps, Handler, TypeOK
    <3>2. Effect(op, stored[h.node][op[2]]) \in Nat
      BY <3>1 DEF Effect
    <3> QED BY <1>1, <2>1, <3>1, <3>2 DEF TypeOK
  <2> QED BY <2>1 DEF FailUnknownStream, FailOp, TypeOK
<1>7. faults' \in 0..MaxFaults
  BY DEF FailUnknownStream, FailOp, TypeOK
<1>8. disturbed' \subseteq Nodes /\ \A k \in handlers' : k \in Handler
  BY <1>1, <1>2 DEF HandlerFails, TypeOK
<1> QED BY <1>2, <1>4, <1>5, <1>6, <1>7, <1>8 DEF HandlerFails, TypeOK

\* Registrations, notifications, and the faults that are no handler's.
LEMMA RegisterTypes ==
    ASSUME TypeInv, NEW n \in Nodes
    PROVE  Register(n) \/ UpdateClusterNodes(n) => TypeInv'
<1> USE DEF TypeInv
<1>1. CASE Register(n)
  <2>1. addresses' \in Seq(Nodes)
    BY <1>1 DEF Register, TypeOK
  <2> QED BY <1>1, <2>1 DEF Register, TypeOK, WaitsForAddress, edges, ghosts
<1>2. CASE UpdateClusterNodes(n)
  <2>1. Registered \cap Near[n] \in SUBSET Nodes
    BY DEF TypeOK
  <2>2. neighbors' \in [Nodes -> SUBSET Nodes] /\ notified' \subseteq Nodes
    BY <1>2, <2>1 DEF UpdateClusterNodes, TypeOK
  <2> QED BY <1>2, <2>2 DEF UpdateClusterNodes, TypeOK, WaitsForAddress, center, ghosts
<1> QED BY <1>1, <1>2

LEMMA RestartTypes ==
    ASSUME TypeInv, NEW n \in Nodes, Restart(n)
    PROVE  TypeInv'
<1> USE DEF TypeInv
<1>1. \/ current # 0 /\ CallEnds(current, n, FALSE)
      \/ UNCHANGED <<current, work, alloc>>
  <2>1. ASSUME NEW h \in handlers, h.node = n, h.id = current
        PROVE  current # 0
    BY <2>1 DEF TypeOK, Handler
  <2> QED BY <2>1 DEF Restart
<1>2. /\ alloc' \in [Nodes -> SUBSET Blocks]
      /\ current' \in 0..calls
      /\ work' \in Seq(Nodes)
  <2>1. CASE current # 0 /\ CallEnds(current, n, FALSE)
    <3>1. current \in Nat \ {0}
      BY <2>1 DEF TypeOK
    <3> QED BY <2>1, <3>1, CallEndsType
  <2> QED BY <1>1, <2>1 DEF TypeOK
<1>3. WaitsForAddress'
  BY <1>1 DEF Restart, CallEnds, WaitsForAddress
<1>4. addresses' \in Seq(Nodes)
  BY DEF Restart, TypeOK
<1>5. /\ [m \in Nodes |-> NoBlocks] \in [Nodes -> [Blocks -> 0..255]]
      /\ {n} \X Nodes \subseteq Nodes \X Nodes
  BY DEF NoBlocks
<1>6. index' \in [Nodes -> [Nodes -> [Blocks -> 0..255]]]
  BY <1>5 DEF Restart, TypeOK
<1>7. /\ notified' \subseteq Nodes /\ neighbors' \in [Nodes -> SUBSET Nodes]
      /\ disturbed' \subseteq Nodes /\ missed' \subseteq Nodes \X Nodes
      /\ faults' \in 0..MaxFaults
  BY <1>5 DEF Restart, TypeOK
<1>8. \A h \in handlers' : h \in Handler
  BY DEF Restart, TypeOK
<1> QED BY <1>2, <1>3, <1>4, <1>6, <1>7, <1>8 DEF Restart, TypeOK

LEMMA LostCallTypes ==
    ASSUME TypeInv
    PROVE  CallUnreachable \/ ReplyLost => TypeInv'
<1> USE DEF TypeInv
<1>1. CASE CallUnreachable
  <2>1. Tail(work) \in Seq(Nodes) /\ Head(work) \in Nodes
    BY <1>1 DEF CallUnreachable, TypeOK
  <2>2. faults' \in 0..MaxFaults /\ disturbed' \subseteq Nodes
    BY <1>1, <2>1 DEF CallUnreachable, TypeOK
  <2> QED BY <1>1, <2>1, <2>2 DEF CallUnreachable, TypeOK, WaitsForAddress, edges
<1>2. CASE ReplyLost
  <2>1. current \in Nat \ {0} /\ Head(work) \in Nodes
    BY <1>2 DEF ReplyLost, TypeOK, WaitsForAddress
  <2>2. CallEnds(current, Head(work), FALSE)
    BY <1>2 DEF ReplyLost
  <2>3. /\ alloc' \in [Nodes -> SUBSET Blocks]
        /\ current' \in 0..calls
        /\ work' \in Seq(Nodes)
    BY <2>1, <2>2, CallEndsType
  <2>4. WaitsForAddress'
    BY <2>2 DEF CallEnds, WaitsForAddress
  <2>5. faults' \in 0..MaxFaults /\ disturbed' \subseteq Nodes
    BY <1>2, <2>1 DEF ReplyLost, TypeOK
  <2> QED BY <1>2, <2>3, <2>4, <2>5 DEF ReplyLost, TypeOK, edges
<1> QED BY <1>1, <1>2

LEMMA TypesKept == TypeInv /\ [Next]_vars => TypeInv'
<1> SUFFICES ASSUME TypeInv, [Next]_vars PROVE TypeInv'
  OBVIOUS
<1>1. CASE UNCHANGED vars
  BY <1>1 DEF vars, center, edges, ghosts, TypeInv, TypeOK, WaitsForAddress
<1>2. ASSUME NEW n \in Nodes, Register(n) \/ UpdateClusterNodes(n) PROVE TypeInv'
  BY <1>2, RegisterTypes
<1>3. CASE HandlerStep
  <2>1. PICK h \in handlers :
          \/ DoOp(h) \/ FailUnknownStream(h) \/ StartPush(h) \/ Return(h)
          \/ \E m \in Nodes : Push(h, m)
    BY <1>3 DEF HandlerStep
  <2> QED BY <2>1, HandlerTypes, FailureTypes
<1>4. CASE Fault
  <2>1. ASSUME NEW h \in handlers, FailOp(h) \/ \E m \in Nodes : PushLost(h, m)
        PROVE  TypeInv'
    BY <2>1, HandlerTypes, FailureTypes
  <2> QED BY <1>4, <2>1, RestartTypes, LostCallTypes DEF Fault
<1> QED BY <1>1, <1>2, <1>3, <1>4, CenterTypes DEF Next

\* The state of center, edges and calls keeps its types, for any number of
\* nodes, blocks, addresses, rounds and faults.
THEOREM TypeCorrect == Spec => []TypeOK
<1>1. Spec => []TypeInv
  BY InitTypes, TypesKept, PTL DEF Spec
<1> QED BY <1>1, PTL DEF TypeInv

-----------------------------------------------------------------------------
\* The record.

\* What the round still adds and removes is the whole difference between the
\* record and the plan, for every node the plan has an entry for.
Remainder(n) ==
    IF plan[n] = {} THEN toAdd[n] = {} /\ toRemove[n] = {}
    ELSE /\ toAdd[n] \subseteq plan[n] /\ toRemove[n] \cap plan[n] = {}
         /\ pc = "executing" =>
              plan[n] \subseteq alloc[n] \cup toAdd[n]
              /\ alloc[n] \subseteq plan[n] \cup toRemove[n]

RecordInv ==
    \A n \in Nodes :
       /\ Remainder(n)
       /\ Cardinality(plan[n]) <= Capacity
       /\ Cardinality(alloc[n]) <= Capacity

\* A step that leaves center and plan alone keeps the record.
LEMMA RecordStands ==
    ASSUME RecordInv, UNCHANGED <<alloc, pc, plan, toAdd, toRemove>>
    PROVE  RecordInv'
BY DEF RecordInv, Remainder

\* The end of a call leaves the record alone or makes the entry of its node
\* the plan's.
LEMMA CallEndsDelivers ==
    ASSUME TypeInv, RecordInv, NEW id \in Nat \ {0}, NEW n \in Nodes,
           NEW ok \in BOOLEAN, CallEnds(id, n, ok),
           UNCHANGED <<pc, plan, toAdd, toRemove>>
    PROVE  /\ RecordInv'
           /\ alloc' = alloc \/ Delivery!Deliver(n)
<1>1. CASE alloc' = alloc
  BY <1>1, RecordStands
<1>2. CASE alloc' # alloc
  <2>1. /\ id = current /\ current # 0
        /\ alloc' = [alloc EXCEPT ![n] = (alloc[n] \cup toAdd[n]) \ toRemove[n]]
    BY <1>2 DEF CallEnds
  <2>2. pc = "executing" /\ alloc \in [Nodes -> SUBSET Blocks]
    BY <2>1 DEF TypeInv, TypeOK, WaitsForAddress
  <2>3. plan[n] # {}
    <3>1. SUFFICES ASSUME plan[n] = {} PROVE alloc' = alloc
      BY <1>2
    <3>2. toAdd[n] = {} /\ toRemove[n] = {}
      BY <3>1 DEF RecordInv, Remainder
    <3>3. (alloc[n] \cup toAdd[n]) \ toRemove[n] = alloc[n]
      BY <3>2
    <3> QED BY <2>1, <2>2, <3>3
  <2>4. (alloc[n] \cup toAdd[n]) \ toRemove[n] = plan[n]
    BY <2>2, <2>3 DEF RecordInv, Remainder
  <2>5. alloc' = [alloc EXCEPT ![n] = plan[n]]
    BY <2>1, <2>4
  <2>6. Delivery!Deliver(n)
    BY <2>2, <2>3, <2>5 DEF Delivery!Deliver
  <2>7. ASSUME NEW m \in Nodes
        PROVE  Remainder(m)' /\ Cardinality(plan'[m]) <= Capacity
                             /\ Cardinality(alloc'[m]) <= Capacity
    <3>1. alloc'[m] = IF m = n THEN plan[n] ELSE alloc[m]
      BY <2>2, <2>5
    <3> QED BY <2>2, <2>3, <3>1 DEF RecordInv, Remainder
  <2> QED BY <2>6, <2>7 DEF RecordInv
<1> QED BY <1>1, <1>2

\* The start of a round begins a delivery: the difference is taken from the
\* record as it is.
LEMMA StartRoundBegins ==
    ASSUME TypeInv, RecordInv, NEW known \in SUBSET Blocks,
           NEW p \in Plans(known), StartRound(known, p)
    PROVE  RecordInv' /\ Delivery!Begin
<1>1. p \in [Nodes -> SUBSET Blocks] /\ \A n \in Nodes : Cardinality(p[n]) <= Capacity
  BY DEF Plans, Fitting
<1>2. p \in Fitting
  BY DEF Plans
<1>3. /\ pc = "idle" /\ pc' = "executing" /\ plan' = p /\ alloc' = alloc
      /\ toAdd' = [n \in Nodes |-> Adds(p, n)]
      /\ toRemove' = [n \in Nodes |-> Removes(p, n)]
  BY DEF StartRound
<1>4. Delivery!Begin
  BY <1>2, <1>3 DEF Delivery!Begin
<1>5. ASSUME NEW n \in Nodes
      PROVE  Remainder(n)' /\ Cardinality(plan'[n]) <= Capacity
                           /\ Cardinality(alloc'[n]) <= Capacity
  <2>1. toAdd'[n] = Adds(p, n) /\ toRemove'[n] = Removes(p, n)
    BY <1>3
  <2> QED BY <1>1, <1>3, <2>1 DEF Remainder, RecordInv, Adds, Removes
<1> QED BY <1>4, <1>5 DEF RecordInv

DeliveryStep == Delivery!Next \/ UNCHANGED <<alloc, plan, pc = "executing">>

\* The steps of the replacement thread, outside its calls.
LEMMA CenterDelivers ==
    ASSUME TypeInv, RecordInv, CenterStep
    PROVE  RecordInv' /\ DeliveryStep
<1>1. ASSUME NEW known \in SUBSET Blocks,
             NEW p \in Plans(known), StartRound(known, p)
      PROVE  RecordInv' /\ DeliveryStep
  BY <1>1, StartRoundBegins DEF DeliveryStep, Delivery!Next
<1>2. CASE SkipNode
  BY <1>2, RecordStands DEF SkipNode, DeliveryStep
<1>3. CASE Call
  BY <1>3, RecordStands DEF Call, DeliveryStep
<1>4. CASE FinishRound
  <2>1. pc = "executing" /\ pc' = "idle" /\ UNCHANGED <<alloc, plan, toAdd, toRemove>>
    BY <1>4 DEF FinishRound
  <2>2. Delivery!End
    BY <2>1 DEF Delivery!End
  <2>3. RecordInv'
    BY <2>1 DEF RecordInv, Remainder
  <2> QED BY <2>2, <2>3 DEF DeliveryStep, Delivery!Next
<1> QED BY <1>1, <1>2, <1>3, <1>4 DEF CenterStep

\* The steps of a handler: only those that end the call reach the record.
LEMMA HandlerDelivers ==
    ASSUME TypeInv, RecordInv, NEW h \in handlers,
           \/ DoOp(h) \/ FailUnknownStream(h) \/ StartPush(h) \/ Return(h)
           \/ FailOp(h)
           \/ \E m \in Nodes : Push(h, m) \/ PushLost(h, m)
    PROVE  RecordInv' /\ DeliveryStep
<1>1. h.node \in Nodes /\ h.id \in Nat \ {0}
  BY DEF TypeInv, TypeOK, Handler
<1>2. CASE DoOp(h) \/ StartPush(h) \/ \E m \in Nodes : Push(h, m) \/ PushLost(h, m)
  <2>1. UNCHANGED <<alloc, pc, plan, toAdd, toRemove>>
    BY <1>2 DEF DoOp, StartPush, Push, PushLost, center
  <2> QED BY <2>1, RecordStands DEF DeliveryStep
<1>3. CASE Return(h) \/ FailUnknownStream(h) \/ FailOp(h)
  <2>1. PICK ok \in BOOLEAN : CallEnds(h.id, h.node, ok)
    BY <1>3 DEF Return, FailUnknownStream, FailOp, HandlerFails
  <2>2. UNCHANGED <<pc, plan, toAdd, toRemove>>
    BY <1>3 DEF Return, FailUnknownStream, FailOp, HandlerFails
  <2>3. RecordInv' /\ (alloc' = alloc \/ Delivery!Deliver(h.node))
    BY <1>1, <2>1, <2>2, CallEndsDelivers
  <2> QED BY <1>1, <2>2, <2>3 DEF DeliveryStep, Delivery!Next
<1> QED BY <1>2, <1>3

\* The faults outside the handlers, registrations and notifications.
LEMMA OthersDeliver ==
    ASSUME TypeInv, RecordInv, NEW n \in Nodes,
           Register(n) \/ UpdateClusterNodes(n) \/ Restart(n)
    PROVE  RecordInv' /\ DeliveryStep
<1>1. CASE Register(n) \/ UpdateClusterNodes(n)
  <2>1. UNCHANGED <<alloc, pc, plan, toAdd, toRemove>>
    BY <1>1 DEF Register, UpdateClusterNodes, center
  <2> QED BY <2>1, RecordStands DEF DeliveryStep
<1>2. CASE Restart(n)
  <2>1. UNCHANGED <<pc, plan, toAdd, toRemove>>
    BY <1>2 DEF Restart
  <2>2. CASE UNCHANGED alloc
    BY <2>1, <2>2, RecordStands DEF DeliveryStep
  <2>3. CASE ~UNCHANGED alloc
    <3>1. PICK h \in handlers : h.node = n /\ h.id = current
      BY <1>2, <2>3 DEF Restart
    <3>2. current \in Nat \ {0}
      BY <3>1 DEF TypeInv, TypeOK, Handler
    <3>3. CallEnds(current, n, FALSE)
      BY <1>2, <2>3 DEF Restart
    <3>4. RecordInv' /\ (alloc' = alloc \/ Delivery!Deliver(n))
      BY <2>1, <3>2, <3>3, CallEndsDelivers
    <3> QED BY <2>1, <3>4 DEF DeliveryStep, Delivery!Next
  <2> QED BY <2>2, <2>3
<1> QED BY <1>1, <1>2

LEMMA LostCallsDeliver ==
    ASSUME TypeInv, RecordInv, CallUnreachable \/ ReplyLost
    PROVE  RecordInv' /\ DeliveryStep
<1>1. UNCHANGED <<alloc, pc, plan, toAdd, toRemove>>
  BY DEF CallUnreachable, ReplyLost, CallEnds
<1> QED BY <1>1, RecordStands DEF DeliveryStep

LEMMA RecordKept ==
    TypeInv /\ RecordInv /\ [Next]_vars => RecordInv' /\ DeliveryStep
<1> SUFFICES ASSUME TypeInv, RecordInv, [Next]_vars PROVE RecordInv' /\ DeliveryStep
  OBVIOUS
<1>1. CASE UNCHANGED vars
  BY <1>1, RecordStands DEF vars, center, DeliveryStep
<1>2. CASE \E n \in Nodes : Register(n) \/ UpdateClusterNodes(n)
  BY <1>2, OthersDeliver
<1>3. CASE HandlerStep
  <2>1. PICK h \in handlers :
          \/ DoOp(h) \/ FailUnknownStream(h) \/ StartPush(h) \/ Return(h)
          \/ \E m \in Nodes : Push(h, m)
    BY <1>3 DEF HandlerStep
  <2> QED BY <2>1, HandlerDelivers
<1>4. CASE Fault
  <2>1. ASSUME NEW h \in handlers, FailOp(h) \/ \E m \in Nodes : PushLost(h, m)
        PROVE  RecordInv' /\ DeliveryStep
    BY <2>1, HandlerDelivers
  <2> QED BY <1>4, <2>1, OthersDeliver, LostCallsDeliver DEF Fault
<1> QED BY <1>1, <1>2, <1>3, <1>4, CenterDelivers DEF Next

LEMMA InitRecord == Init => RecordInv /\ Delivery!Init
<1> SUFFICES ASSUME Init PROVE RecordInv /\ Delivery!Init
  OBVIOUS
<1>1. Cardinality({}) = 0
  BY FS_EmptySet
<1>2. RecordInv
  BY <1>1 DEF Init, RecordInv, Remainder
<1>3. Delivery!Init
  BY DEF Init, Delivery!Init
<1> QED BY <1>2, <1>3

LEMMA RecordAlways == Spec => [](TypeInv /\ RecordInv)
<1>1. Init => TypeInv /\ RecordInv
  BY InitTypes, InitRecord
<1>2. TypeInv /\ RecordInv /\ [Next]_vars => (TypeInv /\ RecordInv)'
  BY TypesKept, RecordKept
<1> QED BY <1>1, <1>2, PTL DEF Spec

\* Whatever fails, in how many rounds ever, what the center believes a node
\* caches fits the node.
THEOREM RecordWithinCapacityHolds == Spec => []RecordWithinCapacity
<1>1. RecordInv => RecordWithinCapacity
  BY DEF RecordInv, RecordWithinCapacity
<1> QED BY <1>1, RecordAlways, PTL

\* The center's record changes in whole plans, node by node, within rounds.
THEOREM DeliversWholePlansHolds == Spec => DeliversWholePlans
<1>1. Init => Delivery!Init
  BY InitRecord
<1>2. TypeInv /\ RecordInv /\ [Next]_vars
        => [Delivery!Next]_<<alloc, plan, pc = "executing">>
  BY RecordKept DEF DeliveryStep
<1> QED BY <1>1, <1>2, RecordAlways, PTL DEF Spec, DeliversWholePlans, Delivery!Spec

-----------------------------------------------------------------------------
\* Databases and indexes against the record.  At a node that nothing has
\* disturbed the only handler is that of the call the center waits for, and its
\* remaining operations say for every block how far database and indexes are
\* between the node's old entry and its new one.

Has(blocks, b) == IF b \in blocks THEN 1 ELSE 0

\* Calls are numbered; a handler is at the node the center waits for, and at
\* an undisturbed node it executes the request of this round.
HandlersInv ==
    /\ \A h \in handlers :
          /\ h.id <= calls /\ h.left \subseteq h.ops
          /\ h.phase = "push" => h.left = {}
          /\ h.id = current => h.node = Head(work)
          /\ h.node \notin disturbed => h.id = current /\ h.ops = Request(h.node)
    /\ \A h, k \in handlers : h.id = k.id => h = k

\* The node of the call is not visited again, unless it is marked.
VisitedOnce ==
    current # 0 /\ Head(work) \notin disturbed =>
       \A i \in 2..Len(work) : work[i] # Head(work)

\* What a node that is still to be visited adds is not there, what it removes is.
NotYetDelivered ==
    pc = "executing" =>
       \A i \in 1..Len(work) : work[i] \notin disturbed =>
          /\ toAdd[work[i]] \cap alloc[work[i]] = {}
          /\ toRemove[work[i]] \subseteq alloc[work[i]]

WorkInv == VisitedOnce /\ NotYetDelivered

\* Copies of b at h's node, given what h has still to do.
Copies(h, b) ==
    IF b \in toAdd[h.node] THEN IF <<"ADD", b>> \in h.left THEN 0 ELSE 1
    ELSE IF b \in toRemove[h.node] THEN IF <<"REMOVE", b>> \in h.left THEN 1 ELSE 0
    ELSE Has(alloc[h.node], b)

StoreAt(n) ==
    \A b \in Blocks :
       /\ ~InCall(n) => stored[n][b] = Has(alloc[n], b)
       /\ \A h \in handlers : h.node = n => stored[n][b] = Copies(h, b)

\* What m's index counts of b at h's node: the new entry once m has the push.
NewEntry(n) == (alloc[n] \cup toAdd[n]) \ toRemove[n]
Counted(h, m, b) ==
    Has(IF h.phase = "push" /\ m \notin h.push THEN NewEntry(h.node) ELSE alloc[h.node], b)

IndexAt(m, n) ==
    \A b \in Blocks :
       /\ ~InCall(n) => index[m][n][b] = Has(alloc[n], b)
       /\ \A h \in handlers : h.node = n => index[m][n][b] = Counted(h, m, b)

Agrees(n) == StoreAt(n) /\ \A m \in Nodes : <<m, n>> \notin missed => IndexAt(m, n)
ProgressInv == \A n \in Nodes \ disturbed : Agrees(n)

StoreInv ==
    /\ TypeInv /\ RecordInv
    /\ HandlersInv /\ WorkInv
    /\ ProgressInv

-----------------------------------------------------------------------------
\* Handlers.

LEMMA NoCallNoHandler ==
    ASSUME TypeInv, HandlersInv, current = 0, NEW h \in handlers
    PROVE  h.node \in disturbed
BY DEF TypeInv, TypeOK, Handler, HandlersInv

LEMMA OneHandler ==
    ASSUME HandlersInv, NEW h \in handlers, NEW k \in handlers,
           h.node = k.node, h.node \notin disturbed
    PROVE  h = k
BY DEF HandlersInv

\* A step that leaves handlers and their round alone.
LEMMA HandlersStand ==
    ASSUME TypeInv, HandlersInv, disturbed \subseteq disturbed',
           UNCHANGED <<handlers, calls>>,
           \/ UNCHANGED <<current, work, toAdd, toRemove>>
           \/ current = 0 /\ current' = 0
    PROVE  HandlersInv'
<1>1. CASE UNCHANGED <<current, work, toAdd, toRemove>>
  BY <1>1 DEF HandlersInv, Request
<1>2. CASE current = 0 /\ current' = 0
  <2>1. \A h \in handlers : h.id # 0 /\ h.node \in disturbed
    BY <1>2, NoCallNoHandler DEF TypeInv, TypeOK, Handler
  <2> QED BY <1>2, <2>1 DEF HandlersInv
<1> QED BY <1>1, <1>2

\* A handler goes on.
Advances(h, g) ==
    /\ handlers' = (handlers \ {h}) \cup {g}
    /\ g.id = h.id /\ g.node = h.node /\ g.ops = h.ops /\ g.left \subseteq h.left
    /\ g.phase = "push" => g.left = {}
    /\ UNCHANGED <<center, calls, disturbed>>

LEMMA HandlerAdvances ==
    ASSUME HandlersInv, NEW h \in handlers, NEW g, Advances(h, g)
    PROVE  HandlersInv' /\ \A n \in Nodes : InCall(n)' <=> InCall(n)
<1>1. HandlersInv'
  <2> USE DEF Advances, center
  <2>1. ASSUME NEW k \in handlers'
        PROVE  /\ k.id <= calls' /\ k.left \subseteq k.ops
               /\ k.phase = "push" => k.left = {}
               /\ k.id = current' => k.node = Head(work')
               /\ k.node \notin disturbed' => k.id = current' /\ k.ops = Request(k.node)'
    BY DEF HandlersInv, Request
  <2>2. ASSUME NEW k \in handlers', NEW l \in handlers', k.id = l.id PROVE k = l
    BY <2>2 DEF HandlersInv
  <2> QED BY <2>1, <2>2 DEF HandlersInv
<1> QED BY <1>1 DEF Advances, InCall

\* A handler ends, and with it the call if the center still waits for it.
Ends(h, ok) ==
    /\ handlers' = handlers \ {h}
    /\ CallEnds(h.id, h.node, ok)
    /\ disturbed \subseteq disturbed'
    /\ UNCHANGED <<pc, toAdd, toRemove, calls>>

LEMMA HandlerEnds ==
    ASSUME TypeInv, HandlersInv, NEW h \in handlers, NEW ok, Ends(h, ok)
    PROVE  HandlersInv'
<1> USE DEF Ends
<1>1. CASE h.id = current
  <2>1. current' = 0
    BY <1>1 DEF CallEnds
  <2>2. ASSUME NEW k \in handlers' PROVE k.id # 0 /\ k.node \in disturbed'
    <3>1. k \in handlers /\ k.id # h.id
      BY DEF HandlersInv
    <3> QED BY <1>1, <3>1 DEF TypeInv, TypeOK, Handler, HandlersInv
  <2> QED BY <2>1, <2>2 DEF HandlersInv
<1>2. CASE h.id # current
  BY <1>2 DEF CallEnds, HandlersInv, Request
<1> QED BY <1>1, <1>2

LEMMA HandlersKept ==
    ASSUME TypeInv, HandlersInv, [Next]_vars
    PROVE  HandlersInv'
<1>1. ASSUME NEW n \in Nodes, Register(n) \/ UpdateClusterNodes(n) PROVE HandlersInv'
  BY <1>1, HandlersStand DEF Register, UpdateClusterNodes, edges, ghosts, center
<1>2. ASSUME NEW known \in SUBSET Blocks,
             NEW p \in Plans(known), StartRound(known, p)
      PROVE  HandlersInv'
  <2>1. current = 0 /\ current' = 0
    BY <1>2 DEF StartRound, TypeInv, TypeOK, WaitsForAddress
  <2> QED BY <1>2, <2>1, HandlersStand DEF StartRound, edges
<1>3. CASE SkipNode \/ CallUnreachable
  BY <1>3, HandlersStand DEF SkipNode, CallUnreachable, edges, ghosts
<1>4. CASE Call
  <2> DEFINE n == Head(work)
             call == [id |-> calls + 1, node |-> n, ops |-> Request(n),
                      left |-> Request(n), phase |-> "ops", push |-> {}]
  <2>1. /\ handlers' = handlers \cup {call} /\ disturbed \subseteq disturbed'
        /\ calls' = calls + 1 /\ current' = calls + 1 /\ current = 0
        /\ UNCHANGED <<work, toAdd, toRemove>>
    BY <1>4 DEF Call
  <2>2. \A k \in handlers : k.id \in Nat /\ k.id < calls + 1 /\ k.node \in disturbed
    BY <2>1, NoCallNoHandler DEF TypeInv, TypeOK, Handler, HandlersInv
  <2>3. /\ call.id = calls + 1 /\ call.node = Head(work)' /\ call.ops = Request(n)'
        /\ call.left = call.ops /\ call.phase # "push" /\ calls \in Nat
    BY <2>1 DEF Request, TypeInv, TypeOK
  <2> HIDE DEF call
  <2> QED BY <2>1, <2>2, <2>3 DEF HandlersInv, Request
<1>5. CASE ReplyLost
  <2>1. /\ current' = 0 /\ UNCHANGED <<handlers, calls>>
        /\ disturbed' = disturbed \cup {Head(work)}
    BY <1>5 DEF ReplyLost, CallEnds, edges
  <2>2. \A h \in handlers : h.id # 0 /\ h.node \in disturbed'
    BY <2>1 DEF HandlersInv, TypeInv, TypeOK, Handler
  <2> QED BY <2>1, <2>2 DEF HandlersInv
<1>6. CASE FinishRound
  BY <1>6, HandlersStand DEF FinishRound, edges, ghosts
<1>7. ASSUME NEW n \in Nodes, Restart(n) PROVE HandlersInv'
  <2>1. /\ handlers' = {h \in handlers : h.node # n}
        /\ disturbed' = disturbed \cup {n}
        /\ UNCHANGED <<toAdd, toRemove, calls>>
    BY <1>7 DEF Restart
  <2>2. CASE UNCHANGED <<current, work, alloc>>
    BY <2>1, <2>2 DEF HandlersInv, Request
  <2>3. CASE ~UNCHANGED <<current, work, alloc>>
    <3>1. PICK h \in handlers : h.node = n /\ h.id = current
      BY <1>7, <2>3 DEF Restart
    <3>2. current' = 0
      BY <1>7, <3>1 DEF Restart, CallEnds
    <3>3. ASSUME NEW k \in handlers' PROVE k.id # 0 /\ k.node \in disturbed'
      <4>1. k \in handlers /\ k.id # h.id
        BY <2>1, <3>1 DEF HandlersInv
      <4> QED BY <2>1, <3>1, <4>1 DEF TypeInv, TypeOK, Handler, HandlersInv
    <3> QED BY <2>1, <3>2, <3>3 DEF HandlersInv
  <2> QED BY <2>2, <2>3
<1>8. ASSUME NEW h \in handlers, DoOp(h) PROVE HandlersInv'
  <2>1. PICK op \in NextOps(h) :
          handlers' = (handlers \ {h}) \cup {[h EXCEPT !.left = @ \ {op}]}
    BY <1>8 DEF DoOp
  <2> DEFINE g == [h EXCEPT !.left = @ \ {op}]
  <2>2. /\ g.id = h.id /\ g.node = h.node /\ g.ops = h.ops
        /\ g.left \subseteq h.left /\ g.phase # "push"
    BY <1>8 DEF DoOp, TypeInv, TypeOK, Handler
  <2>3. UNCHANGED <<center, calls, disturbed>>
    BY <1>8 DEF DoOp, ghosts
  <2>4. Advances(h, g)
    BY <2>1, <2>2, <2>3 DEF Advances
  <2> QED BY <2>4, HandlerAdvances
<1>9. ASSUME NEW h \in handlers, StartPush(h) PROVE HandlersInv'
  <2>1. Advances(h, [h EXCEPT !.phase = "push", !.push = neighbors[h.node]])
    BY <1>9 DEF StartPush, Advances, TypeInv, TypeOK, Handler
  <2> QED BY <2>1, HandlerAdvances
<1>10. ASSUME NEW h \in handlers, NEW m \in Nodes, Push(h, m) \/ PushLost(h, m)
       PROVE  HandlersInv'
  <2>1. Advances(h, [h EXCEPT !.push = @ \ {m}])
    BY <1>10 DEF Push, PushLost, Advances, ghosts, TypeInv, TypeOK, Handler, HandlersInv
  <2> QED BY <2>1, HandlerAdvances
<1>11. ASSUME NEW h \in handlers, Return(h) PROVE HandlersInv'
  <2>1. Ends(h, TRUE)
    BY <1>11 DEF Return, Ends, ghosts
  <2> QED BY <2>1, HandlerEnds
<1>12. ASSUME NEW h \in handlers, FailUnknownStream(h) \/ FailOp(h) PROVE HandlersInv'
  <2>1. Ends(h, FALSE)
    BY <1>12 DEF FailUnknownStream, FailOp, HandlerFails, Ends
  <2> QED BY <2>1, HandlerEnds
<1>13. CASE UNCHANGED vars
  BY <1>13, HandlersStand DEF vars, center, edges, ghosts
<1> QED
  BY <1>1, <1>2, <1>3, <1>4, <1>5, <1>6, <1>7, <1>8, <1>9, <1>10, <1>11, <1>12, <1>13
  DEF Next, CenterStep, HandlerStep, Fault

-----------------------------------------------------------------------------
\* What the round has still to visit.

LEMMA TailElements ==
    ASSUME work \in Seq(Nodes), work # << >>, NEW i \in 1..Len(Tail(work))
    PROVE  i + 1 \in 2..Len(work) /\ i + 1 \in 1..Len(work)
           /\ Tail(work)[i] = work[i + 1]
OBVIOUS

LEMMA WorkStands ==
    ASSUME WorkInv, disturbed \subseteq disturbed',
           UNCHANGED <<alloc, pc, toAdd, toRemove, work, current>>
    PROVE  WorkInv'
BY DEF WorkInv, VisitedOnce, NotYetDelivered

\* The node in front is left behind without a call.
LEMMA NodePassed ==
    ASSUME TypeInv, WorkInv, current' = 0, work # << >>, work' = Tail(work),
           disturbed \subseteq disturbed', UNCHANGED <<alloc, pc, toAdd, toRemove>>
    PROVE  WorkInv'
<1>1. work \in Seq(Nodes)
  BY DEF TypeInv, TypeOK
<1>2. NotYetDelivered'
  BY <1>1, TailElements DEF WorkInv, NotYetDelivered
<1> QED BY <1>2 DEF WorkInv, VisitedOnce

\* The call for the node in front ends: its entry may be delivered, but then
\* the node is not visited again.
LEMMA CallEndsWork ==
    ASSUME TypeInv, WorkInv, NEW id \in Nat \ {0}, NEW n \in Nodes, NEW ok,
           CallEnds(id, n, ok), id = current => n = Head(work),
           disturbed \subseteq disturbed', UNCHANGED <<pc, toAdd, toRemove>>
    PROVE  WorkInv'
<1>1. CASE id = current
  <2>1. /\ work \in Seq(Nodes) /\ work # << >>
        /\ current' = 0 /\ work' = Tail(work) /\ n = Head(work)
        /\ alloc \in [Nodes -> SUBSET Blocks]
    BY <1>1 DEF TypeInv, TypeOK, WaitsForAddress, CallEnds
  <2>2. ASSUME pc' = "executing", NEW i \in 1..Len(work'), work'[i] \notin disturbed'
        PROVE  /\ toAdd[work'[i]] \cap alloc'[work'[i]] = {}
               /\ toRemove[work'[i]] \subseteq alloc'[work'[i]]
    <3>1. /\ i + 1 \in 2..Len(work) /\ i + 1 \in 1..Len(work)
          /\ work'[i] = work[i + 1] /\ work'[i] \notin disturbed
      BY <2>1, <2>2, TailElements
    <3>2. work'[i] # n
      BY <1>1, <2>1, <3>1 DEF WorkInv, VisitedOnce
    <3>3. alloc'[work'[i]] = alloc[work'[i]]
      BY <1>1, <2>1, <3>1, <3>2 DEF CallEnds
    <3> QED BY <2>2, <3>1, <3>3 DEF WorkInv, NotYetDelivered
  <2> QED BY <2>1, <2>2 DEF WorkInv, VisitedOnce, NotYetDelivered
<1>2. CASE id # current
  BY <1>2, WorkStands DEF CallEnds
<1> QED BY <1>1, <1>2

\* A node that occurs once in the rest of the round occurs in front only.
LEMMA OnceIsFirst ==
    ASSUME work \in Seq(Nodes), work # << >>,
           ~(Cardinality({i \in 1..Len(work) : work[i] = Head(work)}) > 1),
           NEW j \in 2..Len(work)
    PROVE  work[j] # Head(work)
<1> DEFINE places == {i \in 1..Len(work) : work[i] = Head(work)}
<1>1. SUFFICES ASSUME work[j] = Head(work) PROVE FALSE
  OBVIOUS
<1>2. 1 \in places /\ j \in places /\ j # 1
  BY <1>1
<1>3. IsFiniteSet(1..Len(work)) /\ places \subseteq 1..Len(work)
  BY FS_Interval
<1>4. IsFiniteSet(places)
  BY <1>3, FS_Subset
<1>5. Cardinality({1, j}) = 2
  <2>1. IsFiniteSet({1}) /\ Cardinality({1}) = 1
    BY FS_Singleton
  <2>2. j \notin {1}
    BY <1>2
  <2>3. Cardinality({1} \cup {j}) = Cardinality({1}) + 1
    BY <2>1, <2>2, FS_AddElement, Zenon
  <2>4. Cardinality({1} \cup {j}) = 1 + 1
    BY <2>1, <2>3
  <2>5. {1} \cup {j} = {1, j}
    BY Zenon
  <2>6. Cardinality({1, j}) = 1 + 1
    BY <2>4, <2>5, Zenon
  <2> QED BY <2>6
<1>6. Cardinality({1, j}) <= Cardinality(places)
  BY <1>2, <1>4, FS_Subset
<1>7. Cardinality(places) \in Nat
  BY <1>4, FS_CardinalityType
<1> QED BY <1>5, <1>6, <1>7

LEMMA WorkKept ==
    ASSUME TypeInv, HandlersInv, WorkInv, [Next]_vars
    PROVE  WorkInv'
<1>1. ASSUME NEW n \in Nodes, Register(n) \/ UpdateClusterNodes(n) PROVE WorkInv'
  BY <1>1, WorkStands DEF Register, UpdateClusterNodes, ghosts, center
<1>2. ASSUME NEW known \in SUBSET Blocks,
             NEW p \in Plans(known), StartRound(known, p)
      PROVE  WorkInv'
  <2>1. current' = 0
    BY <1>2 DEF StartRound, TypeInv, TypeOK, WaitsForAddress
  <2>2. ASSUME NEW i \in 1..Len(work') PROVE work'[i] \in Nodes
    BY <1>2, <2>2 DEF StartRound, TypeInv, TypeOK
  <2>3. \A n \in Nodes : toAdd'[n] = Adds(p, n) /\ toRemove'[n] = Removes(p, n)
    BY <1>2 DEF StartRound
  <2>4. alloc' = alloc
    BY <1>2 DEF StartRound
  <2>5. \A n \in Nodes : toAdd'[n] \cap alloc'[n] = {} /\ toRemove'[n] \subseteq alloc'[n]
    BY <2>3, <2>4 DEF Adds, Removes
  <2> QED BY <2>1, <2>2, <2>5 DEF WorkInv, VisitedOnce, NotYetDelivered
<1>3. CASE SkipNode \/ CallUnreachable
  BY <1>3, NodePassed DEF SkipNode, CallUnreachable, ghosts
<1>4. CASE Call
  <2>1. /\ work \in Seq(Nodes) /\ work # << >> /\ disturbed \subseteq disturbed'
        /\ UNCHANGED <<alloc, pc, toAdd, toRemove, work>>
    BY <1>4 DEF Call, TypeInv, TypeOK
  <2>2. Head(work) \notin disturbed' =>
           ~(Cardinality({i \in 1..Len(work) : work[i] = Head(work)}) > 1)
    BY <1>4 DEF Call
  <2>3. VisitedOnce'
    BY <2>1, <2>2, OnceIsFirst DEF VisitedOnce
  <2> QED BY <2>1, <2>3 DEF WorkInv, NotYetDelivered
<1>5. CASE ReplyLost
  <2>1. current \in Nat \ {0} /\ Head(work) \in Nodes
    BY <1>5 DEF ReplyLost, TypeInv, TypeOK, WaitsForAddress
  <2>2. /\ CallEnds(current, Head(work), FALSE)
        /\ disturbed \subseteq disturbed' /\ UNCHANGED <<pc, toAdd, toRemove>>
    BY <1>5 DEF ReplyLost
  <2> QED BY <2>1, <2>2, CallEndsWork
<1>6. CASE FinishRound
  BY <1>6 DEF FinishRound, WorkInv, VisitedOnce, NotYetDelivered, ghosts
<1>7. ASSUME NEW n \in Nodes, Restart(n) PROVE WorkInv'
  <2>1. disturbed \subseteq disturbed' /\ UNCHANGED <<pc, toAdd, toRemove>>
    BY <1>7 DEF Restart
  <2>2. CASE UNCHANGED <<current, work, alloc>>
    BY <2>1, <2>2, WorkStands
  <2>3. CASE ~UNCHANGED <<current, work, alloc>>
    <3>1. PICK h \in handlers : h.node = n /\ h.id = current
      BY <1>7, <2>3 DEF Restart
    <3>2. current \in Nat \ {0} /\ n = Head(work) /\ CallEnds(current, n, FALSE)
      BY <1>7, <3>1 DEF Restart, TypeInv, TypeOK, Handler, HandlersInv
    <3> QED BY <2>1, <3>2, CallEndsWork
  <2> QED BY <2>2, <2>3
<1>8. ASSUME NEW h \in handlers, DoOp(h) \/ StartPush(h) PROVE WorkInv'
  BY <1>8, WorkStands DEF DoOp, StartPush, center, ghosts
<1>9. ASSUME NEW h \in handlers, NEW m \in Nodes, Push(h, m) \/ PushLost(h, m)
      PROVE  WorkInv'
  BY <1>9, WorkStands DEF Push, PushLost, center, ghosts
<1>10. ASSUME NEW h \in handlers, Return(h) \/ FailUnknownStream(h) \/ FailOp(h)
       PROVE  WorkInv'
  <2>1. PICK ok \in BOOLEAN : Ends(h, ok)
    BY <1>10 DEF Return, FailUnknownStream, FailOp, HandlerFails, Ends, ghosts
  <2>2. h.id \in Nat \ {0} /\ h.node \in Nodes /\ (h.id = current => h.node = Head(work))
    BY DEF TypeInv, TypeOK, Handler, HandlersInv
  <2> QED BY <2>1, <2>2, CallEndsWork DEF Ends
<1>11. CASE UNCHANGED vars
  BY <1>11, WorkStands DEF vars, center, ghosts
<1> QED
  BY <1>1, <1>2, <1>3, <1>4, <1>5, <1>6, <1>7, <1>8, <1>9, <1>10, <1>11
  DEF Next, CenterStep, HandlerStep, Fault

-----------------------------------------------------------------------------
\* Databases and indexes.

LEMMA Disjoint ==
    ASSUME RecordInv, NEW n \in Nodes
    PROVE  toAdd[n] \cap toRemove[n] = {}
BY DEF RecordInv, Remainder

SameHandlers(n) == \A k : k.node = n => (k \in handlers' <=> k \in handlers)

\* A node the step does not concern.
LEMMA Elsewhere ==
    ASSUME NEW n \in Nodes, Agrees(n), SameHandlers(n),
           stored'[n] = stored[n], alloc'[n] = alloc[n],
           \/ toAdd'[n] = toAdd[n] /\ toRemove'[n] = toRemove[n]
           \/ ~InCall(n),
           missed \subseteq missed',
           \A m \in Nodes : <<m, n>> \notin missed' => index'[m][n] = index[m][n]
    PROVE  Agrees(n)'
<1>1. InCall(n)' <=> InCall(n)
  BY DEF SameHandlers, InCall
<1>2. ASSUME NEW h \in handlers', h.node = n
      PROVE  /\ h \in handlers
             /\ \A b \in Blocks : Copies(h, b)' = Copies(h, b)
             /\ \A m \in Nodes, b \in Blocks : Counted(h, m, b)' = Counted(h, m, b)
  BY <1>2 DEF SameHandlers, InCall, Copies, Has, Counted, NewEntry
<1>3. StoreAt(n)'
  BY <1>1, <1>2 DEF Agrees, StoreAt, Has
<1>4. ASSUME NEW m \in Nodes, <<m, n>> \notin missed' PROVE IndexAt(m, n)'
  BY <1>1, <1>2, <1>4 DEF Agrees, IndexAt, Has
<1> QED BY <1>3, <1>4 DEF Agrees

\* At an undisturbed node that is not in a call, a call starts with nothing done.
LEMMA CallStarts ==
    ASSUME StoreInv, Call, NEW n \in Nodes \ disturbed'
    PROVE  Agrees(n)'
<1>1. PICK call :
        /\ call = [id |-> calls + 1, node |-> Head(work), ops |-> Request(Head(work)),
                   left |-> Request(Head(work)), phase |-> "ops", push |-> {}]
        /\ handlers' = handlers \cup {call}
  BY DEF Call
<1>2. /\ n \notin disturbed
      /\ current = 0 /\ pc = "executing" /\ work # << >>
      /\ UNCHANGED <<alloc, toAdd, toRemove, stored, index, missed>>
  BY DEF Call
<1>3. call.node = Head(work) /\ call.left = Request(Head(work)) /\ call.phase = "ops"
  BY <1>1
<1>4. Agrees(n) /\ ~InCall(n)
  BY <1>2, NoCallNoHandler DEF StoreInv, ProgressInv, InCall
<1>5. CASE n # Head(work)
  BY <1>1, <1>2, <1>3, <1>4, <1>5, Elsewhere DEF SameHandlers
<1>6. CASE n = Head(work)
  <2>1. /\ InCall(n)' /\ \A h \in handlers' : h.node = n => h = call
    BY <1>1, <1>3, <1>4, <1>6 DEF InCall
  <2>2. toAdd[n] \cap alloc[n] = {} /\ toRemove[n] \subseteq alloc[n]
    <3>1. 1 \in 1..Len(work) /\ work[1] = n
      BY <1>2, <1>6 DEF StoreInv, TypeInv, TypeOK
    <3> QED BY <1>2, <3>1 DEF StoreInv, WorkInv, NotYetDelivered
  <2>3. \A b \in Blocks : /\ <<"ADD", b>> \in Request(n) <=> b \in toAdd[n]
                          /\ <<"REMOVE", b>> \in Request(n) <=> b \in toRemove[n]
    BY DEF Request
  <2>4. ASSUME NEW b \in Blocks
        PROVE  Copies(call, b)' = Has(alloc[n], b)
    BY <1>2, <1>3, <1>6, <2>2, <2>3 DEF Copies, Has
  <2>5. ASSUME NEW m \in Nodes, NEW b \in Blocks
        PROVE  Counted(call, m, b)' = Has(alloc[n], b)
    BY <1>2, <1>3, <1>6 DEF Counted, Has
  <2> QED BY <1>2, <1>4, <2>1, <2>4, <2>5 DEF Agrees, StoreAt, IndexAt
<1> QED BY <1>5, <1>6

\* An operation changes its block's copies from the old entry to the new one.
LEMMA OperationDone ==
    ASSUME StoreInv, NEW h \in handlers, DoOp(h), NEW n \in Nodes \ disturbed'
    PROVE  Agrees(n)'
<1>1. PICK op \in NextOps(h) :
        /\ stored' = [stored EXCEPT ![h.node][op[2]] = Effect(op, @)]
        /\ handlers' = (handlers \ {h}) \cup {[h EXCEPT !.left = @ \ {op}]}
  BY DEF DoOp
<1> DEFINE g == [h EXCEPT !.left = @ \ {op}]
<1>2. /\ g.node = h.node /\ g.left = h.left \ {op} /\ g.phase = h.phase /\ g.push = h.push
      /\ h.node \in Nodes /\ op \in h.left /\ h.phase = "ops"
      /\ h.left \subseteq {"ADD", "REMOVE"} \X Blocks
  BY DEF DoOp, NextOps, StoreInv, TypeInv, TypeOK, Handler
<1>3. /\ UNCHANGED <<alloc, toAdd, toRemove, index, missed>>
      /\ n \notin disturbed /\ Agrees(n)
  BY DEF DoOp, center, ghosts, StoreInv, ProgressInv
<1>4. handlers' = (handlers \ {h}) \cup {g}
  BY <1>1
<1> HIDE DEF g
<1>5. CASE n # h.node
  <2>1. stored'[n] = stored[n]
    BY <1>1, <1>5 DEF StoreInv, TypeInv, TypeOK
  <2> QED BY <1>2, <1>3, <1>4, <1>5, <2>1, Elsewhere DEF SameHandlers
<1>6. CASE n = h.node
  <2>1. \A k \in handlers' : k.node = n => k = g
    BY <1>3, <1>4, <1>6, OneHandler DEF StoreInv
  <2>2. InCall(n) /\ InCall(n)'
    BY <1>2, <1>4, <1>6 DEF InCall
  <2>3. h.left \subseteq Request(n)
    BY <1>3, <1>6 DEF StoreInv, HandlersInv
  <2>4. ASSUME NEW b \in Blocks PROVE stored'[n][b] = Copies(g, b)'
    <3>1. stored[n][b] = Copies(h, b)
      BY <1>3, <1>6 DEF Agrees, StoreAt
    <3>2. CASE b # op[2]
      <4>1. <<"ADD", b>> # op /\ <<"REMOVE", b>> # op
        BY <3>2
      <4>2. stored'[n][b] = stored[n][b]
        BY <1>1, <1>2, <1>6, <3>2 DEF StoreInv, TypeInv, TypeOK
      <4> QED BY <1>2, <1>3, <3>1, <4>1, <4>2 DEF Copies, Has
    <3>3. CASE b = op[2]
      <4>1. stored'[n][b] = Effect(op, stored[n][b])
        BY <1>1, <1>2, <1>6, <3>3 DEF StoreInv, TypeInv, TypeOK
      <4>2. CASE op = <<"ADD", b>>
        BY <1>2, <1>3, <1>6, <2>3, <3>1, <4>1, <4>2 DEF Copies, Effect, Request
      <4>3. CASE op = <<"REMOVE", b>>
        <5>1. b \in toRemove[n] /\ b \notin toAdd[n]
          BY <1>2, <2>3, <4>3, Disjoint DEF Request, StoreInv
        <5> QED BY <1>2, <1>3, <1>6, <4>1, <4>3, <5>1 DEF Copies, Effect
      <4> QED BY <1>2, <3>3, <4>2, <4>3
    <3> QED BY <3>2, <3>3
  <2>5. ASSUME NEW m \in Nodes, NEW b \in Blocks PROVE Counted(g, m, b)' = Counted(h, m, b)
    BY <1>2, <1>3 DEF Counted, NewEntry, Has
  <2> QED
    BY <1>3, <1>6, <2>1, <2>2, <2>4, <2>5 DEF Agrees, StoreAt, IndexAt
<1> QED BY <1>5, <1>6

\* A push starts: those who are no neighbours miss it, the others still count
\* the old entry.
LEMMA PushStarts ==
    ASSUME StoreInv, NEW h \in handlers, StartPush(h), NEW n \in Nodes \ disturbed'
    PROVE  Agrees(n)'
<1> DEFINE g == [h EXCEPT !.phase = "push", !.push = neighbors[h.node]]
<1>1. /\ g.node = h.node /\ g.left = h.left /\ g.phase = "push" /\ g.push = neighbors[h.node]
      /\ h.phase = "ops"
  BY DEF StartPush, StoreInv, TypeInv, TypeOK, Handler
<1>2. /\ handlers' = (handlers \ {h}) \cup {g}
      /\ missed' = missed \cup ((Nodes \ neighbors[h.node]) \X {h.node})
      /\ UNCHANGED <<alloc, toAdd, toRemove, stored, index, neighbors>>
      /\ n \notin disturbed /\ Agrees(n)
  BY DEF StartPush, center, StoreInv, ProgressInv
<1>3. PICK k : k = g
  OBVIOUS
<1> HIDE DEF g
<1>4. CASE n # h.node
  BY <1>1, <1>2, <1>4, Elsewhere DEF SameHandlers
<1>5. CASE n = h.node
  <2>1. InCall(n) /\ InCall(n)' /\ \A l \in handlers' : l.node = n => l = k
    BY <1>1, <1>2, <1>3, <1>5, OneHandler DEF StoreInv, InCall
  <2>2. ASSUME NEW b \in Blocks PROVE Copies(k, b)' = Copies(h, b)
    BY <1>1, <1>2, <1>3 DEF Copies, Has
  <2>3. ASSUME NEW m \in Nodes, <<m, n>> \notin missed', NEW b \in Blocks
        PROVE  Counted(k, m, b)' = Counted(h, m, b)
    <3>1. m \in k.push
      BY <1>1, <1>2, <1>3, <1>5, <2>3
    <3> QED BY <1>1, <1>2, <1>3, <3>1 DEF Counted, Has
  <2> QED
    BY <1>2, <1>5, <2>1, <2>2, <2>3 DEF Agrees, StoreAt, IndexAt
<1> QED BY <1>4, <1>5

\* What an index does with a request turns the old entry into the new one.
LEMMA ApplyMakesNewEntry ==
    ASSUME NEW m \in Nodes, NEW n \in Nodes, NEW b \in Blocks,
           toAdd[n] \cap toRemove[n] = {},
           b \in toAdd[n] => b \notin alloc[n], b \in toRemove[n] => b \in alloc[n],
           index[m][n][b] = Has(alloc[n], b)
    PROVE  Apply(m, n, Request(n))[b] = Has(NewEntry(n), b)
<1>1. /\ <<"ADD", b>> \in Request(n) <=> b \in toAdd[n]
      /\ <<"REMOVE", b>> \in Request(n) <=> b \in toRemove[n]
  BY DEF Request
<1>2. CASE b \in toAdd[n]
  BY <1>1, <1>2 DEF Apply, IndexAdd, Has, NewEntry
<1>3. CASE b \in toRemove[n]
  BY <1>1, <1>3 DEF Apply, IndexRemove, Has, NewEntry
<1>4. CASE b \notin toAdd[n] /\ b \notin toRemove[n]
  BY <1>1, <1>4 DEF Apply, Has, NewEntry
<1> QED BY <1>2, <1>3, <1>4

\* An undisturbed node in a call has its old entry still.
LEMMA NotYetInCall ==
    ASSUME StoreInv, NEW h \in handlers, h.node \notin disturbed
    PROVE  /\ h.id = current /\ h.ops = Request(h.node) /\ h.node = Head(work)
           /\ toAdd[h.node] \cap alloc[h.node] = {}
           /\ toRemove[h.node] \subseteq alloc[h.node]
<1>1. h.id = current /\ h.ops = Request(h.node) /\ h.node = Head(work)
  BY DEF StoreInv, HandlersInv
<1>2. h.id # 0
  BY DEF StoreInv, TypeInv, TypeOK, Handler
<1>3. pc = "executing" /\ work # << >> /\ work \in Seq(Nodes)
  BY <1>1, <1>2 DEF StoreInv, TypeInv, TypeOK, WaitsForAddress
<1>4. 1 \in 1..Len(work) /\ work[1] = h.node
  BY <1>1, <1>3
<1> QED BY <1>1, <1>3, <1>4 DEF StoreInv, WorkInv, NotYetDelivered

\* A neighbour that takes the push counts the new entry; one that loses it has
\* missed an update.
LEMMA PushEnds ==
    ASSUME StoreInv, NEW h \in handlers, NEW to \in Nodes,
           Push(h, to) \/ PushLost(h, to), NEW n \in Nodes \ disturbed'
    PROVE  Agrees(n)'
<1>1. PICK g : g = [h EXCEPT !.push = @ \ {to}]
  OBVIOUS
<1>2. /\ g.node = h.node /\ g.left = h.left /\ g.phase = "push" /\ g.push = h.push \ {to}
      /\ h.phase = "push" /\ h.node \in Nodes /\ to \in h.push
  BY <1>1 DEF Push, PushLost, StoreInv, TypeInv, TypeOK, Handler
<1>3. /\ handlers' = (handlers \ {h}) \cup {g}
      /\ missed \subseteq missed'
      /\ UNCHANGED <<alloc, toAdd, toRemove, stored>>
      /\ n \notin disturbed /\ Agrees(n)
  BY <1>1 DEF Push, PushLost, center, ghosts, StoreInv, ProgressInv
<1>4. ASSUME NEW m \in Nodes, m # to \/ n # h.node PROVE index'[m][n] = index[m][n]
  BY <1>2, <1>4 DEF Push, PushLost, StoreInv, TypeInv, TypeOK
<1>5. CASE n # h.node
  BY <1>2, <1>3, <1>4, <1>5, Elsewhere DEF SameHandlers
<1>6. CASE n = h.node
  <2>1. InCall(n) /\ InCall(n)' /\ \A l \in handlers' : l.node = n => l = g
    BY <1>2, <1>3, <1>6, OneHandler DEF StoreInv, InCall
  <2>2. ASSUME NEW b \in Blocks PROVE Copies(g, b)' = Copies(h, b)
    BY <1>2, <1>3 DEF Copies, Has
  <2>3. ASSUME NEW m \in Nodes, <<m, n>> \notin missed', NEW b \in Blocks
        PROVE  index'[m][n][b] = Counted(g, m, b)'
    <3>1. index[m][n][b] = Counted(h, m, b)
      BY <1>3, <1>6, <2>3 DEF Agrees, IndexAt
    <3>2. CASE m # to
      BY <1>2, <1>3, <1>4, <3>1, <3>2 DEF Counted, NewEntry, Has
    <3>3. CASE m = to
      <4>1. Push(h, to)
        BY <1>6, <2>3, <3>3 DEF PushLost
      <4>2. index'[m][n] = Apply(m, n, h.ops)
        BY <1>2, <1>6, <3>3, <4>1 DEF Push, StoreInv, TypeInv, TypeOK
      <4>3. Counted(h, m, b) = Has(alloc[n], b)
        BY <1>2, <1>6, <3>3 DEF Counted
      <4>4. Apply(m, n, Request(n))[b] = Has(NewEntry(n), b)
        <5>1. /\ toAdd[n] \cap alloc[n] = {} /\ toRemove[n] \subseteq alloc[n]
              /\ toAdd[n] \cap toRemove[n] = {}
          BY <1>3, <1>6, NotYetInCall, Disjoint DEF StoreInv
        <5>2. index[m][n][b] = Has(alloc[n], b)
          BY <3>1, <4>3
        <5> QED BY <5>1, <5>2, ApplyMakesNewEntry
      <4>5. h.ops = Request(n)
        BY <1>3, <1>6, NotYetInCall
      <4>6. Counted(g, m, b)' = Has(NewEntry(n), b)
        BY <1>2, <1>3, <1>6, <3>3 DEF Counted, NewEntry, Has
      <4> QED BY <4>2, <4>4, <4>5, <4>6
    <3> QED BY <3>2, <3>3
  <2> QED
    BY <1>3, <1>6, <2>1, <2>2, <2>3 DEF Agrees, StoreAt, IndexAt
<1> QED BY <1>5, <1>6

\* A handler that ends: the entry of its node is delivered, if the call was
\* successful and still awaited; otherwise the node is marked.
LEMMA CallDelivered ==
    ASSUME StoreInv, NEW h \in handlers, Return(h), NEW n \in Nodes \ disturbed'
    PROVE  Agrees(n)'
<1>1. /\ handlers' = handlers \ {h} /\ CallEnds(h.id, h.node, TRUE)
      /\ UNCHANGED <<toAdd, toRemove, stored, index, missed>>
      /\ n \notin disturbed /\ Agrees(n) /\ h.phase = "push" /\ h.push = {}
  BY DEF Return, ghosts, StoreInv, ProgressInv
<1>2. CASE n # h.node
  <2>1. alloc'[n] = alloc[n]
    BY <1>1, <1>2 DEF CallEnds, StoreInv, TypeInv, TypeOK
  <2> QED BY <1>1, <1>2, <2>1, Elsewhere DEF SameHandlers
<1>3. CASE n = h.node
  <2>1. InCall(n) /\ ~InCall(n)'
    BY <1>1, <1>3, OneHandler DEF StoreInv, InCall
  <2>2. h.id = current /\ h.left = {}
    BY <1>1, <1>3, NotYetInCall DEF StoreInv, HandlersInv
  <2>3. alloc'[n] = NewEntry(n)
    BY <1>1, <1>3, <2>2 DEF CallEnds, NewEntry, StoreInv, TypeInv, TypeOK
  <2>4. ASSUME NEW b \in Blocks PROVE stored[n][b] = Has(NewEntry(n), b)
    <3>1. stored[n][b] = Copies(h, b)
      BY <1>1, <1>3 DEF Agrees, StoreAt
    <3>2. ~(b \in toAdd[n] /\ b \in toRemove[n])
      BY Disjoint DEF StoreInv
    <3> QED BY <1>3, <2>2, <3>1, <3>2 DEF Copies, Has, NewEntry
  <2>5. ASSUME NEW m \in Nodes, <<m, n>> \notin missed, NEW b \in Blocks
        PROVE  index[m][n][b] = Has(NewEntry(n), b)
    BY <1>1, <1>3, <2>5 DEF Agrees, IndexAt, Counted
  <2>6. StoreAt(n)' /\ \A m \in Nodes : <<m, n>> \notin missed' => IndexAt(m, n)'
    BY <1>1, <2>1, <2>3, <2>4, <2>5 DEF StoreAt, IndexAt, InCall, Has
  <2> QED BY <2>6 DEF Agrees
<1> QED BY <1>2, <1>3

LEMMA CallFails ==
    ASSUME StoreInv, NEW h \in handlers, FailUnknownStream(h) \/ FailOp(h),
           NEW n \in Nodes \ disturbed'
    PROVE  Agrees(n)'
<1>1. /\ handlers' = handlers \ {h} /\ CallEnds(h.id, h.node, FALSE)
      /\ disturbed' = disturbed \cup {h.node}
      /\ UNCHANGED <<toAdd, toRemove, index, missed>>
  BY DEF FailUnknownStream, FailOp, HandlerFails
<1>2. /\ n # h.node /\ n \notin disturbed /\ Agrees(n) /\ h.node \in Nodes
  BY <1>1 DEF StoreInv, ProgressInv, TypeInv, TypeOK, Handler
<1>3. alloc' = alloc
  BY <1>1 DEF CallEnds
<1>4. stored'[n] = stored[n]
  BY <1>2 DEF FailUnknownStream, FailOp, StoreInv, TypeInv, TypeOK
<1> QED BY <1>1, <1>2, <1>3, <1>4, Elsewhere DEF SameHandlers

LEMMA EdgeRestarts ==
    ASSUME StoreInv, NEW e \in Nodes, Restart(e), NEW n \in Nodes \ disturbed'
    PROVE  Agrees(n)'
<1>1. /\ handlers' = {h \in handlers : h.node # e}
      /\ disturbed' = disturbed \cup {e} /\ missed' = missed \cup ({e} \X Nodes)
      /\ UNCHANGED <<toAdd, toRemove, stored>>
      /\ index' = [index EXCEPT ![e] = [m \in Nodes |-> NoBlocks]]
  BY DEF Restart
<1>2. alloc' = alloc
  BY DEF Restart, CallEnds
<1>3. n # e /\ Agrees(n)
  BY <1>1 DEF StoreInv, ProgressInv
<1>4. ASSUME NEW m \in Nodes, <<m, n>> \notin missed' PROVE index'[m][n] = index[m][n]
  <2>1. m # e
    BY <1>1, <1>4
  <2> QED BY <1>1, <2>1 DEF StoreInv, TypeInv, TypeOK
<1> QED BY <1>1, <1>2, <1>3, <1>4, Elsewhere DEF SameHandlers

LEMMA ProgressKept ==
    ASSUME StoreInv, [Next]_vars, NEW n \in Nodes \ disturbed'
    PROVE  Agrees(n)'
<1>1. ASSUME disturbed \subseteq disturbed',
             UNCHANGED <<handlers, alloc, stored, index, missed>>,
             UNCHANGED <<toAdd, toRemove>> \/ current = 0
      PROVE  Agrees(n)'
  <2>1. n \notin disturbed /\ Agrees(n) /\ SameHandlers(n)
    BY <1>1 DEF StoreInv, ProgressInv, SameHandlers
  <2>2. current = 0 => ~InCall(n)
    BY <2>1, NoCallNoHandler DEF StoreInv, InCall
  <2> QED BY <1>1, <2>1, <2>2, Elsewhere
<1>2. ASSUME NEW e \in Nodes, Register(e) \/ UpdateClusterNodes(e) PROVE Agrees(n)'
  BY <1>1, <1>2 DEF Register, UpdateClusterNodes, edges, ghosts, center
<1>3. ASSUME NEW known \in SUBSET Blocks,
             NEW p \in Plans(known), StartRound(known, p)
      PROVE  Agrees(n)'
  <2>1. current = 0
    BY <1>3 DEF StartRound, StoreInv, TypeInv, TypeOK, WaitsForAddress
  <2> QED BY <1>1, <1>3, <2>1 DEF StartRound, edges
<1>4. CASE SkipNode \/ CallUnreachable \/ FinishRound
  BY <1>1, <1>4 DEF SkipNode, CallUnreachable, FinishRound, edges, ghosts
<1>5. CASE ReplyLost
  BY <1>1, <1>5 DEF ReplyLost, CallEnds, edges
<1>6. CASE Call
  BY <1>6, CallStarts
<1>7. ASSUME NEW e \in Nodes, Restart(e) PROVE Agrees(n)'
  BY <1>7, EdgeRestarts
<1>8. ASSUME NEW h \in handlers, DoOp(h) PROVE Agrees(n)'
  BY <1>8, OperationDone
<1>9. ASSUME NEW h \in handlers, StartPush(h) PROVE Agrees(n)'
  BY <1>9, PushStarts
<1>10. ASSUME NEW h \in handlers, NEW m \in Nodes, Push(h, m) \/ PushLost(h, m)
       PROVE  Agrees(n)'
  BY <1>10, PushEnds
<1>11. ASSUME NEW h \in handlers, Return(h) PROVE Agrees(n)'
  BY <1>11, CallDelivered
<1>12. ASSUME NEW h \in handlers, FailUnknownStream(h) \/ FailOp(h) PROVE Agrees(n)'
  BY <1>12, CallFails
<1>13. CASE UNCHANGED vars
  BY <1>1, <1>13 DEF vars, center, edges, ghosts
<1> QED
  BY <1>2, <1>3, <1>4, <1>5, <1>6, <1>7, <1>8, <1>9, <1>10, <1>11, <1>12, <1>13
  DEF Next, CenterStep, HandlerStep, Fault

-----------------------------------------------------------------------------
\* The theorems.

LEMMA InitStore == Init => StoreInv
<1> SUFFICES ASSUME Init PROVE StoreInv
  OBVIOUS
<1>1. TypeInv /\ RecordInv
  BY InitTypes, InitRecord
<1>2. HandlersInv /\ WorkInv
  BY DEF Init, HandlersInv, WorkInv, VisitedOnce, NotYetDelivered
<1>3. ProgressInv
  BY DEF Init, ProgressInv, Agrees, StoreAt, IndexAt, InCall, Has, NoBlocks
<1> QED BY <1>1, <1>2, <1>3 DEF StoreInv

\* The inductive invariant holds in every behaviour.
THEOREM StoreInvHolds == Spec => []StoreInv
<1>1. StoreInv /\ [Next]_vars => StoreInv'
  <2> SUFFICES ASSUME StoreInv, [Next]_vars PROVE StoreInv'
    OBVIOUS
  <2>1. TypeInv' /\ RecordInv'
    BY TypesKept, RecordKept DEF StoreInv
  <2>2. HandlersInv' /\ WorkInv'
    BY HandlersKept, WorkKept DEF StoreInv
  <2>3. ProgressInv'
    BY ProgressKept DEF ProgressInv
  <2> QED BY <2>1, <2>2, <2>3 DEF StoreInv
<1> QED BY <1>1, InitStore, PTL DEF Spec

\* Outside calls, the database of an undisturbed node is the center's record.
THEOREM RecordMatchesStoreHolds == Spec => []RecordMatchesStore
<1>1. StoreInv => RecordMatchesStore
  BY DEF StoreInv, ProgressInv, Agrees, StoreAt, Has, RecordMatchesStore
<1> QED BY <1>1, StoreInvHolds, PTL

\* Within a call, kept blocks stay and no block of neither plan appears.
THEOREM KeptBlocksStayHolds == Spec => []KeptBlocksStay
<1>1. StoreInv => KeptBlocksStay
  <2> SUFFICES ASSUME StoreInv, NEW n \in Nodes \ disturbed, InCall(n), NEW b \in Blocks
               PROVE  /\ b \in alloc[n] \ toRemove[n] => stored[n][b] = 1
                      /\ b \notin alloc[n] \cup toAdd[n] => stored[n][b] = 0
    BY DEF KeptBlocksStay
  <2>1. PICK h \in handlers : h.node = n
    BY DEF InCall
  <2>2. stored[n][b] = Copies(h, b)
    BY <2>1 DEF StoreInv, ProgressInv, Agrees, StoreAt
  <2>3. toAdd[n] \cap alloc[n] = {} /\ toRemove[n] \subseteq alloc[n]
    BY <2>1, NotYetInCall
  <2> QED BY <2>1, <2>2, <2>3 DEF Copies, Has
<1> QED BY <1>1, StoreInvHolds, PTL

\* A neighbour that heard every update of an undisturbed node lists its record.
THEOREM IndexMatchesRecordHolds == Spec => []IndexMatchesRecord
<1>1. StoreInv => IndexMatchesRecord
  <2> SUFFICES ASSUME StoreInv, NEW m \in Nodes, NEW n \in Nodes,
                      <<m, n>> \notin missed, n \notin disturbed, ~InCall(n)
               PROVE  Listed(m, n) = alloc[n]
    BY DEF IndexMatchesRecord
  <2>1. \A b \in Blocks : index[m][n][b] = Has(alloc[n], b)
    BY DEF StoreInv, ProgressInv, Agrees, IndexAt
  <2>2. alloc[n] \subseteq Blocks
    BY DEF StoreInv, TypeInv, TypeOK
  <2> QED BY <2>1, <2>2 DEF Listed, Has
<1> QED BY <1>1, StoreInvHolds, PTL
=============================================================================
