--------------------------- MODULE MembershipProofs ---------------------------
(***************************************************************************)
(* The membership protocol for any number of edge servers, registrations   *)
(* and faults, and any addresses and latencies: that every server is told  *)
(* of every node but those of lost lists, that its neighbours are the near *)
(* ones of them, and that no pair of nodes stays unmeasured unless the     *)
(* last measurement was cut short.                                         *)
(***************************************************************************)
EXTENDS Membership, FiniteSetTheorems, TLAPS

USE CenterIsNoNode, BoundsAreNat

-----------------------------------------------------------------------------
Places == Nodes \cup {Center}
Stored == active \cup {Center}

Phases == {"done", "insert", "metrics", "connect", "measure", "snapshot", "notify", "wait"}
Marks == {0} \cup {Address[n] : n \in Nodes}

HandlerType ==
    [phase : Phases,
     node : Places, all : Seq(Places), i : Nat, j : Nat, list : SUBSET Nodes,
     reached : Marks, target : Places]

UpdateType ==
    [phase : {"none", "measure", "write"}, list : SUBSET Nodes,
     base : SUBSET Places, fresh : SUBSET Nodes, unheard : SUBSET Nodes]

\* The servers that run are finitely many: each of them has registered.
TypeInv ==
    /\ TypeOK /\ IsFiniteSet(up)
    /\ handler \in [Handlers -> HandlerType]
    /\ update \in [Handlers -> [Nodes -> UpdateType]]

\* The locals of a handler by its phase; only one measures at a time.
Early == {"insert", "metrics", "connect", "measure", "snapshot"}
Measuring == {"connect", "measure"}
LocalsInv(r) ==
    LET h == handler[r] IN
    /\ h.phase = "done" => h = NoLocals
    /\ r > started => h.phase = "done"
    /\ h.phase \in Early => h.reached = 0
    /\ h.phase = "insert" => h.node \in Nodes /\ (stops = 0 => h.node \in up)
    /\ h.phase \notin {"done", "insert"} => h.node \in active
    /\ IF h.phase \in Measuring
       THEN /\ holder = r
            /\ 1 <= h.i /\ h.i < h.j
            /\ h.i < Len(h.all) => h.j <= Len(h.all)
            /\ h.phase = "measure" => h.i < Len(h.all)
            /\ \A k \in 1..Len(h.all) : h.all[k] \in Stored
       ELSE h.i = 1 /\ h.j = 2
    /\ h.list \subseteq active
    /\ h.phase \in {"notify", "wait"} => h.list # {}

\* An update runs at a server that runs, with a list of stored nodes; the handler
\* that caused it is past that server, or has returned.
UpdatesInv ==
    \A r \in Handlers, n \in Nodes :
       LET u == update[r][n]
           h == handler[r] IN
       /\ u.phase # "none" =>
             /\ n \in up /\ u.list # {} /\ u.list \subseteq active /\ r <= started
             /\ h.phase \in {"done", "notify", "wait"}
             /\ h.phase # "done" => Address[n] <= h.reached
       /\ u.phase = "write" =>
             /\ u.fresh = (u.list \cap Near[n]) \ u.unheard
             /\ stops + failures = 0 => u.unheard = {}

\* What the center has stored, and what is left at a server that stopped.
Inserting(n) == \E r \in Handlers : handler[r].phase = "insert" /\ handler[r].node = n
ServersInv ==
    /\ \A n \in active : \E k \in 1..Len(addresses) : addresses[k] = n
    /\ \A k \in 1..Len(addresses) : addresses[k] \in active
    /\ \A n \in up : n \in active \/ Inserting(n)
    /\ stops = 0 => active \subseteq up
    /\ \A n \in Nodes : delivered[n] \cup lost[n] \subseteq active
    /\ \A n \in Nodes \ up : delivered[n] = {}

\* Handler r, or the update it has caused, will tell the running server n of the
\* stored node m.
WillTell(r, n, m) ==
    LET h == handler[r] IN
    \/ h.phase = "insert" /\ h.node = n
    \/ h.phase \in Early \ {"insert"} /\ n \in active
    \/ /\ h.phase \in {"notify", "wait"}
       /\ n \in active /\ Address[n] > h.reached /\ m \in h.list
    \/ update[r][n].phase # "none" /\ m \in update[r][n].list
ToldInv ==
    \A n \in up : \A m \in active :
       m \in delivered[n] \cup lost[n] \/ \E r \in Handlers : WillTell(r, n, m)

NeighborsInv ==
    /\ \A n \in up \ overtaken :
          neighbors[n] = IF delivered[n] = {} THEN {Center}
                         ELSE (delivered[n] \cap Near[n]) \ missed[n]
    /\ stops + failures = 0 => \A n \in Nodes : missed[n] = {} /\ lost[n] = {}

\* Handler r, with the locals h, will measure between the nodes m and n.
Measures(h, m, n) ==
    \/ h.phase = "metrics"
    \/ /\ h.phase \in Measuring
       /\ \E x, y \in 1..Len(h.all) :
             /\ h.i <= x /\ x < y /\ (x = h.i => h.j <= y)
             /\ {h.all[x], h.all[y]} = {m, n}
WillMeasure(r, m, n) == Measures(handler[r], m, n)
LeftOut == cutShort /\ holder = Nobody
MetricsInv ==
    /\ \A m, n \in Stored : m # n =>
          metrics[<<m, n>>] # "none" \/ LeftOut \/ \E r \in Handlers : WillMeasure(r, m, n)
    /\ stops + failures = 0 =>
          ~cutShort /\ \A m, n \in Places : metrics[<<m, n>>] # "zero"

-----------------------------------------------------------------------------
\* Types.

\* The record sets give the fields the types of TypeOK.
LEMMA TypeOfHandlers ==
    ASSUME NEW h \in HandlerType
    PROVE  /\ h.phase \in {"done", "insert", "metrics", "connect", "measure", "snapshot",
                           "notify", "wait"}
           /\ h.node \in Nodes \cup {Center} /\ h.target \in Nodes \cup {Center}
           /\ h.all \in Seq(Nodes \cup {Center})
           /\ h.list \subseteq Nodes
           /\ h.reached \in {0} \cup {Address[n] : n \in Nodes}
BY DEF HandlerType, Places, Phases, Marks

LEMMA TypeOfUpdates ==
    ASSUME NEW u \in UpdateType
    PROVE  /\ u.phase \in {"none", "measure", "write"}
           /\ u.list \subseteq Nodes /\ u.fresh \subseteq Nodes /\ u.unheard \subseteq Nodes
           /\ u.base \subseteq Nodes \cup {Center}
BY DEF UpdateType, Places

\* Writing fields of a handler, as the actions do, keeps its type.
LEMMA WriteAll ==
    ASSUME NEW h \in HandlerType, NEW p \in Phases, NEW a \in Seq(Places)
    PROVE  [h EXCEPT !.phase = p, !.all = a] \in HandlerType
BY DEF HandlerType

LEMMA WriteIndexes ==
    ASSUME NEW h \in HandlerType, NEW p \in Phases, NEW x \in Nat, NEW y \in Nat
    PROVE  /\ [h EXCEPT !.phase = p, !.j = y] \in HandlerType
           /\ [h EXCEPT !.phase = p, !.i = x, !.j = y] \in HandlerType
BY DEF HandlerType

LEMMA WriteMeasured ==
    ASSUME NEW h \in HandlerType, NEW p \in Phases, NEW a \in Seq(Places), NEW x \in Nat, NEW y \in Nat
    PROVE  [h EXCEPT !.phase = p, !.all = a, !.i = x, !.j = y] \in HandlerType
BY DEF HandlerType

LEMMA WriteReached ==
    ASSUME NEW h \in HandlerType, NEW m \in Marks
    PROVE  [h EXCEPT !.reached = m] \in HandlerType
BY DEF HandlerType

LEMMA WriteTarget ==
    ASSUME NEW h \in HandlerType, NEW p \in Phases, NEW t \in Places, NEW m \in Marks
    PROVE  [h EXCEPT !.phase = p, !.target = t, !.reached = m] \in HandlerType
BY DEF HandlerType

\* A call that is over changes the phase and the target at most.
LEMMA ResumeType ==
    ASSUME NEW h \in HandlerType, NEW n
    PROVE  /\ Resume(h, n) \in HandlerType
           /\ Resume(h, n).list = h.list /\ Resume(h, n).reached = h.reached
           /\ Resume(h, n).i = h.i /\ Resume(h, n).j = h.j /\ Resume(h, n).node = h.node
           /\ Resume(h, n) # h => h.phase = "wait" /\ Resume(h, n).phase = "notify"
<1>1. CASE h.phase = "wait" /\ h.target = n
  <2>1. Resume(h, n) = [h EXCEPT !.phase = "notify", !.target = Center]
    BY <1>1 DEF Resume
  <2>2. "notify" \in Phases /\ Center \in Places
    BY DEF Phases, Places
  <2> QED BY <1>1, <2>1, <2>2 DEF HandlerType
<1>2. CASE ~(h.phase = "wait" /\ h.target = n)
  BY <1>2 DEF Resume
<1> QED BY <1>1, <1>2

LEMMA NewUpdateType ==
    ASSUME NEW l \in SUBSET Nodes, NEW b \in SUBSET Places
    PROVE  /\ NoUpdate \in UpdateType /\ NoUpdate.phase = "none"
           /\ [NoUpdate EXCEPT !.phase = "measure", !.list = l, !.base = b] \in UpdateType
BY DEF UpdateType, NoUpdate

LEMMA WriteFresh ==
    ASSUME NEW u \in UpdateType, NEW v \in SUBSET Nodes, NEW f \in SUBSET Nodes
    PROVE  [u EXCEPT !.phase = "write", !.unheard = v, !.fresh = f] \in UpdateType
BY DEF UpdateType

LEMMA TypeInit == Init => TypeInv
<1> SUFFICES ASSUME Init PROVE TypeInv
  OBVIOUS
<1>1. /\ NoLocals \in HandlerType /\ << >> \in Seq(Nodes)
      /\ handler \in [Handlers -> HandlerType] /\ \A r \in Handlers : handler[r] = NoLocals
  BY DEF Init, NoLocals, HandlerType, Places, Phases, Marks
<1>2. IsFiniteSet(up)
  BY FS_EmptySet DEF Init
<1>3. /\ holder \in Handlers \cup {Nobody} /\ started \in 0..MaxRegistrations
      /\ stops \in Nat /\ failures \in Nat /\ stops + failures <= MaxFaults
  BY DEF Init
<1>6. cutShort \in BOOLEAN
  BY DEF Init
<1>4. /\ metrics \in [Places \X Places -> {"none", "zero", "good"}]
      /\ neighbors \in [Nodes -> SUBSET Places]
      /\ delivered \in [Nodes -> SUBSET Nodes] /\ missed \in [Nodes -> SUBSET Nodes]
      /\ lost \in [Nodes -> SUBSET Nodes]
  BY DEF Init, Places
<1>5. /\ NoUpdate \in UpdateType /\ update \in [Handlers -> [Nodes -> UpdateType]]
      /\ \A r \in Handlers, n \in Nodes : update[r][n] = NoUpdate
  BY NewUpdateType DEF Init
<1> QED
  BY <1>1, <1>2, <1>3, <1>4, <1>5, <1>6, TypeOfHandlers, TypeOfUpdates
  DEF Init, TypeInv, TypeOK, Places

\* A step of a handler, or of an update it has caused, touches neither the locals
\* of other handlers nor their updates.
OthersKeep(r) ==
    /\ handler' = [q \in Handlers |-> handler'[q]]
    /\ \A q \in Handlers : q # r => handler'[q] = handler[q]
    /\ \A q \in Handlers : q # r => update'[q] = update[q]

LEMMA AfterInsert ==
    ASSUME TypeInv, NEW r \in Handlers, Insert(r)
    PROVE  OthersKeep(r) /\ handler'[r] = [handler[r] EXCEPT !.phase = "metrics"]
BY DEF TypeInv, Insert, edges, OthersKeep

LEMMA AfterLock ==
    ASSUME TypeInv, NEW r \in Handlers, Lock(r)
    PROVE  OthersKeep(r) /\ handler'[r] = [handler[r] EXCEPT !.phase = "connect",
                                                        !.all = Append(addresses, Center)]
BY DEF TypeInv, Lock, edges, OthersKeep

LEMMA AfterConnect ==
    ASSUME TypeInv, NEW r \in Handlers, Connect(r)
    PROVE  OthersKeep(r) /\ handler'[r] = [handler[r] EXCEPT !.phase = "measure"]
BY DEF TypeInv, Connect, edges, OthersKeep

LEMMA AfterMeasure ==
    ASSUME TypeInv, NEW r \in Handlers, Measure(r)
    PROVE  OthersKeep(r) /\ handler'[r] =
              IF handler[r].j < Len(handler[r].all)
              THEN [handler[r] EXCEPT !.phase = "connect", !.j = handler[r].j + 1]
              ELSE [handler[r] EXCEPT !.phase = "connect", !.i = handler[r].i + 1,
                                      !.j = handler[r].i + 2]
BY DEF TypeInv, Measure, edges, OthersKeep

LEMMA AfterUnlock ==
    ASSUME TypeInv, NEW r \in Handlers, Unlock(r)
    PROVE  OthersKeep(r) /\ handler'[r] = [handler[r] EXCEPT !.phase = "snapshot",
                                                        !.all = << >>, !.i = 1, !.j = 2]
BY DEF TypeInv, Unlock, edges, OthersKeep

LEMMA AfterSnapshot ==
    ASSUME TypeInv, NEW r \in Handlers, Snapshot(r)
    PROVE  OthersKeep(r) /\ handler'[r] = [handler[r] EXCEPT !.phase = "notify",
                                                        !.list = active]
BY DEF TypeInv, Snapshot, edges, OthersKeep

\* The update the call of r at n has become, and the others of r.
UpdateIs(r, n, u) == update' = [update EXCEPT ![r][n] = u]
LEMMA UpdateAt ==
    ASSUME TypeInv, NEW r \in Handlers, NEW n \in Nodes, NEW u \in UpdateType,
           UpdateIs(r, n, u)
    PROVE  /\ update' \in [Handlers -> [Nodes -> UpdateType]]
           /\ update'[r][n] = u
           /\ \A k \in Nodes : k # n => update'[r][k] = update[r][k]
           /\ \A q \in Handlers : q # r => update'[q] = update[q]
BY DEF TypeInv, UpdateIs

LEMMA AfterNotify ==
    ASSUME TypeInv, NEW r \in Handlers, NEW n \in Nodes, Notify(r, n)
    PROVE  /\ OthersKeep(r)
           /\ handler'[r] = [handler[r] EXCEPT !.phase = "wait", !.target = n,
                                               !.reached = Address[n]]
           /\ LET u == [NoUpdate EXCEPT !.phase = "measure", !.list = handler[r].list,
                                        !.base = neighbors[n]] IN
              u \in UpdateType /\ UpdateIs(r, n, u)
<1>1. handler[r].list \in SUBSET Nodes /\ neighbors[n] \in SUBSET Places
  BY DEF TypeInv, TypeOK, HandlerType, Places
<1> DEFINE u == [NoUpdate EXCEPT !.phase = "measure", !.list = handler[r].list,
                                 !.base = neighbors[n]]
<1>2. u \in UpdateType /\ UpdateIs(r, n, u)
  BY <1>1, NewUpdateType DEF Notify, UpdateIs
<1> HIDE DEF u
<1>3. \A q \in Handlers : q # r => update'[q] = update[q]
  BY <1>2, UpdateAt
<1>4. /\ handler' = [q \in Handlers |-> handler'[q]]
      /\ \A q \in Handlers : q # r => handler'[q] = handler[q]
      /\ handler'[r] = [handler[r] EXCEPT !.phase = "wait", !.target = n,
                                          !.reached = Address[n]]
  BY DEF TypeInv, Notify
<1> QED BY <1>2, <1>3, <1>4 DEF OthersKeep, u

LEMMA AfterLose ==
    ASSUME TypeInv, NEW r \in Handlers, NEW n \in Nodes, Lose(r, n)
    PROVE  /\ OthersKeep(r) /\ update' = update
           /\ handler'[r] = [handler[r] EXCEPT !.reached = Address[n]]
BY DEF TypeInv, Lose, OthersKeep

LEMMA AfterLoseReply ==
    ASSUME TypeInv, NEW r \in Handlers, LoseReply(r)
    PROVE  /\ OthersKeep(r) /\ update' = update
           /\ handler'[r] = Resume(handler[r], handler[r].target)
BY DEF TypeInv, LoseReply, edges, OthersKeep

LEMMA AfterMeasureLatencies ==
    ASSUME TypeInv, NEW r \in Handlers, NEW n \in Nodes, MeasureLatencies(r, n)
    PROVE  /\ OthersKeep(r) /\ handler' = handler
           /\ \E ok \in [Unknown(r, n) -> 0..Samples] :
                 LET unheard == {m \in Unknown(r, n) : ~MeasureLatency(m, ok[m])}
                     u == [update[r][n] EXCEPT !.phase = "write", !.unheard = unheard,
                                               !.fresh = NearListed(r, n) \ unheard] IN
                 /\ Fail(Cardinality(unheard \cap up))
                 /\ u \in UpdateType /\ UpdateIs(r, n, u)
<1>1. PICK ok \in [Unknown(r, n) -> 0..Samples] :
         LET unheard == {m \in Unknown(r, n) : ~MeasureLatency(m, ok[m])} IN
         /\ Fail(Cardinality(unheard \cap up))
         /\ update' = [update EXCEPT ![r][n].phase = "write", ![r][n].unheard = unheard,
              ![r][n].fresh = NearListed(r, n) \ unheard]
  BY DEF MeasureLatencies
<1> DEFINE unheard == {m \in Unknown(r, n) : ~MeasureLatency(m, ok[m])}
           u == [update[r][n] EXCEPT !.phase = "write", !.unheard = unheard,
                                     !.fresh = NearListed(r, n) \ unheard]
<1>2. update[r][n] \in UpdateType
  BY DEF TypeInv
<1>3. unheard \in SUBSET Nodes /\ NearListed(r, n) \ unheard \in SUBSET Nodes
  BY <1>2 DEF UpdateType, Unknown, NearListed
<1>4. Fail(Cardinality(unheard \cap up))
  BY <1>1
<1>5. update' = [update EXCEPT ![r][n].phase = "write", ![r][n].unheard = unheard,
                   ![r][n].fresh = NearListed(r, n) \ unheard]
  BY <1>1
<1> HIDE DEF unheard
<1>6. u \in UpdateType
  BY <1>2, <1>3, WriteFresh
<1>7. UpdateIs(r, n, u)
  BY <1>5 DEF UpdateIs, TypeInv
<1> HIDE DEF u
<1>8. \A q \in Handlers : q # r => update'[q] = update[q]
  BY <1>6, <1>7, UpdateAt
<1>9. handler' = handler /\ handler = [q \in Handlers |-> handler[q]]
  BY DEF MeasureLatencies, TypeInv
<1>10. OthersKeep(r)
  BY <1>8, <1>9 DEF OthersKeep
<1> QED BY <1>4, <1>6, <1>7, <1>9, <1>10 DEF unheard, u

LEMMA AfterWrite ==
    ASSUME TypeInv, NEW r \in Handlers, NEW n \in Nodes, WriteNeighbors(r, n)
    PROVE  /\ OthersKeep(r) /\ handler'[r] = Resume(handler[r], n)
           /\ UpdateIs(r, n, NoUpdate) /\ NoUpdate \in UpdateType
<1>1. UpdateIs(r, n, NoUpdate) /\ NoUpdate \in UpdateType
  BY NewUpdateType DEF WriteNeighbors, UpdateIs
<1>2. \A q \in Handlers : q # r => update'[q] = update[q]
  BY <1>1, UpdateAt
<1>3. /\ handler' = [q \in Handlers |-> handler'[q]]
      /\ \A q \in Handlers : q # r => handler'[q] = handler[q]
      /\ handler'[r] = Resume(handler[r], n)
  BY DEF TypeInv, WriteNeighbors
<1> QED BY <1>1, <1>2, <1>3 DEF OthersKeep

LEMMA AfterReturn ==
    ASSUME TypeInv, NEW r \in Handlers, Return(r)
    PROVE  OthersKeep(r) /\ update' = update /\ handler'[r] = NoLocals
BY DEF TypeInv, Return, edges, OthersKeep

LEMMA AfterRegisterStep ==
    ASSUME TypeInv, NEW r \in Handlers, RegisterStep(r)
    PROVE  OthersKeep(r)
BY AfterInsert, AfterLock, AfterConnect, AfterMeasure, AfterUnlock, AfterSnapshot,
   AfterNotify, AfterLose, AfterLoseReply, AfterMeasureLatencies, AfterWrite, AfterReturn
DEF RegisterStep

\* Steps at the center leave the updates alone.
LEMMA UpdatesStay ==
    ASSUME TypeInv, NEW r \in Handlers,
           \/ Insert(r) \/ Lock(r) \/ Connect(r) \/ Measure(r) \/ Unlock(r) \/ Snapshot(r)
           \/ LoseReply(r) \/ Return(r) \/ \E n \in Nodes : Lose(r, n)
    PROVE  update' = update
BY DEF Insert, Lock, Connect, Measure, Unlock, Snapshot, LoseReply, Return, Lose, edges

LEMMA HandlerTypeStep ==
    ASSUME TypeInv, NEW r \in Handlers, RegisterStep(r)
    PROVE  handler' \in [Handlers -> HandlerType]
<1>1. OthersKeep(r) /\ \A q \in Handlers : handler[q] \in HandlerType
  BY AfterRegisterStep DEF TypeInv
<1>2. /\ "done" \in Phases /\ "metrics" \in Phases /\ "connect" \in Phases
      /\ "measure" \in Phases /\ "snapshot" \in Phases /\ "notify" \in Phases
      /\ "wait" \in Phases
      /\ Center \in Places /\ \A n \in Nodes : n \in Places /\ Address[n] \in Marks
      /\ << >> \in Seq(Places) /\ 1 \in Nat /\ 2 \in Nat
  BY DEF Phases, Places, Marks
<1>3. Append(addresses, Center) \in Seq(Places) /\ active \subseteq Nodes
  BY DEF TypeInv, TypeOK, Places
<1>4. handler[r] \in HandlerType /\ handler[r].i \in Nat /\ handler[r].j \in Nat
  BY <1>1 DEF HandlerType
<1>5. handler'[r] \in HandlerType
  <2>2. CASE Insert(r)
    BY <1>2, <1>4, <2>2, AfterInsert DEF HandlerType
  <2>3. CASE Lock(r)
    <3>1. [handler[r] EXCEPT !.phase = "connect", !.all = Append(addresses, Center)]
            \in HandlerType
      BY <1>2, <1>3, <1>4, WriteAll
    <3> QED BY <2>3, <3>1, AfterLock
  <2>11. CASE Connect(r)
    BY <1>2, <1>4, <2>11, AfterConnect DEF HandlerType
  <2>4. CASE Measure(r)
    <3>1. handler[r].j + 1 \in Nat /\ handler[r].i + 1 \in Nat /\ handler[r].i + 2 \in Nat
      BY <1>4
    <3>2. /\ [handler[r] EXCEPT !.phase = "connect", !.j = handler[r].j + 1] \in HandlerType
          /\ [handler[r] EXCEPT !.phase = "connect", !.i = handler[r].i + 1,
                                !.j = handler[r].i + 2] \in HandlerType
      BY <1>2, <1>4, <3>1, WriteIndexes
    <3> QED BY <2>4, <3>2, AfterMeasure
  <2>5. CASE Unlock(r)
    <3>1. [handler[r] EXCEPT !.phase = "snapshot", !.all = << >>, !.i = 1, !.j = 2]
            \in HandlerType
      BY <1>2, <1>4, WriteMeasured
    <3> QED BY <2>5, <3>1, AfterUnlock
  <2>6. CASE Snapshot(r)
    BY <1>2, <1>3, <1>4, <2>6, AfterSnapshot DEF HandlerType
  <2>7. ASSUME NEW n \in Nodes, Notify(r, n)
        PROVE  handler'[r] \in HandlerType
    <3>1. [handler[r] EXCEPT !.phase = "wait", !.target = n, !.reached = Address[n]]
            \in HandlerType
      BY <1>2, <1>4, WriteTarget
    <3> QED BY <2>7, <3>1, AfterNotify
  <2>8. ASSUME NEW n \in Nodes, Lose(r, n)
        PROVE  handler'[r] \in HandlerType
    <3>1. [handler[r] EXCEPT !.reached = Address[n]] \in HandlerType
      BY <1>2, <1>4, WriteReached
    <3> QED BY <2>8, <3>1, AfterLose
  <2>9. CASE LoseReply(r)
    <3>1. Resume(handler[r], handler[r].target) \in HandlerType
      BY <1>4, ResumeType
    <3> QED BY <2>9, <3>1, AfterLoseReply
  <2>12. ASSUME NEW n \in Nodes, WriteNeighbors(r, n)
         PROVE  handler'[r] \in HandlerType
    <3>1. Resume(handler[r], n) \in HandlerType
      BY <1>4, ResumeType
    <3> QED BY <2>12, <3>1, AfterWrite
  <2>13. ASSUME NEW n \in Nodes, MeasureLatencies(r, n)
         PROVE  handler'[r] \in HandlerType
    BY <1>4, <2>13, AfterMeasureLatencies
  <2>10. CASE Return(r)
    <3>1. NoLocals \in HandlerType
      BY <1>2 DEF NoLocals, HandlerType, Marks
    <3> QED BY <2>10, <3>1, AfterReturn
  <2> QED
    BY <2>2, <2>3, <2>4, <2>5, <2>6, <2>7, <2>8, <2>9, <2>10, <2>11, <2>12, <2>13
    DEF RegisterStep
<1>6. \A q \in Handlers : handler'[q] \in HandlerType
  BY <1>1, <1>5 DEF OthersKeep
<1> QED BY <1>1, <1>6 DEF OthersKeep

LEMMA UpdateTypeStep ==
    ASSUME TypeInv, NEW r \in Handlers, RegisterStep(r)
    PROVE  update' \in [Handlers -> [Nodes -> UpdateType]]
<1>1. CASE \E n \in Nodes : Notify(r, n) \/ MeasureLatencies(r, n) \/ WriteNeighbors(r, n)
  <2>1. \E n \in Nodes : \E u \in UpdateType : UpdateIs(r, n, u)
    BY <1>1, AfterNotify, AfterMeasureLatencies, AfterWrite
  <2> QED BY <2>1, UpdateAt
<1>2. CASE ~\E n \in Nodes : Notify(r, n) \/ MeasureLatencies(r, n) \/ WriteNeighbors(r, n)
  <2>1. update' = update
    BY <1>2, UpdatesStay DEF RegisterStep
  <2> QED BY <2>1 DEF TypeInv
<1> QED BY <1>1, <1>2

\* A call counts as failed only within the bound.
LEMMA FailType ==
    ASSUME stops \in Nat, failures \in Nat, stops + failures <= MaxFaults,
           NEW k \in Nat, Fail(k)
    PROVE  failures' \in Nat /\ failures' >= failures /\ stops + failures' <= MaxFaults
BY DEF Fail

LEMMA NoneSoFar ==
    ASSUME NEW s \in Nat, NEW f \in Nat, NEW g \in Nat, g >= f, s + g = 0
    PROVE  s = 0 /\ f = 0 /\ g = 0
OBVIOUS

\* What no step of a handler changes, whichever it is.
LEMMA RegisterKeeps ==
    ASSUME TypeInv, NEW r \in Handlers, RegisterStep(r)
    PROVE  /\ UNCHANGED <<started, up, stops>> /\ active \subseteq active'
           /\ failures' \in Nat /\ failures' >= failures /\ stops + failures' <= MaxFaults
<1>1. stops \in Nat /\ failures \in Nat /\ stops + failures <= MaxFaults /\ IsFiniteSet(up)
  BY DEF TypeInv, TypeOK
<1>2. ASSUME NEW k \in Nat, Fail(k)
      PROVE  failures' \in Nat /\ failures' >= failures /\ stops + failures' <= MaxFaults
  BY <1>1, <1>2, FailType
<1>3. CASE Measure(r)
  <2>1. PICK ok \in 0..Samples :
           Fail(IF Running(From(r)) /\ Running(To(r)) /\ ok = 0 THEN 1 ELSE 0)
    BY <1>3 DEF Measure
  <2>2. UNCHANGED <<started, up, stops, active>>
    BY <1>3 DEF Measure, edges
  <2> QED BY <1>2, <2>1, <2>2
<1>4. ASSUME NEW n \in Nodes, MeasureLatencies(r, n)
      PROVE  /\ UNCHANGED <<started, up, stops>> /\ active \subseteq active'
             /\ failures' \in Nat /\ failures' >= failures /\ stops + failures' <= MaxFaults
  <2>1. PICK u : Fail(Cardinality(u \cap up))
    BY <1>4 DEF MeasureLatencies
  <2>2. Cardinality(u \cap up) \in Nat
    BY <1>1, FS_Intersection, FS_CardinalityType
  <2>3. UNCHANGED <<started, up, stops, active>>
    BY <1>4 DEF MeasureLatencies, center
  <2> QED BY <1>2, <2>1, <2>2, <2>3
<1>5. ASSUME Unlock(r) \/ LoseReply(r) \/ \E n \in Nodes : Lose(r, n)
      PROVE  /\ UNCHANGED <<started, up, stops>> /\ active \subseteq active'
             /\ failures' \in Nat /\ failures' >= failures /\ stops + failures' <= MaxFaults
  <2>1. Fail(0) \/ Fail(1)
    BY <1>5 DEF Unlock, LoseReply, Lose
  <2>2. UNCHANGED <<started, up, stops, active>>
    BY <1>5 DEF Unlock, LoseReply, Lose, center, edges
  <2> QED BY <1>2, <2>1, <2>2
<1>6. ASSUME Insert(r) \/ Lock(r) \/ Connect(r) \/ Snapshot(r) \/ Return(r)
      PROVE  UNCHANGED <<started, up, stops, failures>> /\ active \subseteq active'
  BY <1>6 DEF Insert, Lock, Connect, Snapshot, Return, center, edges
<1>7. ASSUME NEW n \in Nodes, Notify(r, n) \/ WriteNeighbors(r, n)
      PROVE  UNCHANGED <<started, up, stops, failures, active>>
  BY <1>7 DEF Notify, WriteNeighbors, center
<1> QED BY <1>1, <1>3, <1>4, <1>5, <1>6, <1>7 DEF RegisterStep

\* No fault up to now means none before.
LEMMA FaultsStay ==
    ASSUME TypeInv, NEW r \in Handlers, RegisterStep(r), stops' + failures' = 0
    PROVE  stops = 0 /\ failures = 0 /\ failures' = 0
<1>1. /\ stops \in Nat /\ failures \in Nat /\ stops' = stops
      /\ failures' \in Nat /\ failures' >= failures
  BY RegisterKeeps DEF TypeInv, TypeOK
<1> QED BY <1>1, NoneSoFar

\* A server that stops ends the updates that run there and the calls that wait for them.
LEMMA AfterStop ==
    ASSUME TypeInv, NEW n \in Nodes, Stop(n)
    PROVE  /\ UNCHANGED <<center, started, failures>>
           /\ up' = up \ {n} /\ stops' = stops + 1
           /\ stops' # 0 /\ stops' + failures' # 0 /\ stops' + failures' <= MaxFaults
           /\ delivered'[n] = {} /\ lost'[n] = {}
           /\ \A k \in Nodes : k # n =>
                 /\ delivered'[k] = delivered[k] /\ neighbors'[k] = neighbors[k]
                 /\ lost'[k] = lost[k]
                 /\ missed'[k] = missed[k] /\ (k \in overtaken' <=> k \in overtaken)
           /\ handler' = [q \in Handlers |-> Resume(handler[q], n)]
           /\ \A q \in Handlers :
                 /\ update'[q][n] = NoUpdate
                 /\ \A k \in Nodes : k # n => update'[q][k] = update[q][k]
           /\ update' \in [Handlers -> [Nodes -> UpdateType]]
<1>1. /\ stops \in Nat /\ failures \in Nat /\ neighbors \in [Nodes -> SUBSET Places]
      /\ delivered \in [Nodes -> SUBSET Nodes] /\ missed \in [Nodes -> SUBSET Nodes]
      /\ lost \in [Nodes -> SUBSET Nodes]
      /\ update \in [Handlers -> [Nodes -> UpdateType]]
  BY DEF TypeInv, TypeOK, Places
<1>2. /\ UNCHANGED <<center, started, failures>> /\ up' = up \ {n} /\ stops' = stops + 1
      /\ stops + failures < MaxFaults
      /\ handler' = [q \in Handlers |-> Resume(handler[q], n)]
  BY DEF Stop
<1>3. stops' # 0 /\ stops' + failures' # 0 /\ stops' + failures' <= MaxFaults
  BY <1>1, <1>2
<1>4. /\ delivered'[n] = {} /\ lost'[n] = {}
      /\ \A k \in Nodes : k # n =>
            /\ delivered'[k] = delivered[k] /\ neighbors'[k] = neighbors[k]
            /\ lost'[k] = lost[k]
            /\ missed'[k] = missed[k] /\ (k \in overtaken' <=> k \in overtaken)
  BY <1>1 DEF Stop
<1>5. update' = [q \in Handlers |-> [update[q] EXCEPT ![n] = NoUpdate]]
  BY DEF Stop
<1>6. NoUpdate \in UpdateType
  BY NewUpdateType
<1>7. \A q \in Handlers : update[q] \in [Nodes -> UpdateType]
  BY <1>1
<1>8. ASSUME NEW q \in Handlers
      PROVE  /\ update'[q] \in [Nodes -> UpdateType] /\ update'[q][n] = NoUpdate
             /\ \A k \in Nodes : k # n => update'[q][k] = update[q][k]
  <2>1. update'[q] = [update[q] EXCEPT ![n] = NoUpdate]
    BY <1>5
  <2> QED BY <1>6, <1>7, <2>1
<1>9. update' \in [Handlers -> [Nodes -> UpdateType]]
  BY <1>5, <1>8
<1> QED BY <1>2, <1>3, <1>4, <1>8, <1>9

LEMMA TypeStep == TypeInv /\ (\A r \in Handlers : LocalsInv(r)) /\ [Next]_vars => TypeInv'
<1> SUFFICES ASSUME TypeInv, \A r \in Handlers : LocalsInv(r), [Next]_vars PROVE TypeInv'
  OBVIOUS
<1>1. /\ stops \in Nat /\ failures \in Nat /\ stops + failures <= MaxFaults
      /\ started \in 0..MaxRegistrations /\ up \subseteq Nodes /\ IsFiniteSet(up)
      /\ neighbors \in [Nodes -> SUBSET Places] /\ active \subseteq Nodes
      /\ delivered \in [Nodes -> SUBSET Nodes] /\ missed \in [Nodes -> SUBSET Nodes]
      /\ lost \in [Nodes -> SUBSET Nodes]
      /\ overtaken \subseteq Nodes /\ addresses \in Seq(Nodes)
      /\ metrics \in [Places \X Places -> {"none", "zero", "good"}]
      /\ holder \in Handlers \cup {Nobody} /\ cutShort \in BOOLEAN
      /\ handler = [q \in Handlers |-> handler[q]]
      /\ \A q \in Handlers : handler[q] \in HandlerType
      /\ update \in [Handlers -> [Nodes -> UpdateType]]
  BY DEF TypeInv, TypeOK, Places
<1>2. ASSUME /\ handler' \in [Handlers -> HandlerType] /\ IsFiniteSet(up')
             /\ update' \in [Handlers -> [Nodes -> UpdateType]]
             /\ stops' \in Nat /\ failures' \in Nat /\ stops' + failures' <= MaxFaults
             /\ started' \in 0..MaxRegistrations /\ up' \subseteq Nodes
             /\ neighbors' \in [Nodes -> SUBSET Places] /\ active' \subseteq Nodes
             /\ delivered' \in [Nodes -> SUBSET Nodes] /\ missed' \in [Nodes -> SUBSET Nodes]
             /\ lost' \in [Nodes -> SUBSET Nodes]
             /\ overtaken' \subseteq Nodes /\ addresses' \in Seq(Nodes)
             /\ metrics' \in [Places \X Places -> {"none", "zero", "good"}]
             /\ holder' \in Handlers \cup {Nobody} /\ cutShort' \in BOOLEAN
      PROVE  TypeInv'
  <2>1. \A q \in Handlers : handler'[q] \in HandlerType
    BY <1>2
  <2>2. \A q \in Handlers, n \in Nodes : update'[q][n] \in UpdateType
    BY <1>2
  <2>3. \A q \in Handlers :
          /\ handler'[q].phase \in {"done", "insert", "metrics", "connect", "measure",
                                    "snapshot", "notify", "wait"}
          /\ handler'[q].node \in Nodes \cup {Center}
          /\ handler'[q].target \in Nodes \cup {Center}
          /\ handler'[q].all \in Seq(Nodes \cup {Center})
          /\ handler'[q].list \subseteq Nodes
          /\ handler'[q].reached \in {0} \cup {Address[n] : n \in Nodes}
    BY <2>1, TypeOfHandlers
  <2>4. \A q \in Handlers, n \in Nodes :
          /\ update'[q][n].phase \in {"none", "measure", "write"}
          /\ update'[q][n].list \subseteq Nodes /\ update'[q][n].fresh \subseteq Nodes
          /\ update'[q][n].unheard \subseteq Nodes
          /\ update'[q][n].base \subseteq Nodes \cup {Center}
    BY <2>2, TypeOfUpdates
  <2> QED BY <1>2, <2>3, <2>4 DEF TypeInv, TypeOK, Places
<1>3. ASSUME NEW n \in Nodes, Start(n)
      PROVE  TypeInv'
  <2>1. IsFiniteSet(up') /\ up' \subseteq Nodes
    BY <1>1, <1>3, FS_AddElement DEF Start
  <2>2. started + 1 \in Handlers /\ started' \in 0..MaxRegistrations
    BY <1>1, <1>3 DEF Start, Handlers
  <2>3. handler' = [handler EXCEPT ![started + 1] =
                      [handler[started + 1] EXCEPT !.phase = "insert", !.node = n]]
    BY <1>1, <1>3, <2>2 DEF Start
  <2>4. [handler[started + 1] EXCEPT !.phase = "insert", !.node = n] \in HandlerType
    <3>1. "insert" \in Phases /\ n \in Places /\ handler[started + 1] \in HandlerType
      BY <1>1, <2>2 DEF Phases, Places
    <3> QED BY <3>1 DEF HandlerType
  <2>5. handler' \in [Handlers -> HandlerType]
    BY <1>1, <2>2, <2>3, <2>4
  <2>6. neighbors' \in [Nodes -> SUBSET Places]
    BY <1>1, <1>3 DEF Start, Places
  <2> QED BY <1>1, <1>2, <1>3, <2>1, <2>2, <2>5, <2>6 DEF Start, center
<1>4. ASSUME NEW n \in Nodes, Stop(n)
      PROVE  TypeInv'
  <2>1. IsFiniteSet(up') /\ up' \subseteq Nodes
    BY <1>1, <1>4, FS_RemoveElement DEF Stop
  <2>2. /\ handler' = [q \in Handlers |-> Resume(handler[q], n)]
        /\ update' \in [Handlers -> [Nodes -> UpdateType]]
        /\ stops' = stops + 1 /\ stops' + failures' <= MaxFaults
    BY <1>4, AfterStop
  <2>3. handler' \in [Handlers -> HandlerType]
    BY <1>1, <2>2, ResumeType
  <2> QED BY <1>1, <1>2, <1>4, <2>1, <2>2, <2>3 DEF Stop, center
<1>5. ASSUME NEW r \in Handlers, RegisterStep(r)
      PROVE  TypeInv'
  <2>1. /\ handler' \in [Handlers -> HandlerType]
        /\ update' \in [Handlers -> [Nodes -> UpdateType]]
        /\ UNCHANGED <<started, up, stops>>
        /\ failures' \in Nat /\ stops + failures' <= MaxFaults
    BY <1>5, HandlerTypeStep, UpdateTypeStep, RegisterKeeps
  <2>2. CASE Insert(r)
    <3>1. handler[r].node \in Nodes
      BY <2>2 DEF LocalsInv, Insert
    <3> QED BY <1>1, <1>2, <2>1, <2>2, <3>1 DEF Insert, edges
  <2>3. CASE Lock(r) \/ Connect(r) \/ Snapshot(r) \/ LoseReply(r) \/ Return(r)
    BY <1>1, <1>2, <2>1, <2>3 DEF Lock, Connect, Snapshot, LoseReply, Return, center, edges
  <2>4. CASE Measure(r)
    <3>1. PICK v \in {"zero", "good"} :
             metrics' = [metrics EXCEPT ![<<From(r), To(r)>>] = v,
                                        ![<<To(r), From(r)>>] = v]
      BY <2>4 DEF Measure, ForwardNetworkMeasurement
    <3>2. metrics' \in [Places \X Places -> {"none", "zero", "good"}]
      BY <1>1, <3>1
    <3> QED BY <1>1, <1>2, <2>1, <2>4, <3>2 DEF Measure, edges
  <2>5. CASE Unlock(r)
    <3>1. cutShort' \in BOOLEAN
      BY <2>5 DEF Unlock, PairsLeft
    <3> QED BY <1>1, <1>2, <2>1, <2>5, <3>1 DEF Unlock, edges
  <2>6. ASSUME NEW n \in Nodes, Notify(r, n) \/ MeasureLatencies(r, n)
        PROVE  TypeInv'
    BY <1>1, <1>2, <2>1, <2>6 DEF Notify, MeasureLatencies, center
  <2>7. ASSUME NEW n \in Nodes, Lose(r, n)
        PROVE  TypeInv'
    <3>1. handler[r].list \subseteq Nodes
      BY <1>1 DEF HandlerType
    <3>2. lost' \in [Nodes -> SUBSET Nodes]
      BY <1>1, <2>7, <3>1 DEF Lose
    <3> QED BY <1>1, <1>2, <2>1, <2>7, <3>2 DEF Lose, center
  <2>8. ASSUME NEW n \in Nodes, WriteNeighbors(r, n)
        PROVE  TypeInv'
    <3> DEFINE u == update[r][n]
    <3>1. u.fresh \subseteq Nodes /\ u.unheard \subseteq Nodes /\ u.list \subseteq Nodes
      BY <1>1 DEF UpdateType
    <3>2. /\ neighbors' = [neighbors EXCEPT ![n] = u.fresh]
          /\ missed' = [missed EXCEPT ![n] = u.unheard]
          /\ delivered' = [delivered EXCEPT ![n] = delivered[n] \cup u.list]
          /\ overtaken' = IF delivered[n] \subseteq u.list
                          THEN overtaken \ {n} ELSE overtaken \cup {n}
      BY <2>8 DEF WriteNeighbors
    <3> HIDE DEF u
    <3>3. neighbors' \in [Nodes -> SUBSET Places] /\ overtaken' \subseteq Nodes
      BY <1>1, <3>1, <3>2 DEF Places
    <3>4. delivered' \in [Nodes -> SUBSET Nodes] /\ missed' \in [Nodes -> SUBSET Nodes]
      BY <1>1, <3>1, <3>2
    <3> QED BY <1>1, <1>2, <2>1, <2>8, <3>3, <3>4 DEF WriteNeighbors, center
  <2> QED BY <1>5, <2>2, <2>3, <2>4, <2>5, <2>6, <2>7, <2>8 DEF RegisterStep
<1>6. CASE UNCHANGED vars
  BY <1>1, <1>2, <1>6 DEF vars, center, edges
<1> QED BY <1>3, <1>4, <1>5, <1>6 DEF Next

-----------------------------------------------------------------------------
\* The locals of the handlers.

LEMMA LocalsInit == Init => \A r \in Handlers : LocalsInv(r)
BY DEF Init, LocalsInv, NoLocals, Early, Measuring

LEMMA Resumed ==
    ASSUME NEW h \in HandlerType, NEW n, NEW g, g = h \/ g = Resume(h, n)
    PROVE  /\ g.node = h.node /\ g.i = h.i /\ g.j = h.j
           /\ g.list = h.list /\ g.reached = h.reached
           /\ g = h \/ (h.phase = "wait" /\ g.phase = "notify")
<1>1. CASE g = h
  BY <1>1
<1>2. CASE g = Resume(h, n)
  <2>1. /\ g.list = h.list /\ g.reached = h.reached
        /\ g.i = h.i /\ g.j = h.j /\ g.node = h.node
        /\ g # h => h.phase = "wait" /\ g.phase = "notify"
    BY <1>2, ResumeType
  <2> QED BY <2>1
<1> QED BY <1>1, <1>2

\* A step that does not touch a handler's locals, or only lets it go on after a call,
\* and neither takes the mutex from it nor shrinks the stored and the running servers,
\* keeps its part.
LEMMA LocalsFrame ==
    ASSUME NEW r \in Handlers, TypeInv, LocalsInv(r),
           handler'[r] = handler[r] \/ \E n : handler'[r] = Resume(handler[r], n),
           handler[r].phase \in Measuring => holder' = holder,
           active \subseteq active', started <= started',
           stops' = 0 => stops = 0 /\ up \subseteq up',
           started \in Nat, started' \in Nat
    PROVE  LocalsInv(r)'
<1> DEFINE h == handler[r]
           g == handler'[r]
<1>1. h \in HandlerType
  BY DEF TypeInv
<1>2. /\ g.node = h.node /\ g.i = h.i /\ g.j = h.j
      /\ g.list = h.list /\ g.reached = h.reached
      /\ g = h \/ (h.phase = "wait" /\ g.phase = "notify")
  <2>1. \E n : g = h \/ g = Resume(h, n)
    OBVIOUS
  <2> HIDE DEF g, h
  <2> QED BY <1>1, <2>1, Resumed
<1>3. r > started' => r > started
  BY DEF Handlers
<1>4. CASE g = h
  BY <1>3, <1>4 DEF LocalsInv, Stored
<1>5. CASE h.phase = "wait" /\ g.phase = "notify"
  <2>1. h.phase \notin Early /\ h.phase \notin Measuring /\ g.phase \notin Early
        /\ g.phase \notin Measuring /\ g.phase # "insert" /\ g.phase # "done"
    BY <1>5 DEF Early, Measuring
  <2> QED BY <1>2, <1>3, <1>5, <2>1 DEF LocalsInv
<1> QED BY <1>2, <1>4, <1>5

\* A server that starts has an idle handler serve its registration.
LEMMA AfterStart ==
    ASSUME TypeInv, \A r \in Handlers : LocalsInv(r), NEW n \in Nodes, Start(n)
    PROVE  /\ UNCHANGED <<center, update, delivered, lost, overtaken, missed,
                          stops, failures>>
           /\ n \notin up /\ up' = up \cup {n} /\ started' = started + 1
           /\ neighbors'[n] = {Center}
           /\ \A k \in Nodes : k # n => neighbors'[k] = neighbors[k]
           /\ \E s \in Handlers :
                 /\ s = started + 1 /\ handler[s].phase = "done"
                 /\ handler'[s] = [NoLocals EXCEPT !.phase = "insert", !.node = n]
                 /\ handler'[s].phase = "insert" /\ handler'[s].node = n
                 /\ \A q \in Handlers : q # s => handler'[q] = handler[q]
<1>1. /\ started \in 0..MaxRegistrations /\ handler \in [Handlers -> HandlerType]
      /\ neighbors \in [Nodes -> SUBSET Places]
  BY DEF TypeInv, TypeOK, Places
<1>2. PICK s : s = started + 1
  OBVIOUS
<1>3. s \in Handlers /\ s > started
  BY <1>1, <1>2 DEF Start, Handlers
<1>4. handler' = [handler EXCEPT ![s] = [handler[s] EXCEPT !.phase = "insert", !.node = n]]
  BY <1>1, <1>2, <1>3 DEF Start
<1>5. handler[s] = NoLocals
  BY <1>1, <1>3 DEF LocalsInv
<1>6. handler'[s] = [NoLocals EXCEPT !.phase = "insert", !.node = n]
  BY <1>1, <1>3, <1>4, <1>5
<1>7. /\ handler[s].phase = "done"
      /\ handler'[s].phase = "insert" /\ handler'[s].node = n
  BY <1>5, <1>6 DEF NoLocals
<1>8. \A q \in Handlers : q # s => handler'[q] = handler[q]
  BY <1>1, <1>4
<1>9. /\ UNCHANGED <<center, update, delivered, lost, overtaken, missed, stops, failures>>
      /\ n \notin up /\ up' = up \cup {n} /\ started' = started + 1
      /\ neighbors'[n] = {Center}
      /\ \A k \in Nodes : k # n => neighbors'[k] = neighbors[k]
  BY <1>1 DEF Start
<1> QED BY <1>2, <1>3, <1>6, <1>7, <1>8, <1>9

\* The mutex stays with a handler that measures while another one steps.
LEMMA MutexStays ==
    ASSUME TypeInv, NEW r \in Handlers, RegisterStep(r), LocalsInv(r),
           NEW q \in Handlers, q # r, LocalsInv(q), handler[q].phase \in Measuring
    PROVE  holder' = holder
<1>1. holder = q /\ holder # Nobody /\ holder # r
  BY DEF LocalsInv, Handlers, Nobody
<1>2. ~Lock(r)
  BY <1>1 DEF Lock
<1>3. handler[r].phase \notin Measuring
  BY <1>1 DEF LocalsInv
<1>4. ~Unlock(r) /\ ~Measure(r)
  BY <1>3 DEF Unlock, Measure, Measuring
<1>5. CASE Insert(r) \/ Connect(r) \/ Snapshot(r) \/ LoseReply(r) \/ Return(r)
  BY <1>5 DEF Insert, Connect, Snapshot, LoseReply, Return, center
<1>6. ASSUME NEW n \in Nodes,
             Notify(r, n) \/ Lose(r, n) \/ MeasureLatencies(r, n) \/ WriteNeighbors(r, n)
      PROVE  holder' = holder
  BY <1>6 DEF Notify, Lose, MeasureLatencies, WriteNeighbors, center
<1> QED BY <1>2, <1>4, <1>5, <1>6 DEF RegisterStep

LEMMA LocalsStep ==
    ASSUME TypeInv, ServersInv, \A r \in Handlers : LocalsInv(r), [Next]_vars
    PROVE  \A r \in Handlers : LocalsInv(r)'
<1>1. /\ stops \in Nat /\ failures \in Nat
      /\ started \in Nat /\ active \subseteq Nodes /\ up \subseteq Nodes
      /\ addresses \in Seq(Nodes)
      /\ \A q \in Handlers : handler[q] \in HandlerType
  BY DEF TypeInv, TypeOK
<1>2. ASSUME NEW n \in Nodes, Start(n), NEW r \in Handlers
      PROVE  LocalsInv(r)'
  <2>1. /\ started' = started + 1 /\ n \in up' /\ active' = active /\ holder' = holder
        /\ up \subseteq up' /\ stops' = stops
    BY <1>2, AfterStart DEF center
  <2>2. PICK s \in Handlers :
           /\ s = started + 1 /\ handler[s].phase = "done"
           /\ handler'[s] = [NoLocals EXCEPT !.phase = "insert", !.node = n]
           /\ handler'[s].phase = "insert" /\ handler'[s].node = n
           /\ \A q \in Handlers : q # s => handler'[q] = handler[q]
    BY <1>2, AfterStart
  <2>3. CASE r = s
    <3>1. /\ handler'[r].phase = "insert" /\ handler'[r].node = n /\ handler'[r].reached = 0
          /\ handler'[r].i = 1 /\ handler'[r].j = 2 /\ handler'[r].list = {}
      BY <2>2, <2>3 DEF NoLocals
    <3>2. ~(r > started')
      BY <1>1, <2>1, <2>2, <2>3
    <3> QED BY <2>1, <3>1, <3>2 DEF LocalsInv, Measuring
  <2>4. CASE r # s
    BY <1>1, <2>1, <2>2, <2>4, LocalsFrame
  <2> QED BY <2>3, <2>4
<1>3. ASSUME NEW n \in Nodes, Stop(n), NEW r \in Handlers
      PROVE  LocalsInv(r)'
  <2>1. /\ started' = started /\ active' = active /\ stops' # 0 /\ holder' = holder
        /\ handler'[r] = Resume(handler[r], n)
    BY <1>3, AfterStop DEF center
  <2> QED BY <1>1, <2>1, LocalsFrame
<1>4. ASSUME NEW r \in Handlers, RegisterStep(r)
      PROVE  LocalsInv(r)'
  <2> DEFINE h == handler[r]
             g == handler'[r]
  <2>1. started' = started /\ up' = up /\ stops' = stops /\ active \subseteq active'
    BY <1>4, RegisterKeeps
  <2>2. h \in HandlerType /\ LocalsInv(r)
    BY <1>1
  <2>3. CASE Insert(r)
    <3>1. h.phase = "insert" /\ g = [h EXCEPT !.phase = "metrics"] /\ h.node \in active'
      BY <2>3, AfterInsert DEF Insert
    <3>2. /\ g.phase = "metrics" /\ g.reached = h.reached /\ g.node = h.node
          /\ g.i = h.i /\ g.j = h.j /\ g.list = h.list
      BY <2>2, <3>1 DEF HandlerType
    <3> QED BY <2>1, <2>2, <3>1, <3>2 DEF LocalsInv, Early, Measuring
  <2>4. CASE Lock(r)
    <3>1. /\ h.phase = "metrics" /\ holder' = r
          /\ g = [h EXCEPT !.phase = "connect", !.all = Append(addresses, Center)]
      BY <2>4, AfterLock DEF Lock
    <3>2. /\ g.phase = "connect" /\ g.reached = h.reached /\ g.node = h.node
          /\ g.i = h.i /\ g.j = h.j /\ g.list = h.list /\ g.all = Append(addresses, Center)
      BY <2>2, <3>1 DEF HandlerType
    <3>3. /\ Len(g.all) = Len(addresses) + 1 /\ Len(addresses) \in Nat
          /\ \A k \in 1..Len(g.all) : g.all[k] \in active \cup {Center}
      BY <1>1, <3>2 DEF ServersInv
    <3>4. h.i = 1 /\ h.j = 2 /\ h.node \in active /\ ~(r > started)
      BY <2>2, <3>1 DEF LocalsInv, Measuring
    <3> QED BY <2>1, <2>2, <3>1, <3>2, <3>3, <3>4 DEF LocalsInv, Early, Measuring, Stored
  <2>5. CASE Connect(r)
    <3>1. /\ h.phase = "connect" /\ holder' = holder /\ h.i < Len(h.all)
          /\ g = [h EXCEPT !.phase = "measure"]
      BY <2>5, AfterConnect DEF Connect, PairsLeft, center
    <3>2. /\ g.phase = "measure" /\ g.reached = h.reached /\ g.node = h.node
          /\ g.i = h.i /\ g.j = h.j /\ g.list = h.list /\ g.all = h.all
      BY <2>2, <3>1 DEF HandlerType
    <3> QED BY <2>1, <2>2, <3>1, <3>2 DEF LocalsInv, Early, Measuring, Stored
  <2>6. CASE Measure(r)
    <3>1. h.phase = "measure" /\ holder' = holder
      BY <2>6 DEF Measure
    <3>2. /\ h.i < Len(h.all) /\ Len(h.all) \in Nat
          /\ h.i \in Nat /\ h.j \in Nat /\ 1 <= h.i /\ h.i < h.j /\ h.j <= Len(h.all)
      BY <2>2, <3>1 DEF HandlerType, LocalsInv, Measuring
    <3>3. /\ g.phase = "connect" /\ g.reached = h.reached /\ g.list = h.list /\ g.all = h.all
          /\ g.node = h.node
          /\ \/ h.j < Len(h.all) /\ g.i = h.i /\ g.j = h.j + 1
             \/ ~(h.j < Len(h.all)) /\ g.i = h.i + 1 /\ g.j = h.i + 2
      <4>1. CASE h.j < Len(h.all)
        <5>1. g = [h EXCEPT !.phase = "connect", !.j = h.j + 1]
          BY <2>6, <4>1, AfterMeasure
        <5> QED BY <2>2, <4>1, <5>1 DEF HandlerType
      <4>2. CASE ~(h.j < Len(h.all))
        <5>1. g = [h EXCEPT !.phase = "connect", !.i = h.i + 1, !.j = h.i + 2]
          BY <2>6, <4>2, AfterMeasure
        <5> QED BY <2>2, <4>2, <5>1 DEF HandlerType
      <4> QED BY <4>1, <4>2
    <3>4. 1 <= g.i /\ g.i < g.j /\ (g.i < Len(g.all) => g.j <= Len(g.all))
      BY <3>2, <3>3
    <3> QED BY <2>1, <2>2, <3>1, <3>3, <3>4 DEF LocalsInv, Early, Measuring, Stored
  <2>7. CASE Unlock(r)
    <3>1. /\ h.phase = "connect"
          /\ g = [h EXCEPT !.phase = "snapshot", !.all = << >>, !.i = 1, !.j = 2]
      BY <2>7, AfterUnlock DEF Unlock
    <3>2. /\ g.phase = "snapshot" /\ g.reached = h.reached /\ g.node = h.node
          /\ g.i = 1 /\ g.j = 2 /\ g.list = h.list
      BY <2>2, <3>1 DEF HandlerType
    <3> QED BY <2>1, <2>2, <3>1, <3>2 DEF LocalsInv, Early, Measuring
  <2>8. CASE Snapshot(r)
    <3>1. h.phase = "snapshot" /\ g = [h EXCEPT !.phase = "notify", !.list = active]
      BY <2>8, AfterSnapshot DEF Snapshot
    <3>2. /\ g.phase = "notify" /\ g.list = active /\ g.node = h.node
          /\ g.i = h.i /\ g.j = h.j
      BY <2>2, <3>1 DEF HandlerType
    <3> QED BY <2>1, <2>2, <3>1, <3>2 DEF LocalsInv, Early, Measuring
  <2>9. ASSUME NEW n \in Nodes, Notify(r, n)
        PROVE  LocalsInv(r)'
    <3>1. /\ h.phase = "notify"
          /\ g = [h EXCEPT !.phase = "wait", !.target = n, !.reached = Address[n]]
      BY <2>9, AfterNotify DEF Notify, Visits
    <3>2. g.phase = "wait" /\ g.list = h.list /\ g.i = h.i /\ g.j = h.j /\ g.node = h.node
      BY <2>2, <3>1 DEF HandlerType
    <3> QED BY <2>1, <2>2, <3>1, <3>2 DEF LocalsInv, Early, Measuring
  <2>10. ASSUME NEW n \in Nodes, Lose(r, n)
        PROVE  LocalsInv(r)'
    <3>1. h.phase = "notify" /\ g = [h EXCEPT !.reached = Address[n]]
      BY <2>10, AfterLose DEF Lose, Visits
    <3>2. g.phase = "notify" /\ g.list = h.list /\ g.i = h.i /\ g.j = h.j /\ g.node = h.node
      BY <2>2, <3>1 DEF HandlerType
    <3> QED BY <2>1, <2>2, <3>1, <3>2 DEF LocalsInv, Early, Measuring
  <2>11. CASE LoseReply(r)
    <3>1. holder' = holder /\ g = Resume(h, h.target)
      BY <2>11, AfterLoseReply DEF LoseReply, center
    <3> QED BY <1>1, <2>1, <3>1, LocalsFrame
  <2>12. ASSUME NEW n \in Nodes, MeasureLatencies(r, n) \/ WriteNeighbors(r, n)
         PROVE  LocalsInv(r)'
    <3>1. holder' = holder /\ (g = h \/ g = Resume(h, n))
      BY <2>12, AfterMeasureLatencies, AfterWrite DEF MeasureLatencies, WriteNeighbors, center
    <3> QED BY <1>1, <2>1, <3>1, LocalsFrame
  <2>13. CASE Return(r)
    <3>1. g = NoLocals
      BY <2>13, AfterReturn
    <3> QED BY <2>1, <2>2, <3>1 DEF LocalsInv, Early, Measuring, NoLocals
  <2> QED
    BY <1>4, <2>3, <2>4, <2>5, <2>6, <2>7, <2>8, <2>9, <2>10, <2>11, <2>12, <2>13
    DEF RegisterStep
<1>5. ASSUME NEW r \in Handlers, RegisterStep(r), NEW q \in Handlers, q # r
      PROVE  LocalsInv(q)'
  <2>1. handler'[q] = handler[q]
    BY <1>5, AfterRegisterStep DEF OthersKeep
  <2>2. started' = started /\ up' = up /\ stops' = stops /\ active \subseteq active'
    BY <1>5, RegisterKeeps
  <2>3. handler[q].phase \in Measuring => holder' = holder
    BY <1>5, MutexStays
  <2> QED BY <1>1, <2>1, <2>2, <2>3, LocalsFrame
<1>6. ASSUME UNCHANGED vars, NEW r \in Handlers
      PROVE  LocalsInv(r)'
  <2>1. UNCHANGED <<handler, holder, active, started, stops, up>>
    BY <1>6 DEF vars, center, edges
  <2> QED BY <1>1, <2>1, LocalsFrame
<1> QED BY <1>2, <1>3, <1>4, <1>5, <1>6 DEF Next

-----------------------------------------------------------------------------
\* The updates at the edge servers.

LEMMA UpdatesInit == Init => UpdatesInv
BY DEF Init, UpdatesInv, NoUpdate

\* What UpdatesInv says of one update u that handler h has caused at n.
UpdateOK(r, n, u, h) ==
    /\ u.phase # "none" =>
          /\ n \in up /\ u.list # {} /\ u.list \subseteq active /\ r <= started
          /\ h.phase \in {"done", "notify", "wait"}
          /\ h.phase # "done" => Address[n] <= h.reached
    /\ u.phase = "write" =>
          /\ u.fresh = (u.list \cap Near[n]) \ u.unheard
          /\ stops + failures = 0 => u.unheard = {}

LEMMA UpdatesAre == UpdatesInv <=>
    \A r \in Handlers, n \in Nodes : UpdateOK(r, n, update[r][n], handler[r])
BY DEF UpdatesInv, UpdateOK

\* A step that leaves an update alone, whose handler moves on at most.
LEMMA UpdatesFrame ==
    ASSUME NEW r \in Handlers, NEW n \in Nodes,
           UpdateOK(r, n, update[r][n], handler[r]), update'[r][n] = update[r][n],
           n \in up => n \in up', active \subseteq active', r <= started => r <= started',
           stops' + failures' = 0 => stops + failures = 0,
           \/ handler'[r] = handler[r]
           \/ handler'[r].phase = "done"
           \/ /\ handler[r].phase # "done" /\ handler'[r].phase \in {"notify", "wait"}
              /\ Address[n] <= handler[r].reached => Address[n] <= handler'[r].reached
    PROVE  UpdateOK(r, n, update[r][n], handler[r])'
<1>1. CASE handler'[r] = handler[r]
  BY <1>1 DEF UpdateOK
<1>2. CASE handler'[r].phase = "done"
  BY <1>2 DEF UpdateOK
<1>3. CASE /\ handler[r].phase # "done" /\ handler'[r].phase \in {"notify", "wait"}
           /\ Address[n] <= handler[r].reached => Address[n] <= handler'[r].reached
  BY <1>3 DEF UpdateOK
<1> QED BY <1>1, <1>2, <1>3

\* A handler that is not past its list yet has caused no update.
LEMMA NoUpdateOf ==
    ASSUME UpdatesInv, NEW r \in Handlers, handler[r].phase \in Early
    PROVE  \A n \in Nodes : update[r][n].phase = "none"
BY DEF UpdatesInv, Early

\* A handler that goes on after a call has caused the updates it had before.
LEMMA UpdatesResume ==
    ASSUME TypeInv, UpdatesInv, NEW r \in Handlers, NEW n \in Nodes, NEW k,
           handler'[r] = Resume(handler[r], k), update'[r][n] = update[r][n],
           n \in up => n \in up', active \subseteq active', started' = started,
           stops' + failures' = 0 => stops + failures = 0
    PROVE  UpdateOK(r, n, update[r][n], handler[r])'
<1>1. handler[r] \in HandlerType
  BY DEF TypeInv
<1>2. /\ handler'[r].reached = handler[r].reached
      /\ handler'[r] = handler[r]
         \/ (handler[r].phase = "wait" /\ handler'[r].phase = "notify")
  BY <1>1, Resumed
<1>3. UpdateOK(r, n, update[r][n], handler[r])
  BY UpdatesAre
<1> QED BY <1>2, <1>3, UpdatesFrame

LEMMA UpdatesStep ==
    ASSUME TypeInv, ServersInv, \A r \in Handlers : LocalsInv(r), UpdatesInv, [Next]_vars
    PROVE  UpdatesInv'
<1>1. /\ stops \in Nat /\ failures \in Nat /\ started \in Nat /\ active \subseteq Nodes
      /\ up \subseteq Nodes /\ IsFiniteSet(up)
      /\ \A q \in Handlers : handler[q] \in HandlerType /\ handler[q].reached \in Nat
      /\ \A q \in Handlers, k \in Nodes : update[q][k] \in UpdateType
      /\ \A k \in Nodes : Address[k] \in Nat
      /\ \A q \in Handlers : q \in Nat
  BY AddressesDiffer DEF TypeInv, TypeOK, HandlerType, Marks, Handlers
<1>2. \A r \in Handlers, n \in Nodes : UpdateOK(r, n, update[r][n], handler[r])
  BY UpdatesAre
<1>3. ASSUME NEW m \in Nodes, Start(m), NEW r \in Handlers, NEW n \in Nodes
      PROVE  UpdateOK(r, n, update[r][n], handler[r])'
  <2>1. /\ UNCHANGED <<active, update, stops, failures>> /\ up' = up \cup {m}
        /\ started' = started + 1
    BY <1>3, AfterStart DEF center
  <2>2. PICK s \in Handlers :
           /\ s = started + 1 /\ handler[s].phase = "done"
           /\ handler'[s] = [NoLocals EXCEPT !.phase = "insert", !.node = m]
           /\ handler'[s].phase = "insert" /\ handler'[s].node = m
           /\ \A q \in Handlers : q # s => handler'[q] = handler[q]
    BY <1>3, AfterStart
  <2>3. CASE r = s
    <3>1. update'[r][n].phase = "none"
      BY <1>1, <1>2, <2>1, <2>2, <2>3 DEF UpdateOK
    <3> QED BY <3>1 DEF UpdateOK
  <2>4. CASE r # s
    BY <1>1, <1>2, <2>1, <2>2, <2>4, UpdatesFrame
  <2> QED BY <2>3, <2>4
<1>4. ASSUME NEW m \in Nodes, Stop(m), NEW r \in Handlers, NEW n \in Nodes
      PROVE  UpdateOK(r, n, update[r][n], handler[r])'
  <2>1. /\ active' = active /\ started' = started /\ up' = up \ {m}
        /\ stops' + failures' # 0
        /\ handler'[r] = Resume(handler[r], m)
        /\ update'[r][m] = NoUpdate
        /\ n # m => update'[r][n] = update[r][n]
    BY <1>4, AfterStop DEF center
  <2>2. CASE n = m
    BY <2>1, <2>2 DEF UpdateOK, NoUpdate
  <2>3. CASE n # m
    BY <2>1, <2>3, UpdatesResume
  <2> QED BY <2>2, <2>3
<1>5. ASSUME NEW r \in Handlers, RegisterStep(r), NEW n \in Nodes
      PROVE  UpdateOK(r, n, update[r][n], handler[r])'
  <2> DEFINE h == handler[r]
             g == handler'[r]
  <2>1. /\ started' = started /\ up' = up /\ active \subseteq active'
        /\ stops' + failures' = 0 => stops + failures = 0
    BY <1>1, <1>5, RegisterKeeps, FaultsStay
  <2>2. CASE Insert(r) \/ Lock(r) \/ Connect(r) \/ Measure(r) \/ Unlock(r) \/ Snapshot(r)
    <3>1. update' = update
      BY <2>2, UpdatesStay DEF Connect, edges
    <3>2. h.phase \in Early
      BY <2>2 DEF Insert, Lock, Connect, Measure, Unlock, Snapshot, Early
    <3>3. update'[r][n].phase = "none"
      BY <3>1, <3>2, NoUpdateOf
    <3> QED BY <3>3 DEF UpdateOK
  <2>3. CASE Return(r)
    <3>1. update' = update /\ g.phase = "done"
      BY <2>3, AfterReturn DEF NoLocals
    <3> QED BY <1>2, <2>1, <3>1, UpdatesFrame
  <2>4. CASE LoseReply(r)
    <3>1. update' = update /\ g = Resume(h, h.target)
      BY <2>4, AfterLoseReply
    <3> QED BY <2>1, <3>1, UpdatesResume
  <2>5. ASSUME NEW m \in Nodes, Lose(r, m)
        PROVE  UpdateOK(r, n, update[r][n], handler[r])'
    <3>1. /\ update' = update /\ h.phase = "notify" /\ m \in Ahead(r)
          /\ g = [h EXCEPT !.reached = Address[m]]
      BY <2>5, AfterLose DEF Lose, Visits
    <3>2. g.phase = "notify" /\ g.reached = Address[m] /\ Address[m] > h.reached
      BY <1>1, <3>1 DEF HandlerType, Ahead
    <3>3. Address[n] <= h.reached => Address[n] <= g.reached
      BY <1>1, <3>2
    <3> QED BY <1>2, <2>1, <3>1, <3>2, <3>3, UpdatesFrame
  <2>6. ASSUME NEW m \in Nodes, Notify(r, m)
        PROVE  UpdateOK(r, n, update[r][n], handler[r])'
    <3> DEFINE u == [NoUpdate EXCEPT !.phase = "measure", !.list = handler[r].list,
                                     !.base = neighbors[m]]
    <3>1. /\ h.phase = "notify" /\ m \in Ahead(r) /\ m \in up /\ active' = active
          /\ g = [h EXCEPT !.phase = "wait", !.target = m, !.reached = Address[m]]
          /\ u \in UpdateType /\ UpdateIs(r, m, u)
      BY <2>6, AfterNotify DEF Notify, Visits, center
    <3>2. g.phase = "wait" /\ g.reached = Address[m] /\ Address[m] > h.reached
      BY <1>1, <3>1 DEF HandlerType, Ahead
    <3>3. Address[n] <= h.reached => Address[n] <= g.reached
      BY <1>1, <3>2
    <3>4. u.phase = "measure" /\ u.list = h.list
      BY DEF NoUpdate
    <3> HIDE DEF u
    <3>5. /\ update'[r][m] = u
          /\ n # m => update'[r][n] = update[r][n]
      BY <3>1, UpdateAt
    <3>6. CASE n = m
      <4>1. h.list # {} /\ h.list \subseteq active /\ r <= started
        BY <1>1, <3>1 DEF LocalsInv
      <4>2. Address[n] <= g.reached
        BY <1>1, <3>2, <3>6
      <4>3. update'[r][n].phase = "measure" /\ update'[r][n].list = h.list
        BY <3>4, <3>5, <3>6
      <4> QED BY <2>1, <3>1, <3>2, <3>6, <4>1, <4>2, <4>3 DEF UpdateOK
    <3>7. CASE n # m
      BY <1>2, <2>1, <3>1, <3>2, <3>3, <3>5, <3>7, UpdatesFrame
    <3> QED BY <3>6, <3>7
  <2>7. ASSUME NEW m \in Nodes, MeasureLatencies(r, m)
        PROVE  UpdateOK(r, n, update[r][n], handler[r])'
    <3>1. PICK ok \in [Unknown(r, m) -> 0..Samples] :
             LET unheard == {k \in Unknown(r, m) : ~MeasureLatency(k, ok[k])}
                 u == [update[r][m] EXCEPT !.phase = "write", !.unheard = unheard,
                                           !.fresh = NearListed(r, m) \ unheard] IN
             /\ Fail(Cardinality(unheard \cap up))
             /\ u \in UpdateType /\ UpdateIs(r, m, u)
      BY <2>7, AfterMeasureLatencies
    <3> DEFINE unheard == {k \in Unknown(r, m) : ~MeasureLatency(k, ok[k])}
               u == [update[r][m] EXCEPT !.phase = "write", !.unheard = unheard,
                                         !.fresh = NearListed(r, m) \ unheard]
    <3>2. handler' = handler /\ update[r][m].phase = "measure"
      BY <2>7, AfterMeasureLatencies DEF MeasureLatencies
    <3>3. /\ Fail(Cardinality(unheard \cap up)) /\ u \in UpdateType /\ UpdateIs(r, m, u)
      BY <3>1
    <3>9. unheard \subseteq update[r][m].list
      BY DEF Unknown
    <3>4. stops' + failures' = 0 => unheard = {}
      <4> SUFFICES ASSUME stops' + failures' = 0, NEW k \in unheard PROVE FALSE
        OBVIOUS
      <4>1. stops = 0 /\ failures = 0 /\ failures' = 0
        BY <1>5, FaultsStay
      <4>2. active \subseteq up /\ update[r][m].list \subseteq active
        BY <1>2, <3>2, <4>1 DEF ServersInv, UpdateOK
      <4>3. k \in unheard \cap up
        BY <3>9, <4>2
      <4>4. IsFiniteSet(unheard \cap up)
        BY <1>1, FS_Intersection
      <4>5. Cardinality(unheard \cap up) # 0 /\ Cardinality(unheard \cap up) \in Nat
        BY <4>3, <4>4, FS_EmptySet, FS_CardinalityType
      <4> QED BY <3>3, <4>1, <4>5 DEF Fail
    <3> HIDE DEF unheard
    <3>5. /\ u.phase = "write" /\ u.list = update[r][m].list /\ u.unheard = unheard
          /\ u.fresh = (update[r][m].list \cap Near[m]) \ unheard
      BY <1>1 DEF UpdateType, NearListed
    <3> HIDE DEF u
    <3>6. /\ update'[r][m] = u
          /\ n # m => update'[r][n] = update[r][n]
      BY <3>3, UpdateAt
    <3>7. CASE n = m
      <4>1. UpdateOK(r, m, update[r][m], handler[r])
        BY <1>2
      <4>2. /\ m \in up /\ update[r][m].list # {} /\ update[r][m].list \subseteq active
            /\ r <= started /\ h.phase \in {"done", "notify", "wait"}
            /\ h.phase # "done" => Address[m] <= h.reached
        BY <3>2, <4>1 DEF UpdateOK
      <4> QED BY <2>1, <3>2, <3>4, <3>5, <3>6, <3>7, <4>2 DEF UpdateOK
    <3>8. CASE n # m
      BY <1>2, <2>1, <3>2, <3>6, <3>8, UpdatesFrame
    <3> QED BY <3>7, <3>8
  <2>8. ASSUME NEW m \in Nodes, WriteNeighbors(r, m)
        PROVE  UpdateOK(r, n, update[r][n], handler[r])'
    <3>1. g = Resume(h, m) /\ UpdateIs(r, m, NoUpdate) /\ NoUpdate \in UpdateType
      BY <2>8, AfterWrite
    <3>2. /\ update'[r][m] = NoUpdate
          /\ n # m => update'[r][n] = update[r][n]
      BY <3>1, UpdateAt
    <3>3. CASE n = m
      BY <3>2, <3>3 DEF UpdateOK, NoUpdate
    <3>4. CASE n # m
      BY <2>1, <3>1, <3>2, <3>4, UpdatesResume
    <3> QED BY <3>3, <3>4
  <2> QED BY <1>5, <2>2, <2>3, <2>4, <2>5, <2>6, <2>7, <2>8 DEF RegisterStep
<1>6. ASSUME NEW r \in Handlers, RegisterStep(r), NEW q \in Handlers, q # r, NEW n \in Nodes
      PROVE  UpdateOK(q, n, update[q][n], handler[q])'
  <2>1. handler'[q] = handler[q] /\ update'[q] = update[q]
    BY <1>6, AfterRegisterStep DEF OthersKeep
  <2>2. /\ started' = started /\ up' = up /\ active \subseteq active'
        /\ stops' + failures' = 0 => stops + failures = 0
    BY <1>1, <1>6, RegisterKeeps, FaultsStay
  <2> QED BY <1>2, <2>1, <2>2, UpdatesFrame
<1>7. ASSUME UNCHANGED vars, NEW r \in Handlers, NEW n \in Nodes
      PROVE  UpdateOK(r, n, update[r][n], handler[r])'
  <2>1. UNCHANGED <<handler, update, up, active, started, stops, failures>>
    BY <1>7 DEF vars, center, edges
  <2> QED BY <1>2, <2>1, UpdatesFrame
<1>8. \A r \in Handlers, n \in Nodes : UpdateOK(r, n, update[r][n], handler[r])'
  BY <1>3, <1>4, <1>5, <1>6, <1>7 DEF Next
<1> QED BY <1>8 DEF UpdatesInv, UpdateOK

-----------------------------------------------------------------------------
\* What the center stores.

LEMMA ServersInit == Init => ServersInv
BY DEF Init, ServersInv

\* Only Insert takes a handler out of the phase insert, and stores its server.
LEMMA InsertingStays ==
    ASSUME TypeInv, NEW r \in Handlers, RegisterStep(r), ~Insert(r)
    PROVE  /\ handler[r].phase # "insert" \/ handler'[r] = handler[r]
           /\ UNCHANGED <<active, addresses>>
           /\ \A n : Inserting(n) => Inserting(n)'
<1>1. CASE Lock(r) \/ Connect(r) \/ Measure(r) \/ Unlock(r) \/ Snapshot(r)
  <2>1. handler[r].phase # "insert" /\ UNCHANGED <<active, addresses>>
    BY <1>1 DEF Lock, Connect, Measure, Unlock, Snapshot, center
  <2> QED BY <1>1, <2>1, AfterRegisterStep DEF OthersKeep, Inserting, RegisterStep
<1>2. CASE LoseReply(r) \/ Return(r)
  <2>1. handler[r].phase # "insert" /\ UNCHANGED <<active, addresses>>
    BY <1>2 DEF LoseReply, Return, center
  <2> QED BY <1>2, <2>1, AfterRegisterStep DEF OthersKeep, Inserting, RegisterStep
<1>3. ASSUME NEW k \in Nodes, Notify(r, k) \/ Lose(r, k)
      PROVE  /\ handler[r].phase # "insert" \/ handler'[r] = handler[r]
             /\ UNCHANGED <<active, addresses>>
             /\ \A n : Inserting(n) => Inserting(n)'
  <2>1. handler[r].phase # "insert" /\ UNCHANGED <<active, addresses>>
    BY <1>3 DEF Notify, Lose, Visits, center
  <2> QED BY <2>1, AfterRegisterStep DEF OthersKeep, Inserting
<1>4. ASSUME NEW k \in Nodes, MeasureLatencies(r, k) \/ WriteNeighbors(r, k)
      PROVE  /\ handler[r].phase # "insert" \/ handler'[r] = handler[r]
             /\ UNCHANGED <<active, addresses>>
             /\ \A n : Inserting(n) => Inserting(n)'
  <2>1. UNCHANGED <<active, addresses>>
    BY <1>4 DEF MeasureLatencies, WriteNeighbors, center
  <2>2. handler'[r] = handler[r] \/ handler'[r] = Resume(handler[r], k)
    BY <1>4, AfterMeasureLatencies, AfterWrite
  <2>3. handler[r].phase # "insert" \/ handler'[r] = handler[r]
    BY <2>2 DEF Resume
  <2> QED BY <2>1, <2>3, AfterRegisterStep DEF OthersKeep, Inserting
<1> QED BY <1>1, <1>2, <1>3, <1>4 DEF RegisterStep

\* What happens to the lists that servers were told, whichever step a handler takes.
LEMMA ToldAfter ==
    ASSUME TypeInv, UpdatesInv, \A r \in Handlers : LocalsInv(r),
           NEW r \in Handlers, RegisterStep(r)
    PROVE  \A n \in Nodes :
              /\ delivered[n] \subseteq delivered'[n] /\ lost[n] \subseteq lost'[n]
              /\ delivered'[n] = delivered[n] \/ WriteNeighbors(r, n)
              /\ lost'[n] = lost[n] \/ (n \in up /\ lost'[n] \subseteq lost[n] \cup active)
              /\ WriteNeighbors(r, n) =>
                    n \in up /\ delivered'[n] \subseteq delivered[n] \cup active
<1>1. /\ delivered \in [Nodes -> SUBSET Nodes] /\ lost \in [Nodes -> SUBSET Nodes]
      /\ handler[r].list \subseteq active
  BY DEF TypeInv, TypeOK, LocalsInv
<1>2. ASSUME NEW k \in Nodes, WriteNeighbors(r, k), NEW n \in Nodes
      PROVE  /\ delivered[n] \subseteq delivered'[n] /\ lost[n] \subseteq lost'[n]
             /\ delivered'[n] = delivered[n] \/ WriteNeighbors(r, n)
             /\ lost'[n] = lost[n]
  BY <1>1, <1>2 DEF WriteNeighbors
<1>3. ASSUME NEW n \in Nodes, WriteNeighbors(r, n)
      PROVE  n \in up /\ delivered'[n] \subseteq delivered[n] \cup active
  BY <1>1, <1>3 DEF WriteNeighbors, UpdatesInv
<1>4. ASSUME NEW k \in Nodes, Lose(r, k), NEW n \in Nodes
      PROVE  /\ delivered'[n] = delivered[n] /\ lost[n] \subseteq lost'[n]
             /\ lost'[n] = lost[n] \/ (n \in up /\ lost'[n] \subseteq lost[n] \cup active)
  BY <1>1, <1>4 DEF Lose
<1>5. ASSUME ~\E k \in Nodes : Lose(r, k) \/ WriteNeighbors(r, k)
      PROVE  UNCHANGED <<delivered, lost>>
  <2>1. CASE Insert(r) \/ Lock(r) \/ Connect(r) \/ Measure(r) \/ Unlock(r) \/ Snapshot(r)
    BY <2>1 DEF Insert, Lock, Connect, Measure, Unlock, Snapshot, edges
  <2>2. CASE LoseReply(r) \/ Return(r)
    BY <2>2 DEF LoseReply, Return, edges
  <2>3. ASSUME NEW k \in Nodes, Notify(r, k) \/ MeasureLatencies(r, k)
        PROVE  UNCHANGED <<delivered, lost>>
    BY <2>3 DEF Notify, MeasureLatencies
  <2> QED BY <1>5, <2>1, <2>2, <2>3 DEF RegisterStep
<1> QED BY <1>2, <1>3, <1>4, <1>5

LEMMA ServersStep ==
    ASSUME TypeInv, ServersInv, UpdatesInv, \A r \in Handlers : LocalsInv(r), [Next]_vars
    PROVE  ServersInv'
<1>1. /\ stops \in Nat /\ started \in 0..MaxRegistrations /\ active \subseteq Nodes
      /\ up \subseteq Nodes /\ addresses \in Seq(Nodes)
      /\ delivered \in [Nodes -> SUBSET Nodes] /\ lost \in [Nodes -> SUBSET Nodes]
      /\ \A q \in Handlers : handler[q] \in HandlerType
  BY DEF TypeInv, TypeOK
<1>2. ASSUME NEW n \in Nodes, Start(n)
      PROVE  ServersInv'
  <2>1. PICK s \in Handlers :
           /\ s = started + 1 /\ handler[s].phase = "done"
           /\ handler'[s] = [NoLocals EXCEPT !.phase = "insert", !.node = n]
           /\ handler'[s].phase = "insert" /\ handler'[s].node = n
           /\ \A q \in Handlers : q # s => handler'[q] = handler[q]
    BY <1>2, AfterStart
  <2>2. /\ UNCHANGED <<addresses, active, delivered, lost, stops>> /\ up' = up \cup {n}
    BY <1>2, AfterStart DEF center
  <2>3. \A q \in Handlers : handler[q].phase = "insert" => handler'[q] = handler[q]
    BY <2>1
  <2>4. Inserting(n)' /\ \A m : Inserting(m) => Inserting(m)'
    BY <2>1, <2>3 DEF Inserting
  <2> QED BY <2>2, <2>4 DEF ServersInv
<1>3. ASSUME NEW n \in Nodes, Stop(n)
      PROVE  ServersInv'
  <2>1. /\ UNCHANGED <<active, addresses>> /\ up' = up \ {n} /\ stops' # 0
        /\ delivered'[n] = {} /\ lost'[n] = {}
        /\ \A k \in Nodes : k # n => delivered'[k] = delivered[k] /\ lost'[k] = lost[k]
        /\ \A q \in Handlers : handler'[q] = Resume(handler[q], n)
    BY <1>3, AfterStop DEF center
  <2>2. \A q \in Handlers : handler[q].phase = "insert" => handler'[q] = handler[q]
    BY <2>1 DEF Resume
  <2>3. \A m : Inserting(m) => Inserting(m)'
    BY <2>2 DEF Inserting
  <2>4. \A k \in Nodes : delivered'[k] \cup lost'[k] \subseteq active
    BY <2>1 DEF ServersInv
  <2>5. \A k \in Nodes \ up' : delivered'[k] = {}
    BY <2>1 DEF ServersInv
  <2> QED BY <2>1, <2>3, <2>4, <2>5 DEF ServersInv
<1>4. ASSUME NEW r \in Handlers, Insert(r)
      PROVE  ServersInv'
  <2> DEFINE n == handler[r].node
  <2>1. /\ UNCHANGED <<up, stops, delivered, lost>> /\ active' = active \cup {n}
        /\ addresses' = Append(addresses, n)
        /\ n \in Nodes /\ (stops = 0 => n \in up)
    BY <1>4 DEF Insert, LocalsInv, edges
  <2>2. \A q \in Handlers : q # r => handler'[q] = handler[q]
    BY <1>4, AfterInsert DEF OthersKeep
  <2>3. \A m : Inserting(m) => m = n \/ Inserting(m)'
    BY <2>2 DEF Inserting
  <2> HIDE DEF n
  <2>4. /\ Len(addresses') = Len(addresses) + 1 /\ Len(addresses) \in Nat
        /\ addresses'[Len(addresses) + 1] = n
        /\ \A k \in 1..Len(addresses) : addresses'[k] = addresses[k]
    BY <1>1, <2>1
  <2>5. \A m \in active' : \E k \in 1..Len(addresses') : addresses'[k] = m
    BY <2>1, <2>4 DEF ServersInv
  <2>6. \A k \in 1..Len(addresses') : addresses'[k] \in active'
    BY <2>1, <2>4 DEF ServersInv
  <2> QED BY <2>1, <2>3, <2>5, <2>6 DEF ServersInv
<1>5. ASSUME NEW r \in Handlers, RegisterStep(r), ~Insert(r)
      PROVE  ServersInv'
  <2>1. /\ UNCHANGED <<active, addresses, up, stops>>
        /\ \A m : Inserting(m) => Inserting(m)'
    BY <1>5, InsertingStays, RegisterKeeps
  <2>2. \A n \in Nodes : delivered'[n] \cup lost'[n] \subseteq active
    BY <1>5, ToldAfter DEF ServersInv
  <2>3. \A n \in Nodes \ up : delivered'[n] = {}
    BY <1>5, ToldAfter DEF ServersInv
  <2> QED BY <2>1, <2>2, <2>3 DEF ServersInv
<1>6. CASE UNCHANGED vars
  BY <1>6 DEF vars, center, edges, ServersInv, Inserting
<1> QED BY <1>2, <1>3, <1>4, <1>5, <1>6 DEF Next

-----------------------------------------------------------------------------
\* Every server is told of every node.

LEMMA ToldInit == Init => ToldInv
BY DEF Init, ToldInv

\* What a handler has to tell does not change while its locals and its update do not,
\* nor when it goes on after a call.
LEMMA TellsStill ==
    ASSUME TypeInv, NEW q \in Handlers, NEW n, NEW m, WillTell(q, n, m),
           active \subseteq active', update'[q][n] = update[q][n],
           handler'[q] = handler[q] \/ \E k : handler'[q] = Resume(handler[q], k)
    PROVE  WillTell(q, n, m)'
<1>1. handler[q] \in HandlerType
  BY DEF TypeInv
<1>2. CASE handler'[q] = handler[q]
  BY <1>2 DEF WillTell
<1>3. ASSUME NEW k, handler'[q] = Resume(handler[q], k), handler'[q] # handler[q]
      PROVE  WillTell(q, n, m)'
  <2>1. /\ handler[q].phase = "wait" /\ handler'[q].phase = "notify"
        /\ handler'[q].list = handler[q].list /\ handler'[q].reached = handler[q].reached
    BY <1>1, <1>3, Resumed
  <2> QED BY <2>1 DEF WillTell, Early
<1> QED BY <1>2, <1>3

LEMMA ToldStep ==
    ASSUME TypeInv, ServersInv, UpdatesInv, \A r \in Handlers : LocalsInv(r), ToldInv,
           [Next]_vars
    PROVE  ToldInv'
<1>1. /\ active \subseteq Nodes /\ up \subseteq Nodes
      /\ delivered \in [Nodes -> SUBSET Nodes] /\ lost \in [Nodes -> SUBSET Nodes]
      /\ \A q \in Handlers : handler[q] \in HandlerType
      /\ \A q \in Handlers, k \in Nodes : update[q][k] \in UpdateType
  BY DEF TypeInv, TypeOK
<1>2. ASSUME NEW n \in Nodes, Start(n)
      PROVE  ToldInv'
  <2>1. PICK s \in Handlers :
           /\ s = started + 1 /\ handler[s].phase = "done"
           /\ handler'[s] = [NoLocals EXCEPT !.phase = "insert", !.node = n]
           /\ handler'[s].phase = "insert" /\ handler'[s].node = n
           /\ \A q \in Handlers : q # s => handler'[q] = handler[q]
    BY <1>2, AfterStart
  <2>2. UNCHANGED <<active, delivered, lost, update>> /\ up' = up \cup {n}
    BY <1>2, AfterStart DEF center
  <2>3. \A q \in Handlers : \A k, m : q # s /\ WillTell(q, k, m) => WillTell(q, k, m)'
    BY <2>1, <2>2 DEF WillTell
  <2>4. \A k, m : WillTell(s, k, m) => WillTell(s, k, m)'
    BY <2>1, <2>2 DEF WillTell, Early
  <2>5. \A m : WillTell(s, n, m)'
    BY <2>1 DEF WillTell
  <2> QED BY <2>2, <2>3, <2>4, <2>5 DEF ToldInv
<1>3. ASSUME NEW n \in Nodes, Stop(n)
      PROVE  ToldInv'
  <2>1. /\ active' = active /\ up' = up \ {n}
        /\ \A k \in up' : k # n /\ delivered'[k] = delivered[k] /\ lost'[k] = lost[k]
        /\ \A q \in Handlers :
              /\ handler'[q] = Resume(handler[q], n)
              /\ \A k \in up' : update'[q][k] = update[q][k]
    BY <1>1, <1>3, AfterStop DEF center
  <2>2. ASSUME NEW q \in Handlers, NEW k \in up', NEW m \in active, WillTell(q, k, m)
        PROVE  WillTell(q, k, m)'
    BY <2>1, <2>2, TellsStill
  <2> QED BY <2>1, <2>2 DEF ToldInv
<1>4. ASSUME NEW r \in Handlers, RegisterStep(r)
      PROVE  /\ up' = up /\ active \subseteq active'
             /\ \A k \in up : delivered[k] \subseteq delivered'[k] /\ lost[k] \subseteq lost'[k]
             /\ \A q \in Handlers : \A k, m : q # r /\ WillTell(q, k, m) => WillTell(q, k, m)'
  <2>1. up' = up /\ active \subseteq active'
    BY <1>4, RegisterKeeps
  <2>2. \A q \in Handlers : q # r => handler'[q] = handler[q] /\ update'[q] = update[q]
    BY <1>4, AfterRegisterStep DEF OthersKeep
  <2>3. \A q \in Handlers : \A k, m : q # r /\ WillTell(q, k, m) => WillTell(q, k, m)'
    BY <2>1, <2>2 DEF WillTell
  <2> QED BY <1>1, <1>4, <2>1, <2>3, ToldAfter
\* So the step keeps the invariant if its handler still tells what it was to tell,
\* or has told it, or the list was lost.
<1>5. ASSUME NEW r \in Handlers, RegisterStep(r), active' = active,
             \A k \in up : \A m \in active :
                WillTell(r, k, m) => WillTell(r, k, m)' \/ m \in delivered'[k] \cup lost'[k]
      PROVE  ToldInv'
  BY <1>4, <1>5 DEF ToldInv
<1>6. ASSUME NEW r \in Handlers, Insert(r)
      PROVE  ToldInv'
  <2> DEFINE n == handler[r].node
  <2>1. /\ RegisterStep(r) /\ handler[r].phase = "insert" /\ active' = active \cup {n}
    BY <1>6 DEF RegisterStep, Insert
  <2>2. handler'[r].phase = "metrics"
    BY <1>1, <1>6, AfterInsert DEF HandlerType
  <2>3. \A m : \A k \in active' : WillTell(r, k, m)'
    BY <2>2 DEF WillTell, Early
  <2>4. \A q \in Handlers : q # r => handler'[q] = handler[q]
    BY <1>6, AfterInsert DEF OthersKeep
  <2> HIDE DEF n
  <2>5. ASSUME NEW k \in up', NEW m \in active'
        PROVE  m \in delivered'[k] \/ \E q \in Handlers : WillTell(q, k, m)'
    <3>1. CASE k \in active'
      BY <2>3, <3>1
    <3>2. CASE k \notin active'
      <4>1. k \in up /\ k \notin active
        BY <1>4, <2>1, <3>2
      <4>2. PICK q \in Handlers : handler[q].phase = "insert" /\ handler[q].node = k
        BY <4>1 DEF ServersInv, Inserting
      <4>3. q # r
        BY <2>1, <3>2, <4>2 DEF n
      <4>4. WillTell(q, k, m)'
        BY <2>4, <4>2, <4>3 DEF WillTell
      <4> QED BY <4>4
    <3> QED BY <3>1, <3>2
  <2> QED BY <2>5 DEF ToldInv
<1>7. ASSUME NEW r \in Handlers, Lock(r) \/ Connect(r) \/ Unlock(r) \/ Measure(r)
      PROVE  ToldInv'
  <2>1. RegisterStep(r) /\ active' = active /\ update' = update
    BY <1>7 DEF RegisterStep, Lock, Connect, Unlock, Measure, center, edges
  <2>2. handler[r].phase \in {"metrics", "connect", "measure"}
    BY <1>7 DEF Lock, Connect, Unlock, Measure
  <2>3. handler'[r].phase \in {"connect", "measure", "snapshot"}
    <3>1. CASE Lock(r)
      BY <1>1, <3>1, AfterLock DEF HandlerType
    <3>2. CASE Unlock(r)
      BY <1>1, <3>2, AfterUnlock DEF HandlerType
    <3>3. CASE Connect(r)
      BY <1>1, <3>3, AfterConnect DEF HandlerType
    <3>4. CASE Measure(r)
      <4>1. \/ handler'[r] = [handler[r] EXCEPT !.phase = "connect", !.j = handler[r].j + 1]
            \/ handler'[r] = [handler[r] EXCEPT !.phase = "connect", !.i = handler[r].i + 1,
                                                !.j = handler[r].i + 2]
        BY <3>4, AfterMeasure
      <4> QED BY <1>1, <4>1 DEF HandlerType
    <3> QED BY <1>7, <3>1, <3>2, <3>3, <3>4
  <2>4. \A k, m : WillTell(r, k, m) => WillTell(r, k, m)'
    BY <2>1, <2>2, <2>3 DEF WillTell, Early
  <2> QED BY <1>5, <2>1, <2>4
<1>8. ASSUME NEW r \in Handlers, Snapshot(r)
      PROVE  ToldInv'
  <2>1. RegisterStep(r) /\ active' = active /\ update' = update /\ handler[r].phase = "snapshot"
    BY <1>8 DEF RegisterStep, Snapshot, center, edges
  <2>2. /\ handler'[r].phase = "notify" /\ handler'[r].list = active
        /\ handler'[r].reached = handler[r].reached
    BY <1>1, <1>8, AfterSnapshot DEF HandlerType
  <2>3. \A k \in Nodes : Address[k] > handler'[r].reached
    BY <2>1, <2>2, AddressesDiffer DEF LocalsInv, Early
  <2>4. \A k \in up : \A m \in active : WillTell(r, k, m) => WillTell(r, k, m)'
    BY <1>1, <2>1, <2>2, <2>3 DEF WillTell, Early
  <2> QED BY <1>5, <2>1, <2>4
<1>9. ASSUME NEW r \in Handlers, NEW n \in Nodes, Notify(r, n)
      PROVE  ToldInv'
  <2> DEFINE u == [NoUpdate EXCEPT !.phase = "measure", !.list = handler[r].list,
                                   !.base = neighbors[n]]
  <2>1. /\ RegisterStep(r) /\ active' = active /\ handler[r].phase = "notify"
        /\ n \in Ahead(r) /\ \A k \in Ahead(r) : Address[n] <= Address[k]
        /\ handler'[r] = [handler[r] EXCEPT !.phase = "wait", !.target = n,
                                            !.reached = Address[n]]
        /\ u \in UpdateType /\ UpdateIs(r, n, u)
    BY <1>9, AfterNotify DEF RegisterStep, Notify, Visits, center
  <2>2. /\ handler'[r].list = handler[r].list /\ handler'[r].reached = Address[n]
        /\ handler'[r].phase = "wait"
    BY <1>1, <2>1 DEF HandlerType
  <2>3. u.phase # "none" /\ u.list = handler[r].list
    BY DEF NoUpdate
  <2> HIDE DEF u
  <2>4. /\ update'[r][n] = u
        /\ \A k \in Nodes : k # n => update'[r][k] = update[r][k]
    BY <2>1, UpdateAt
  <2>5. update[r][n].phase = "none"
    <3>1. Address[n] > handler[r].reached /\ Address[n] \in Nat /\ handler[r].reached \in Nat
      BY <1>1, <2>1, AddressesDiffer DEF Ahead, HandlerType, Marks
    <3> QED BY <2>1, <3>1 DEF UpdatesInv
  <2>6. ASSUME NEW k \in up, NEW m \in active, WillTell(r, k, m)
        PROVE  WillTell(r, k, m)'
    <3>1. CASE update[r][k].phase # "none" /\ m \in update[r][k].list
      BY <1>1, <2>4, <2>5, <3>1 DEF WillTell
    <3>2. CASE ~(update[r][k].phase # "none" /\ m \in update[r][k].list)
      <4>1. k \in Ahead(r) /\ m \in handler[r].list
        BY <2>1, <2>6, <3>2 DEF WillTell, Ahead, Early
      <4>2. k = n \/ Address[k] > Address[n]
        BY <1>1, <2>1, <4>1, AddressesDiffer DEF Ahead
      <4>3. CASE k = n
        BY <2>3, <2>4, <4>1, <4>3 DEF WillTell
      <4>4. CASE Address[k] > Address[n]
        BY <2>1, <2>2, <4>1, <4>4 DEF WillTell, Ahead
      <4> QED BY <4>2, <4>3, <4>4
    <3> QED BY <3>1, <3>2
  <2> QED BY <1>5, <2>1, <2>6
<1>10. ASSUME NEW r \in Handlers, NEW n \in Nodes, Lose(r, n)
       PROVE  ToldInv'
  <2>1. /\ RegisterStep(r) /\ active' = active /\ update' = update
        /\ handler[r].phase = "notify"
        /\ n \in Ahead(r) /\ \A k \in Ahead(r) : Address[n] <= Address[k]
        /\ handler'[r] = [handler[r] EXCEPT !.reached = Address[n]]
        /\ n \in up => lost'[n] = lost[n] \cup handler[r].list
    BY <1>1, <1>10, AfterLose DEF RegisterStep, Lose, Visits, center
  <2>2. /\ handler'[r].list = handler[r].list /\ handler'[r].reached = Address[n]
        /\ handler'[r].phase = "notify"
    BY <1>1, <2>1 DEF HandlerType
  <2>3. ASSUME NEW k \in up, NEW m \in active, WillTell(r, k, m)
        PROVE  WillTell(r, k, m)' \/ m \in lost'[k]
    <3>1. CASE update[r][k].phase # "none" /\ m \in update[r][k].list
      BY <2>1, <3>1 DEF WillTell
    <3>2. CASE ~(update[r][k].phase # "none" /\ m \in update[r][k].list)
      <4>1. k \in Ahead(r) /\ m \in handler[r].list
        BY <2>1, <2>3, <3>2 DEF WillTell, Ahead, Early
      <4>2. k = n \/ Address[k] > Address[n]
        BY <1>1, <2>1, <4>1, AddressesDiffer DEF Ahead
      <4>3. CASE k = n
        BY <2>1, <4>1, <4>3
      <4>4. CASE Address[k] > Address[n]
        BY <2>1, <2>2, <4>1, <4>4 DEF WillTell, Ahead
      <4> QED BY <4>2, <4>3, <4>4
    <3> QED BY <3>1, <3>2
  <2> QED BY <1>5, <2>1, <2>3
<1>11. ASSUME NEW r \in Handlers, LoseReply(r)
       PROVE  ToldInv'
  <2>1. /\ RegisterStep(r) /\ active' = active /\ update' = update
        /\ handler'[r] = Resume(handler[r], handler[r].target)
    BY <1>11, AfterLoseReply DEF RegisterStep, LoseReply, center
  <2> QED BY <1>5, <2>1, TellsStill
<1>12. ASSUME NEW r \in Handlers, NEW n \in Nodes, MeasureLatencies(r, n)
       PROVE  ToldInv'
  <2>1. RegisterStep(r) /\ active' = active /\ update[r][n].phase = "measure"
    BY <1>12 DEF RegisterStep, MeasureLatencies, center
  <2>2. /\ handler' = handler
        /\ \E v : LET u == [update[r][n] EXCEPT !.phase = "write", !.unheard = v,
                                                !.fresh = NearListed(r, n) \ v] IN
                  u \in UpdateType /\ UpdateIs(r, n, u)
    BY <1>12, AfterMeasureLatencies
  <2>3. PICK v : LET u == [update[r][n] EXCEPT !.phase = "write", !.unheard = v,
                                               !.fresh = NearListed(r, n) \ v] IN
                 u \in UpdateType /\ UpdateIs(r, n, u)
    BY <2>2
  <2> DEFINE u == [update[r][n] EXCEPT !.phase = "write", !.unheard = v,
                                       !.fresh = NearListed(r, n) \ v]
  <2>4. u.phase = "write" /\ u.list = update[r][n].list
    BY <1>1 DEF UpdateType
  <2>5. /\ update'[r][n] = u
        /\ \A k \in Nodes : k # n => update'[r][k] = update[r][k]
    BY <2>3, UpdateAt
  <2> HIDE DEF u
  <2>6. \A k \in up : \A m : WillTell(r, k, m) => WillTell(r, k, m)'
    BY <1>1, <2>1, <2>2, <2>4, <2>5 DEF WillTell
  <2> QED BY <1>5, <2>1, <2>6
<1>13. ASSUME NEW r \in Handlers, NEW n \in Nodes, WriteNeighbors(r, n)
       PROVE  ToldInv'
  <2>1. /\ RegisterStep(r) /\ active' = active
        /\ delivered' = [delivered EXCEPT ![n] = delivered[n] \cup update[r][n].list]
    BY <1>13 DEF RegisterStep, WriteNeighbors, center
  <2>2. /\ handler'[r] = Resume(handler[r], n)
        /\ \A k \in Nodes : k # n => update'[r][k] = update[r][k]
    BY <1>13, AfterWrite, UpdateAt
  <2>3. ASSUME NEW k \in up, NEW m \in active, WillTell(r, k, m)
        PROVE  WillTell(r, k, m)' \/ m \in delivered'[k]
    <3>1. CASE k # n
      BY <1>1, <2>1, <2>2, <2>3, <3>1, TellsStill
    <3>2. CASE k = n /\ m \in update[r][n].list
      BY <1>1, <2>1, <3>2
    <3>3. CASE k = n /\ m \notin update[r][n].list
      <4>1. WillTell(r, k, m)
        BY <2>3
      <4>2. CASE handler'[r] = handler[r]
        BY <2>1, <3>3, <4>1, <4>2 DEF WillTell
      <4>3. CASE handler'[r] # handler[r]
        <5>1. /\ handler[r].phase = "wait" /\ handler'[r].phase = "notify"
              /\ handler'[r].list = handler[r].list
              /\ handler'[r].reached = handler[r].reached
          BY <1>1, <2>2, <4>3, Resumed
        <5> QED BY <2>1, <3>3, <4>1, <5>1 DEF WillTell, Early
      <4> QED BY <4>2, <4>3
    <3> QED BY <3>1, <3>2, <3>3
  <2> QED BY <1>5, <2>1, <2>3
<1>14. ASSUME NEW r \in Handlers, Return(r)
       PROVE  ToldInv'
  <2>1. /\ RegisterStep(r) /\ active' = active /\ update' = update
        /\ handler[r].phase = "notify" /\ Ahead(r) = {}
    BY <1>14, AfterReturn DEF RegisterStep, Return, center
  <2>2. \A k, m : WillTell(r, k, m) => update[r][k].phase # "none" /\ m \in update[r][k].list
    BY <2>1 DEF WillTell, Early, Ahead
  <2>3. \A k, m : WillTell(r, k, m) => WillTell(r, k, m)'
    BY <2>1, <2>2 DEF WillTell
  <2> QED BY <1>5, <2>1, <2>3
<1>15. CASE UNCHANGED vars
  BY <1>15 DEF vars, center, edges, ToldInv, WillTell
<1> QED
  BY <1>2, <1>3, <1>6, <1>7, <1>8, <1>9, <1>10, <1>11, <1>12, <1>13, <1>14, <1>15
  DEF Next, RegisterStep

LEMMA ToldImplies ==
    ASSUME TypeInv, ServersInv, ToldInv
    PROVE  EveryoneIsTold
<1> SUFFICES ASSUME Quiet, NEW n \in up PROVE active = delivered[n] \cup lost[n]
  BY DEF EveryoneIsTold
<1>1. n \in Nodes /\ delivered[n] \cup lost[n] \subseteq active
  BY DEF TypeInv, TypeOK, ServersInv
<1>2. \A r \in Handlers : \A m : ~WillTell(r, n, m)
  BY <1>1 DEF Quiet, WillTell, Early
<1> QED BY <1>1, <1>2 DEF ToldInv

-----------------------------------------------------------------------------
\* The neighbours of a server.

LEMMA NeighborsInit == Init => NeighborsInv
BY DEF Init, NeighborsInv

\* A list is lost at a running server by a failure only.
LEMMA LostByFailure ==
    ASSUME TypeInv, NEW r \in Handlers, RegisterStep(r), failures' = failures
    PROVE  lost' = lost
<1>1. failures \in Nat /\ lost \in [Nodes -> SUBSET Nodes]
  BY DEF TypeInv, TypeOK
<1>2. ASSUME NEW n \in Nodes, Lose(r, n)
      PROVE  lost' = lost
  <2>1. n \notin up
    BY <1>1, <1>2 DEF Lose, Fail
  <2> QED BY <1>1, <1>2, <2>1 DEF Lose
<1>3. CASE Insert(r) \/ Lock(r) \/ Connect(r) \/ Measure(r) \/ Unlock(r) \/ Snapshot(r)
  BY <1>3 DEF Insert, Lock, Connect, Measure, Unlock, Snapshot, edges
<1>4. CASE LoseReply(r) \/ Return(r)
  BY <1>4 DEF LoseReply, Return, edges
<1>5. ASSUME NEW n \in Nodes, Notify(r, n) \/ MeasureLatencies(r, n) \/ WriteNeighbors(r, n)
      PROVE  lost' = lost
  BY <1>5 DEF Notify, MeasureLatencies, WriteNeighbors
<1> QED BY <1>2, <1>3, <1>4, <1>5 DEF RegisterStep

LEMMA NeighborsStep ==
    ASSUME TypeInv, ServersInv, UpdatesInv, NeighborsInv, \A r \in Handlers : LocalsInv(r),
           [Next]_vars
    PROVE  NeighborsInv'
<1>1. /\ stops \in Nat /\ failures \in Nat /\ up \subseteq Nodes
      /\ neighbors \in [Nodes -> SUBSET Places] /\ delivered \in [Nodes -> SUBSET Nodes]
      /\ missed \in [Nodes -> SUBSET Nodes] /\ lost \in [Nodes -> SUBSET Nodes]
  BY DEF TypeInv, TypeOK, Places
<1>2. ASSUME NEW n \in Nodes, Start(n)
      PROVE  NeighborsInv'
  <2>1. /\ UNCHANGED <<delivered, lost, overtaken, missed, stops, failures>>
        /\ n \notin up /\ up' = up \cup {n} /\ neighbors'[n] = {Center}
        /\ \A k \in Nodes : k # n => neighbors'[k] = neighbors[k]
    BY <1>2, AfterStart
  <2>2. delivered[n] = {}
    BY <2>1 DEF ServersInv
  <2> QED BY <1>1, <2>1, <2>2 DEF NeighborsInv
<1>3. ASSUME NEW n \in Nodes, Stop(n)
      PROVE  NeighborsInv'
  <2>1. /\ up' = up \ {n} /\ stops' + failures' # 0
        /\ \A k \in Nodes : k # n =>
              /\ delivered'[k] = delivered[k] /\ neighbors'[k] = neighbors[k]
              /\ missed'[k] = missed[k] /\ (k \in overtaken' <=> k \in overtaken)
    BY <1>3, AfterStop
  <2> QED BY <1>1, <2>1 DEF NeighborsInv
<1>4. ASSUME NEW r \in Handlers, RegisterStep(r)
      PROVE  NeighborsInv'
  <2>1. /\ up' = up
        /\ stops' + failures' = 0 => stops + failures = 0 /\ lost' = lost
    BY <1>1, <1>4, RegisterKeeps, FaultsStay, LostByFailure
  <2>2. ASSUME NEW n \in Nodes, WriteNeighbors(r, n)
        PROVE  NeighborsInv'
    <3> DEFINE u == update[r][n]
    <3>1. /\ u.phase = "write" /\ n \in up /\ u.list # {}
          /\ u.fresh = (u.list \cap Near[n]) \ u.unheard
          /\ stops + failures = 0 => u.unheard = {}
      BY <2>2 DEF WriteNeighbors, UpdatesInv
    <3>2. /\ neighbors' = [neighbors EXCEPT ![n] = u.fresh]
          /\ missed' = [missed EXCEPT ![n] = u.unheard]
          /\ delivered' = [delivered EXCEPT ![n] = delivered[n] \cup u.list]
          /\ overtaken' = IF delivered[n] \subseteq u.list
                          THEN overtaken \ {n} ELSE overtaken \cup {n}
      BY <2>2 DEF WriteNeighbors
    <3> HIDE DEF u
    <3>3. /\ neighbors'[n] = u.fresh /\ missed'[n] = u.unheard
          /\ delivered'[n] = delivered[n] \cup u.list
          /\ \A k \in Nodes : k # n =>
                /\ delivered'[k] = delivered[k] /\ neighbors'[k] = neighbors[k]
                /\ missed'[k] = missed[k] /\ (k \in overtaken' <=> k \in overtaken)
      BY <1>1, <3>1, <3>2
    <3>4. n \notin overtaken' => delivered'[n] = u.list
      BY <3>2, <3>3
    <3>5. /\ n \notin overtaken' =>
                neighbors'[n] = (delivered'[n] \cap Near[n]) \ missed'[n]
          /\ delivered'[n] # {}
      BY <3>1, <3>3, <3>4
    <3>6. stops' + failures' = 0 => \A k \in Nodes : missed'[k] = {} /\ lost'[k] = {}
      BY <2>1, <3>1, <3>3 DEF NeighborsInv
    <3>7. \A k \in up' \ overtaken' :
             neighbors'[k] = IF delivered'[k] = {} THEN {Center}
                             ELSE (delivered'[k] \cap Near[k]) \ missed'[k]
      BY <1>1, <2>1, <3>3, <3>5 DEF NeighborsInv
    <3> QED BY <3>6, <3>7 DEF NeighborsInv
  <2>3. CASE UNCHANGED <<neighbors, delivered, overtaken, missed>>
    BY <2>1, <2>3 DEF NeighborsInv
  <2>4. (\E n \in Nodes : WriteNeighbors(r, n))
        \/ UNCHANGED <<neighbors, delivered, overtaken, missed>>
    <3>1. CASE Insert(r) \/ Lock(r) \/ Connect(r) \/ Measure(r) \/ Unlock(r) \/ Snapshot(r)
      BY <3>1 DEF Insert, Lock, Connect, Measure, Unlock, Snapshot, edges
    <3>2. CASE LoseReply(r) \/ Return(r)
      BY <3>2 DEF LoseReply, Return, edges
    <3>3. ASSUME NEW n \in Nodes, Notify(r, n) \/ Lose(r, n) \/ MeasureLatencies(r, n)
          PROVE  UNCHANGED <<neighbors, delivered, overtaken, missed>>
      BY <3>3 DEF Notify, Lose, MeasureLatencies
    <3> QED BY <1>4, <3>1, <3>2, <3>3 DEF RegisterStep
  <2> QED BY <2>2, <2>3, <2>4
<1>5. CASE UNCHANGED vars
  BY <1>5 DEF vars, edges, NeighborsInv
<1> QED BY <1>2, <1>3, <1>4, <1>5 DEF Next

LEMMA NeighborsImplies ==
    ASSUME TypeInv, ServersInv, ToldInv, NeighborsInv
    PROVE  NeighborsCurrent
<1> SUFFICES ASSUME Quiet, NEW n \in up \ overtaken
             PROVE  /\ neighbors[n] = IF delivered[n] = {} THEN {Center}
                                      ELSE (delivered[n] \cap Near[n]) \ missed[n]
                    /\ stops + failures = 0 => neighbors[n] = active \cap Near[n]
  BY DEF NeighborsCurrent
<1>1. n \in Nodes /\ active = delivered[n] \cup lost[n]
  BY ToldImplies DEF EveryoneIsTold, TypeInv, TypeOK
<1>2. n \in active
  BY DEF ServersInv, Inserting, Quiet
<1>3. stops + failures = 0 => missed[n] = {} /\ lost[n] = {}
  BY <1>1 DEF NeighborsInv
<1>4. neighbors[n] = IF delivered[n] = {} THEN {Center}
                     ELSE (delivered[n] \cap Near[n]) \ missed[n]
  BY DEF NeighborsInv
<1> QED BY <1>1, <1>2, <1>3, <1>4

-----------------------------------------------------------------------------
\* The measurements.

LEMMA MetricsInit == Init => MetricsInv
BY DEF Init, MetricsInv, Stored, Places

\* Without a stop, the nodes a handler has still to measure are running.
LEMMA SourcesRun ==
    ASSUME TypeInv, ServersInv, NEW r \in Handlers, LocalsInv(r), stops = 0,
           handler[r].phase \in Measuring, PairsLeft(r)
    PROVE  Running(From(r)) /\ Running(To(r))
<1>1. /\ handler[r].i \in Nat /\ handler[r].j \in Nat /\ Len(handler[r].all) \in Nat
  BY DEF TypeInv, HandlerType
<1>2. handler[r].i \in 1..Len(handler[r].all) /\ handler[r].j \in 1..Len(handler[r].all)
  BY <1>1 DEF LocalsInv, PairsLeft
<1>3. From(r) \in Stored /\ To(r) \in Stored
  BY <1>2 DEF LocalsInv, From, To
<1> QED BY <1>3 DEF ServersInv, Running, Stored

\* The pair a step measures is no longer unmeasured; it holds zeros only after a fault.
LEMMA MeasuredPair ==
    ASSUME TypeInv, ServersInv, NEW r \in Handlers, LocalsInv(r), Measure(r)
    PROVE  \E v \in {"zero", "good"} :
              /\ metrics' = [metrics EXCEPT ![<<From(r), To(r)>>] = v,
                                            ![<<To(r), From(r)>>] = v]
              /\ stops = 0 /\ failures' = 0 => v = "good"
<1> DEFINE Value(ok) == IF Running(From(r)) THEN ForwardNetworkMeasurement(To(r), ok)
                        ELSE "zero"
<1>1. PICK ok \in 0..Samples :
         /\ Fail(IF Running(From(r)) /\ Running(To(r)) /\ ok = 0 THEN 1 ELSE 0)
         /\ metrics' = [metrics EXCEPT ![<<From(r), To(r)>>] = Value(ok),
                                       ![<<To(r), From(r)>>] = Value(ok)]
  BY DEF Measure
<1>2. handler[r].phase \in Measuring /\ PairsLeft(r)
  BY DEF Measure, LocalsInv, Measuring, PairsLeft
<1>3. failures \in Nat
  BY DEF TypeInv, TypeOK
<1>4. stops = 0 /\ failures' = 0 => Running(From(r)) /\ Running(To(r)) /\ ok # 0
  BY <1>1, <1>2, <1>3, SourcesRun DEF Fail
<1>5. ok # 0 => ok > 0
  BY DEF Samples
<1>6. Value(ok) \in {"zero", "good"} /\ (stops = 0 /\ failures' = 0 => Value(ok) = "good")
  BY <1>4, <1>5 DEF ForwardNetworkMeasurement
<1> QED BY <1>1, <1>6

\* The other pairs the handler was to measure stay to be measured.
LEMMA PairsStay ==
    ASSUME TypeInv, NEW r \in Handlers, LocalsInv(r), Measure(r), NEW m, NEW n,
           WillMeasure(r, m, n), {m, n} # {From(r), To(r)}
    PROVE  WillMeasure(r, m, n)'
<1> DEFINE h == handler[r]
           g == handler'[r]
<1>1. h.phase = "measure" /\ h.i < Len(h.all)
  BY DEF Measure, LocalsInv, Measuring
<1>2. h \in HandlerType /\ h.i \in Nat /\ h.j \in Nat /\ Len(h.all) \in Nat
  BY DEF TypeInv, HandlerType
<1>3. h.j <= Len(h.all)
  BY <1>1 DEF LocalsInv, Measuring
<1>4. PICK x, y \in 1..Len(h.all) :
         /\ h.i <= x /\ x < y /\ (x = h.i => h.j <= y)
         /\ {h.all[x], h.all[y]} = {m, n}
  BY <1>1 DEF WillMeasure, Measures
<1>5. ~(x = h.i /\ y = h.j)
  BY <1>4 DEF From, To
<1>6. CASE h.j < Len(h.all)
  <2>1. g = [h EXCEPT !.phase = "connect", !.j = h.j + 1]
    BY <1>6, AfterMeasure
  <2>2. g.phase = "connect" /\ g.all = h.all /\ g.i = h.i /\ g.j = h.j + 1
    BY <1>1, <1>2, <2>1 DEF HandlerType
  <2>3. x = h.i => h.j + 1 <= y
    BY <1>2, <1>4, <1>5
  <2>4. g.phase \in Measuring
    BY <2>2 DEF Measuring
  <2>5. /\ x \in 1..Len(g.all) /\ y \in 1..Len(g.all) /\ {g.all[x], g.all[y]} = {m, n}
        /\ g.i <= x /\ x < y /\ (x = g.i => g.j <= y)
    BY <1>4, <2>2, <2>3
  <2> HIDE DEF g
  <2>6. Measures(g, m, n)
    BY <2>4, <2>5 DEF Measures
  <2> QED BY <2>6 DEF WillMeasure, g
<1>7. CASE ~(h.j < Len(h.all))
  <2>1. g = [h EXCEPT !.phase = "connect", !.i = h.i + 1, !.j = h.i + 2]
    BY <1>7, AfterMeasure
  <2>2. g.phase = "connect" /\ g.all = h.all /\ g.i = h.i + 1 /\ g.j = h.i + 2
    BY <1>1, <1>2, <2>1 DEF HandlerType
  <2>3. h.i + 1 <= x /\ (x = h.i + 1 => h.i + 2 <= y)
    BY <1>2, <1>3, <1>4, <1>5, <1>7
  <2>4. g.phase \in Measuring
    BY <2>2 DEF Measuring
  <2>5. /\ x \in 1..Len(g.all) /\ y \in 1..Len(g.all) /\ {g.all[x], g.all[y]} = {m, n}
        /\ g.i <= x /\ x < y /\ (x = g.i => g.j <= y)
    BY <1>4, <2>2, <2>3
  <2> HIDE DEF g
  <2>6. Measures(g, m, n)
    BY <2>4, <2>5 DEF Measures
  <2> QED BY <2>6 DEF WillMeasure, g
<1> QED BY <1>6, <1>7

\* A step that stores, measures and leaves out nothing keeps the invariant when all
\* pairs that were to be measured still are.
LEMMA MetricsFrame ==
    ASSUME MetricsInv, UNCHANGED <<active, metrics, cutShort, holder>>,
           stops' + failures' = 0 => stops + failures = 0,
           \A q \in Handlers : \A m, n \in Stored :
              WillMeasure(q, m, n) => WillMeasure(q, m, n)'
    PROVE  MetricsInv'
<1>1. Stored' = Stored /\ LeftOut' = LeftOut
  BY DEF Stored, LeftOut
<1> QED BY <1>1 DEF MetricsInv

LEMMA MetricsOfInsert ==
    ASSUME TypeInv, MetricsInv, NEW r \in Handlers, Insert(r)
    PROVE  MetricsInv'
<1>1. /\ UNCHANGED <<metrics, cutShort, stops, failures>>
      /\ handler'[r] = [handler[r] EXCEPT !.phase = "metrics"]
  BY AfterInsert DEF Insert
<1>2. handler'[r].phase = "metrics"
  BY <1>1 DEF TypeInv, HandlerType
<1>3. \A m, n : WillMeasure(r, m, n)'
  BY <1>2 DEF WillMeasure, Measures
<1> QED BY <1>1, <1>3 DEF MetricsInv

\* The handler that takes the mutex will measure all stored pairs, also those an
\* earlier measurement left out.
LEMMA MetricsOfLock ==
    ASSUME TypeInv, ServersInv, MetricsInv, NEW r \in Handlers, LocalsInv(r), Lock(r)
    PROVE  MetricsInv'
<1>1. /\ UNCHANGED <<active, metrics, cutShort, stops, failures>>
      /\ handler[r].phase = "metrics"
      /\ handler'[r] = [handler[r] EXCEPT !.phase = "connect",
                                          !.all = Append(addresses, Center)]
  BY AfterLock DEF Lock
<1>2. /\ handler'[r].phase = "connect" /\ handler'[r].all = Append(addresses, Center)
      /\ handler'[r].i = 1 /\ handler'[r].j = 2
  BY <1>1 DEF TypeInv, HandlerType, LocalsInv, Measuring
<1> DEFINE all == Append(addresses, Center)
<1>3. /\ Len(addresses) \in Nat /\ Len(all) = Len(addresses) + 1
      /\ all[Len(addresses) + 1] = Center
      /\ \A k \in 1..Len(addresses) : all[k] = addresses[k]
  BY DEF TypeInv, TypeOK
<1>4. \A m \in Stored : \E k \in 1..Len(all) : all[k] = m
  <2>1. \A m \in active : \E k \in 1..Len(all) : all[k] = m
    BY <1>3 DEF ServersInv
  <2>2. Len(addresses) + 1 \in 1..Len(all)
    BY <1>3
  <2> QED BY <1>3, <2>1, <2>2 DEF Stored
<1> HIDE DEF all
<1>5. ASSUME NEW m \in Stored, NEW n \in Stored, m # n
      PROVE  WillMeasure(r, m, n)'
  <2>1. PICK x, y \in 1..Len(all) : all[x] = m /\ all[y] = n
    BY <1>4
  <2>2. x \in Nat /\ y \in Nat /\ x >= 1 /\ y >= 1
    BY <1>3, <2>1
  <2>3. x < y \/ y < x
    BY <1>5, <2>1, <2>2
  <2>4. \E k, l \in 1..Len(all) : k < l /\ {all[k], all[l]} = {m, n}
    <3>1. CASE x < y
      BY <2>1, <3>1
    <3>2. CASE y < x
      <4>1. {all[y], all[x]} = {m, n}
        BY <2>1
      <4> QED BY <2>1, <3>2, <4>1
    <3> QED BY <2>3, <3>1, <3>2
  <2>5. PICK k, l \in 1..Len(all) : k < l /\ {all[k], all[l]} = {m, n}
    BY <2>4
  <2>6. 1 <= k /\ (k = 1 => 2 <= l)
    BY <1>3, <2>5
  <2> QED BY <1>2, <2>5, <2>6 DEF WillMeasure, Measures, Measuring, all
<1>6. Stored' = Stored
  BY <1>1 DEF Stored
<1> QED BY <1>1, <1>5, <1>6 DEF MetricsInv

LEMMA MetricsOfMeasure ==
    ASSUME TypeInv, ServersInv, MetricsInv, NEW r \in Handlers, LocalsInv(r), Measure(r)
    PROVE  MetricsInv'
<1>1. /\ UNCHANGED <<active, holder, cutShort, stops>>
      /\ \A q \in Handlers : q # r => handler'[q] = handler[q]
      /\ RegisterStep(r)
  BY AfterMeasure DEF Measure, OthersKeep, RegisterStep
<1> DEFINE a == From(r)
           b == To(r)
<1>2. PICK v \in {"zero", "good"} :
         /\ metrics' = [metrics EXCEPT ![<<a, b>>] = v, ![<<b, a>>] = v]
         /\ stops = 0 /\ failures' = 0 => v = "good"
  BY MeasuredPair
<1>3. /\ metrics \in [Places \X Places -> {"none", "zero", "good"}]
      /\ Stored \subseteq Places
  BY DEF TypeInv, TypeOK, Stored, Places
<1> HIDE DEF a, b
<1>4. \A m, n \in Places : metrics'[<<m, n>>] =
         IF <<m, n>> = <<a, b>> \/ <<m, n>> = <<b, a>> THEN v ELSE metrics[<<m, n>>]
  BY <1>2, <1>3
<1>5. ASSUME NEW m \in Stored, NEW n \in Stored, m # n, metrics'[<<m, n>>] = "none", ~LeftOut
      PROVE  \E q \in Handlers : WillMeasure(q, m, n)'
  <2>1. metrics[<<m, n>>] = "none" /\ {m, n} # {a, b}
    BY <1>3, <1>4, <1>5
  <2>2. PICK q \in Handlers : WillMeasure(q, m, n)
    BY <1>5, <2>1 DEF MetricsInv
  <2>3. CASE q = r
    BY <2>1, <2>2, <2>3, PairsStay DEF a, b
  <2>4. CASE q # r
    BY <1>1, <2>2, <2>4 DEF WillMeasure
  <2> QED BY <2>3, <2>4
<1>6. ASSUME stops' + failures' = 0
      PROVE  ~cutShort' /\ \A m, n \in Places : metrics'[<<m, n>>] # "zero"
  <2>1. stops = 0 /\ failures = 0 /\ failures' = 0
    BY <1>1, <1>6, FaultsStay
  <2>2. ~cutShort /\ \A m, n \in Places : metrics[<<m, n>>] # "zero"
    BY <2>1 DEF MetricsInv
  <2>3. v = "good"
    BY <1>2, <2>1
  <2>4. ASSUME NEW m \in Places, NEW n \in Places
        PROVE  metrics'[<<m, n>>] # "zero"
    BY <1>4, <2>2, <2>3
  <2> QED BY <1>1, <2>2, <2>4
<1>7. Stored' = Stored /\ LeftOut' = LeftOut
  BY <1>1 DEF Stored, LeftOut
<1> QED BY <1>5, <1>6, <1>7 DEF MetricsInv

\* A handler releases the mutex after its last pair, or notes what it has left out.
LEMMA MetricsOfUnlock ==
    ASSUME TypeInv, ServersInv, MetricsInv, NEW r \in Handlers, LocalsInv(r), Unlock(r)
    PROVE  MetricsInv'
<1>1. /\ UNCHANGED <<active, metrics, stops>> /\ handler[r].phase = "connect"
      /\ Fail(IF PairsLeft(r) /\ Running(From(r)) THEN 1 ELSE 0)
      /\ cutShort' = PairsLeft(r) /\ holder' = Nobody
      /\ \A q \in Handlers : q # r => handler'[q] = handler[q]
      /\ RegisterStep(r)
  BY AfterUnlock DEF Unlock, OthersKeep, RegisterStep
<1>2. ~LeftOut
  BY <1>1 DEF LocalsInv, Measuring, LeftOut, Handlers, Nobody
<1>3. ASSUME NEW m \in Stored, NEW n \in Stored, m # n, metrics[<<m, n>>] = "none",
             ~PairsLeft(r)
      PROVE  \E q \in Handlers : WillMeasure(q, m, n)'
  <2>1. PICK q \in Handlers : WillMeasure(q, m, n)
    BY <1>2, <1>3 DEF MetricsInv
  <2>2. ~WillMeasure(r, m, n)
    <3>1. handler[r].i \in Nat /\ Len(handler[r].all) \in Nat
      BY DEF TypeInv, HandlerType
    <3> QED BY <1>1, <1>3, <3>1 DEF WillMeasure, Measures, PairsLeft
  <2> QED BY <1>1, <2>1, <2>2 DEF WillMeasure
<1>4. PairsLeft(r) => LeftOut'
  BY <1>1 DEF LeftOut
<1>5. ASSUME stops' + failures' = 0
      PROVE  ~cutShort' /\ \A m, n \in Places : metrics'[<<m, n>>] # "zero"
  <2>1. stops = 0 /\ failures = 0 /\ failures' = 0
    BY <1>1, <1>5, FaultsStay
  <2>2. ~PairsLeft(r)
    <3> SUFFICES ASSUME PairsLeft(r) PROVE FALSE
      OBVIOUS
    <3>1. Running(From(r))
      BY <1>1, <2>1, SourcesRun DEF Measuring
    <3> QED BY <1>1, <2>1, <3>1 DEF Fail
  <2> QED BY <1>1, <2>1, <2>2 DEF MetricsInv
<1>6. Stored' = Stored
  BY <1>1 DEF Stored
<1> QED BY <1>1, <1>3, <1>4, <1>5, <1>6 DEF MetricsInv

LEMMA MetricsStep ==
    ASSUME TypeInv, ServersInv, \A r \in Handlers : LocalsInv(r), MetricsInv, [Next]_vars
    PROVE  MetricsInv'
<1>1. ASSUME NEW n \in Nodes, Start(n)
      PROVE  MetricsInv'
  <2>1. PICK s \in Handlers :
           /\ s = started + 1 /\ handler[s].phase = "done"
           /\ handler'[s] = [NoLocals EXCEPT !.phase = "insert", !.node = n]
           /\ handler'[s].phase = "insert" /\ handler'[s].node = n
           /\ \A q \in Handlers : q # s => handler'[q] = handler[q]
    BY <1>1, AfterStart
  <2>2. UNCHANGED <<active, metrics, cutShort, holder, stops, failures>>
    BY <1>1, AfterStart DEF center
  <2>3. \A m, k : ~WillMeasure(s, m, k)
    BY <2>1 DEF WillMeasure, Measures, Measuring
  <2>4. \A q \in Handlers : \A m, k \in Stored :
           WillMeasure(q, m, k) => WillMeasure(q, m, k)'
    BY <2>1, <2>3 DEF WillMeasure
  <2> QED BY <2>2, <2>4, MetricsFrame
<1>2. ASSUME NEW n \in Nodes, Stop(n)
      PROVE  MetricsInv'
  <2>1. /\ UNCHANGED <<active, metrics, cutShort, holder>> /\ stops' + failures' # 0
        /\ \A q \in Handlers : handler'[q] = Resume(handler[q], n)
    BY <1>2, AfterStop DEF center
  <2>2. ASSUME NEW q \in Handlers, NEW m, NEW k, WillMeasure(q, m, k)
        PROVE  WillMeasure(q, m, k)'
    <3>1. handler[q].phase # "wait"
      BY <2>2 DEF WillMeasure, Measures, Measuring
    <3>2. handler'[q] = handler[q]
      BY <2>1, <3>1 DEF Resume
    <3> QED BY <2>2, <3>2 DEF WillMeasure
  <2> QED BY <2>1, <2>2, MetricsFrame
<1>3. ASSUME NEW r \in Handlers, RegisterStep(r), UNCHANGED <<active, metrics, cutShort, holder>>,
             \A m, n : WillMeasure(r, m, n) => WillMeasure(r, m, n)'
      PROVE  MetricsInv'
  <2>1. \A q \in Handlers : q # r => handler'[q] = handler[q]
    BY <1>3, AfterRegisterStep DEF OthersKeep
  <2>2. \A q \in Handlers : \A m, n \in Stored :
           WillMeasure(q, m, n) => WillMeasure(q, m, n)'
    BY <1>3, <2>1 DEF WillMeasure
  <2>3. stops' + failures' = 0 => stops + failures = 0
    BY <1>3, FaultsStay
  <2> QED BY <1>3, <2>2, <2>3, MetricsFrame
<1>4. ASSUME NEW r \in Handlers, Connect(r)
      PROVE  MetricsInv'
  <2>1. /\ RegisterStep(r) /\ UNCHANGED <<active, metrics, cutShort, holder>>
        /\ handler[r].phase = "connect" /\ handler'[r] = [handler[r] EXCEPT !.phase = "measure"]
    BY <1>4, AfterConnect DEF RegisterStep, Connect, center
  <2>2. /\ handler'[r].phase = "measure" /\ handler'[r].all = handler[r].all
        /\ handler'[r].i = handler[r].i /\ handler'[r].j = handler[r].j
    BY <2>1 DEF TypeInv, HandlerType
  <2>4. /\ handler[r].phase # "metrics"
        /\ handler[r].phase \in Measuring /\ handler'[r].phase \in Measuring
    BY <2>1, <2>2 DEF Measuring
  <2>3. \A m, n : WillMeasure(r, m, n) => WillMeasure(r, m, n)'
    BY <2>2, <2>4 DEF WillMeasure, Measures
  <2> QED BY <1>3, <2>1, <2>3
<1>5. ASSUME NEW r \in Handlers,
             \/ Snapshot(r) \/ LoseReply(r) \/ Return(r)
             \/ \E n \in Nodes : Notify(r, n) \/ Lose(r, n)
      PROVE  MetricsInv'
  <2>1. RegisterStep(r)
    BY <1>5 DEF RegisterStep
  <2>2. /\ handler[r].phase \in {"snapshot", "notify", "wait"}
        /\ UNCHANGED <<active, metrics, cutShort, holder>>
    BY <1>5 DEF Snapshot, LoseReply, Return, Notify, Lose, Visits, center
  <2>3. \A m, n : ~WillMeasure(r, m, n)
    BY <2>2 DEF WillMeasure, Measures, Measuring
  <2> QED BY <1>3, <2>1, <2>2, <2>3
<1>6. ASSUME NEW r \in Handlers, NEW k \in Nodes, MeasureLatencies(r, k) \/ WriteNeighbors(r, k)
      PROVE  MetricsInv'
  <2>1. RegisterStep(r) /\ UNCHANGED <<active, metrics, cutShort, holder>>
    BY <1>6 DEF RegisterStep, MeasureLatencies, WriteNeighbors, center
  <2>2. handler'[r] = handler[r] \/ handler'[r] = Resume(handler[r], k)
    BY <1>6, AfterMeasureLatencies, AfterWrite
  <2>3. ASSUME NEW m, NEW n, WillMeasure(r, m, n)
        PROVE  WillMeasure(r, m, n)'
    <3>1. handler[r].phase # "wait"
      BY <2>3 DEF WillMeasure, Measures, Measuring
    <3>2. handler'[r] = handler[r]
      BY <2>2, <3>1 DEF Resume
    <3> QED BY <2>3, <3>2 DEF WillMeasure
  <2> QED BY <1>3, <2>1, <2>3
<1>7. CASE UNCHANGED vars
  BY <1>7 DEF vars, center, MetricsInv, Stored, WillMeasure, LeftOut
<1> QED
  BY <1>1, <1>2, <1>4, <1>5, <1>6, <1>7, MetricsOfInsert, MetricsOfLock, MetricsOfMeasure,
     MetricsOfUnlock DEF Next, RegisterStep

LEMMA MetricsImplies ==
    ASSUME TypeInv, MetricsInv
    PROVE  MetricsComplete
<1> SUFFICES ASSUME Quiet, stops + failures = 0 \/ ~cutShort,
                    NEW m \in Stored, NEW n \in Stored, m # n
             PROVE  metrics[<<m, n>>] \in
                       (IF stops + failures = 0 THEN {"good"} ELSE {"good", "zero"})
  BY DEF MetricsComplete, Stored
<1>1. ~LeftOut
  BY DEF LeftOut, MetricsInv
<1>2. metrics[<<m, n>>] # "none"
  BY <1>1 DEF MetricsInv, Quiet, WillMeasure, Measures, Measuring
<1>3. m \in Places /\ n \in Places /\ metrics[<<m, n>>] \in {"none", "zero", "good"}
  BY DEF TypeInv, TypeOK, Places, Stored
<1> QED BY <1>2, <1>3 DEF MetricsInv

-----------------------------------------------------------------------------
\* The inductive invariant, and what follows from it.
MemberInv ==
    /\ TypeInv /\ \A r \in Handlers : LocalsInv(r)
    /\ UpdatesInv /\ ServersInv /\ ToldInv /\ NeighborsInv /\ MetricsInv

LEMMA MemberInvHolds == Spec => []MemberInv
<1>1. Init => MemberInv
  BY TypeInit, LocalsInit, UpdatesInit, ServersInit, ToldInit, NeighborsInit, MetricsInit
  DEF MemberInv
<1>2. MemberInv /\ [Next]_vars => MemberInv'
  <2> SUFFICES ASSUME MemberInv, [Next]_vars PROVE MemberInv'
    OBVIOUS
  <2>1. TypeInv /\ UpdatesInv /\ ServersInv /\ ToldInv /\ NeighborsInv /\ MetricsInv
    BY DEF MemberInv
  <2>2. \A r \in Handlers : LocalsInv(r)
    BY DEF MemberInv
  <2>3. TypeInv'
    BY <2>1, <2>2, TypeStep
  <2>4. \A r \in Handlers : LocalsInv(r)'
    BY <2>1, <2>2, LocalsStep
  <2>5. UpdatesInv' /\ ServersInv'
    BY <2>1, <2>2, UpdatesStep, ServersStep
  <2>6. ToldInv' /\ NeighborsInv' /\ MetricsInv'
    BY <2>1, <2>2, ToldStep, NeighborsStep, MetricsStep
  <2> QED BY <2>3, <2>4, <2>5, <2>6 DEF MemberInv
<1> QED BY <1>1, <1>2, PTL DEF Spec

\* Type correctness: the fields of every handler and of every update, and the bound on
\* stops and failed calls together.
THEOREM TypeCorrect == Spec => []TypeOK
<1>1. MemberInv => TypeOK
  BY DEF MemberInv, TypeInv
<1> QED BY <1>1, MemberInvHolds, PTL

\* Register and notifyAllNodes: once no registration and no update is under way, every
\* running edge server has been told of every node the center has stored, except in
\* lists that were lost on their way to it, although the lists are sent without
\* nodes_mutex_ while active_nodes_ grows, servers stop and calls fail.
THEOREM EveryoneIsToldHolds == Spec => []EveryoneIsTold
<1>1. MemberInv => EveryoneIsTold
  BY ToldImplies DEF MemberInv
<1> QED BY <1>1, MemberInvHolds, PTL

\* UpdateClusterNodes: the neighbours of a server that no older list overtook are then
\* exactly the near ones of the nodes it was told of that its last update could measure,
\* also when the call had failed at the center while the update ran on; without a stop
\* or a failed call they are the near ones of all stored nodes.
THEOREM NeighborsCurrentHolds == Spec => []NeighborsCurrent
<1>1. MemberInv => NeighborsCurrent
  BY NeighborsImplies DEF MemberInv
<1> QED BY <1>1, MemberInvHolds, PTL

\* initializeNetworkMetrics: registrations that overlap leave no pair of stored nodes
\* unmeasured unless the last measurement was cut short at a source that could not be
\* connected to, which a stop or a failure must have caused; and zeros are there only
\* after a stop or a failure.
THEOREM MetricsCompleteHolds == Spec => []MetricsComplete
<1>1. MemberInv => MetricsComplete
  BY MetricsImplies DEF MemberInv
<1> QED BY <1>1, MemberInvHolds, PTL
====
