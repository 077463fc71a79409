--------------------------- MODULE EdgeQueryProofs ---------------------------
(***************************************************************************)
(* Queries at one edge, for any number of queries, nodes, blocks and       *)
(* faults: types, complete answers, one access record per block, and no    *)
(* failure without a fault or a node that cannot look up the stream.  The  *)
(* argument is QueryInv: it says for every state of a task what its answer *)
(* and its records are, so that a collected query has all of them.  It     *)
(* does not mention the shared map, the indexes or the latencies, which is *)
(* why no interleaving of their readers and writers matters: of a task's   *)
(* target, wherever it comes from, Routed says only whether it has the     *)
(* stream's table and schema, which without a fault it keeps.              *)
(***************************************************************************)
EXTENDS EdgeQuery, TLAPS

USE CenterIsNoEdge, StreamsAssumption, ToldAssumption, BlocksAreNat, BoundsAreNat

\* Tasks exist only once the query is launched, and only for its blocks.
Launched ==
    \A q \in Queries, b \in Blocks :
       task[q][b] # "none" =>
          /\ pc[q] \notin {"idle", "lookup"}
          /\ ~Forwarded(q) => b \in Range(q)

\* What left the collecting loop is answered.
Collected ==
    \A q \in Queries :
       /\ pc[q] = "done" => open[q] = {}
       /\ pc[q] \in {"collect", "done"} =>
             \A b \in Range(q) : b \in open[q] \/ task[q][b] = "ok"

\* Between the two transactions of a task its block stays, or was seen to go.
Checked ==
    \A q \in Queries, b \in Blocks :
       task[q][b] = "exists" =>
          /\ target[q][b] \in Nodes
          /\ Key(q, b) \in stored[target[q][b]] \/ <<q, b>> \in raced

Served ==
    \A q \in Queries, b \in Blocks :
       task[q][b] = "ok" => answer[q][b] = 1 \/ <<q, b>> \in raced

\* A task sent to an edge finds the table and the schema there, unless it was
\* misled or something failed; a forwarded query goes to the center.
Routed ==
    \A q \in Queries :
       /\ pc[q] = "lookup" => ~Forwarded(q)
       /\ pc[q] = "idle" \/ Forwarded(q) => \A b \in Blocks : target[q][b] = Center
       /\ \A b \in Blocks :
             target[q][b] \in Nodes =>
                faults > 0 \/ <<q, b>> \in misled \/ Serves(target[q][b], query[q].stream)

\* An error, and a query left by it, come from a fault or a misled task.
Faulted ==
    /\ \A q \in Queries :
          pc[q] \in {"unwind", "failed"} =>
             faults > 0 \/ \E b \in Range(q) : <<q, b>> \in misled
    /\ \A q \in Queries, b \in Blocks :
          task[q][b] = "error" =>
             faults > 0 \/ (b \in Range(q) /\ <<q, b>> \in misled)

\* The accesses recorded so far are those of the tasks that are answered.
OwnKey(q, k) == k[1] = query[q].stream /\ k[2] \in Range(q)
RecordsOf(q, k) == IF OwnKey(q, k) /\ task[q][k[2]] = "ok" THEN 1 ELSE 0
Recorded ==
    \A q \in Queries, k \in Keys :
       /\ pc[q] = "idle" => recorded[q][k] = 0
       /\ ~Forwarded(q) => recorded[q][k] = RecordsOf(q, k)

AnswerInv ==
    TypeOK /\ Launched /\ Collected /\ Checked /\ Served /\ Routed /\ Faulted
QueryInv == AnswerInv /\ Recorded

-----------------------------------------------------------------------------
\* Type correctness.

\* An access record is counted for a key.
LEMMA RecordType ==
    ASSUME TypeOK, NEW q \in Queries, NEW b \in Blocks,
           Record(q, RequestKey(q, b))
    PROVE  recorded' \in [Queries -> [Keys -> Nat]]
<1>1. RequestKey(q, b) \in Keys
  BY DEF RequestKey, Key, Keys, TypeOK
<1>2. recorded \in [Queries -> [Keys -> Nat]]
  BY DEF TypeOK
<1> QED
  BY <1>1, <1>2 DEF Record

LEMMA InitTypes == Init => TypeOK
BY DEF Init, TypeOK, TaskStates, Keys

\* Every step keeps the types.
LEMMA TypesStep ==
    ASSUME TypeOK, [Next]_vars
    PROVE  TypeOK'
<1>1. ASSUME NEW q \in Queries, NEW s \in Streams, NEW lo \in Blocks,
             NEW hi \in Blocks, StartQuery(q, s, lo, hi)
      PROVE  TypeOK'
  BY <1>1 DEF StartQuery, TypeOK, environment
<1>2. ASSUME NEW q \in Queries, NEW s \in Streams, ForwardQuery(q, s)
      PROVE  TypeOK'
  BY <1>2 DEF ForwardQuery, TypeOK, TaskStates, environment, routing
<1>3. ASSUME NEW q \in Queries, NEW n \in Nodes, LookUp(q, n) PROVE TypeOK'
  BY <1>3 DEF LookUp, TypeOK, environment
<1>4. ASSUME NEW q \in Queries, Group(q) PROVE TypeOK'
  <2>1. next[q] \in Blocks => results[next[q]] \in Nodes \cup {None}
    BY DEF TypeOK
  <2> DEFINE node == IF results[next[q]] = None THEN Center ELSE results[next[q]]
  <2>2. next[q] \in Blocks => node \in Nodes \cup {Center}
    BY <2>1
  <2>3. target' = [target EXCEPT ![q][next[q]] = node]
    BY <1>4 DEF Group
  <2> HIDE DEF node
  <2>4. target \in [Queries -> [Blocks -> Nodes \cup {Center}]]
    BY DEF TypeOK
  <2>5. target' \in [Queries -> [Blocks -> Nodes \cup {Center}]]
    BY <2>2, <2>3, <2>4
  <2> QED BY <1>4, <2>5 DEF Group, TypeOK, environment
<1>5. ASSUME NEW q \in Queries, Launch(q) PROVE TypeOK'
  <2>1. task' \in [Queries -> [Blocks -> TaskStates]]
    BY <1>5 DEF Launch, TypeOK, TaskStates
  <2>2. open' \in [Queries -> SUBSET Blocks]
    BY <1>5 DEF Launch, TypeOK, Range
  <2> QED BY <1>5, <2>1, <2>2 DEF Launch, TypeOK, environment, routing
<1>6. ASSUME NEW q \in Queries, Fail(q) PROVE TypeOK'
  BY <1>6 DEF Fail, TypeOK, environment, routing
<1>7. ASSUME NEW q \in Queries, Return(q) PROVE TypeOK'
  BY <1>7 DEF Return, TypeOK, environment, routing
<1>8. ASSUME NEW q \in Queries, NEW b \in Blocks, Exists(q, b) PROVE TypeOK'
  BY <1>8 DEF Exists, LookedUp, TypeOK, TaskStates, environment, routing
<1>9. ASSUME NEW q \in Queries, NEW b \in Blocks, Fetch(q, b) PROVE TypeOK'
  <2>1. recorded' \in [Queries -> [Keys -> Nat]]
    BY <1>9, RecordType DEF Fetch
  <2>2. answer' \in [Queries -> [Blocks -> 0..1]]
    BY <1>9 DEF Fetch, TypeOK
  <2>3. task' \in [Queries -> [Blocks -> TaskStates]]
    BY <1>9 DEF Fetch, TypeOK, TaskStates
  <2> QED BY <1>9, <2>1, <2>2, <2>3 DEF Fetch, TypeOK, environment, routing
<1>10. ASSUME NEW q \in Queries, NEW b \in Blocks, FetchAtCenter(q, b)
       PROVE  TypeOK'
  <2>1. recorded' \in [Queries -> [Keys -> Nat]]
    BY <1>10, RecordType DEF FetchAtCenter
  <2>2. answer' \in [Queries -> [Blocks -> 0..1]]
    BY <1>10 DEF FetchAtCenter, TypeOK
  <2>3. task' \in [Queries -> [Blocks -> TaskStates]]
    BY <1>10 DEF FetchAtCenter, TypeOK, TaskStates
  <2> QED
    BY <1>10, <2>1, <2>2, <2>3
    DEF FetchAtCenter, TypeOK, environment, routing
<1>11. ASSUME NEW q \in Queries, NEW b \in Blocks, CollectOK(q, b)
       PROVE  TypeOK'
  BY <1>11 DEF CollectOK, TypeOK, environment, routing
<1>12. ASSUME NEW q \in Queries, NEW b \in Blocks, RetryAtCenter(q, b)
       PROVE  TypeOK'
  BY <1>12 DEF RetryAtCenter, TypeOK, TaskStates, environment, routing
<1>13. ASSUME NEW q \in Queries, NEW b \in Blocks, CollectError(q, b)
       PROVE  TypeOK'
  BY <1>13 DEF CollectError, TypeOK, environment, routing
<1>14. ASSUME NEW q \in Queries, NEW b \in Blocks, SubQueryFails(q, b)
       PROVE  TypeOK'
  <2>1. faults' \in 0..MaxFaults
    BY <1>14 DEF SubQueryFails, TypeOK
  <2> QED
    BY <1>14, <2>1
    DEF SubQueryFails, TypeOK, TaskStates, environment, routing
<1>15. ASSUME NEW n \in Nodes, NEW k \in Known \X Blocks, AddBlock(n, k)
       PROVE  TypeOK'
  <2>1. changes' \in 0..MaxChanges
    BY <1>15 DEF AddBlock, TypeOK
  <2>2. k \in Keys
    BY DEF Keys
  <2>3. stored' \in [Nodes -> SUBSET Keys]
    BY <1>15, <2>2 DEF AddBlock, TypeOK
  <2> QED BY <1>15, <2>1, <2>3 DEF AddBlock, TypeOK, routing
<1>16. ASSUME NEW n \in Nodes, NEW k \in Known \X Blocks, RemoveBlock(n, k)
       PROVE  TypeOK'
  <2>1. changes' \in 0..MaxChanges
    BY <1>16 DEF RemoveBlock, TypeOK
  <2>2. k \in Keys
    BY DEF Keys
  <2>3. stored' \in [Nodes -> SUBSET Keys]
    BY <1>16, <2>2 DEF RemoveBlock, TypeOK
  <2> QED BY <1>16, <2>1, <2>3 DEF RemoveBlock, TypeOK, routing
<1>17. ASSUME NEW n \in Nodes, NEW k \in Known \X Blocks, UpdateIndex(n, k)
       PROVE  TypeOK'
  <2>1. changes' \in 0..MaxChanges
    BY <1>17 DEF UpdateIndex, TypeOK
  <2>2. k \in Keys
    BY DEF Keys
  <2>3. index' \in [Nodes -> SUBSET Keys]
    <3>1. CASE index' = [index EXCEPT ![n] = @ \cup {k}]
      BY <3>1, <2>2 DEF TypeOK
    <3>2. CASE index' = [index EXCEPT ![n] = @ \ {k}]
      BY <3>2 DEF TypeOK
    <3> QED BY <1>17, <3>1, <3>2 DEF UpdateIndex
  <2> QED BY <1>17, <2>1, <2>3 DEF UpdateIndex, TypeOK, routing
<1>18. ASSUME NEW n \in Nodes, NEW s \in Known, CreateTable(n, s)
       PROVE  TypeOK'
  <2>1. changes' \in 0..MaxChanges
    BY <1>18 DEF CreateTable, TypeOK
  <2>2. tables' \in [Nodes -> SUBSET Streams]
    BY <1>18 DEF CreateTable, TypeOK
  <2> QED BY <1>18, <2>1, <2>2 DEF CreateTable, TypeOK, routing
<1>19. ASSUME NEW n \in Nodes, UpdateSchema(n)
       PROVE  TypeOK'
  <2>1. changes' \in 0..MaxChanges
    BY <1>19 DEF UpdateSchema, TypeOK
  <2> QED BY <1>19, <2>1 DEF UpdateSchema, TypeOK, routing
<1>20. ASSUME NEW n \in Nodes, Restart(n)
       PROVE  TypeOK'
  <2>1. faults' \in 0..MaxFaults
    BY <1>20 DEF Restart, TypeOK
  <2>2. task' \in [Queries -> [Blocks -> TaskStates]]
    BY <1>20 DEF Restart, TypeOK, TaskStates
  <2> QED BY <1>20, <2>1, <2>2 DEF Restart, TypeOK, routing
<1>21. CASE UNCHANGED vars
  BY <1>21 DEF vars, environment, routing, TypeOK
<1> QED
  BY <1>1, <1>2, <1>3, <1>4, <1>5, <1>6, <1>7, <1>8, <1>9,
     <1>10, <1>11, <1>12, <1>13, <1>14, <1>15, <1>16, <1>17, <1>18,
     <1>19, <1>20, <1>21
  DEF Next, QueryStep

-----------------------------------------------------------------------------
\* A query fails only after a fault, or because a task was misled.

LEMMA InitRouted == Init => Routed /\ Faulted
BY DEF Init, Routed, Faulted

\* Group remembers a task it misleads; only a restart takes schemas or tables away.
LEMMA RoutedStep ==
    ASSUME TypeOK, Routed, [Next]_vars
    PROVE  Routed'
<1>1. ASSUME NEW q \in Queries, NEW s \in Streams, NEW lo \in Blocks,
             NEW hi \in Blocks, StartQuery(q, s, lo, hi)
       PROVE  Routed'
  <2> SUFFICES ASSUME NEW p \in Queries
               PROVE  /\ pc'[p] = "lookup" => ~Forwarded(p)'
                      /\ (pc'[p] = "idle" \/ Forwarded(p)') =>
                            \A b \in Blocks : target'[p][b] = Center
                      /\ \A b \in Blocks :
                            target'[p][b] \in Nodes =>
                               faults' > 0 \/ <<p, b>> \in misled'
                                  \/ Serves(target[p][b], query[p].stream)'
    BY DEF Routed
  <2>1. CASE p = q
    BY <1>1, <2>1 DEF StartQuery, TypeOK, Routed, Forwarded
  <2>2. CASE p # q
    BY <1>1, <2>2 DEF StartQuery, TypeOK, Routed, Forwarded, Serves, environment
  <2> QED BY <2>1, <2>2
<1>2. ASSUME NEW q \in Queries, NEW s \in Streams, ForwardQuery(q, s)
       PROVE  Routed'
  <2> SUFFICES ASSUME NEW p \in Queries
               PROVE  /\ pc'[p] = "lookup" => ~Forwarded(p)'
                      /\ (pc'[p] = "idle" \/ Forwarded(p)') =>
                            \A b \in Blocks : target'[p][b] = Center
                      /\ \A b \in Blocks :
                            target'[p][b] \in Nodes =>
                               faults' > 0 \/ <<p, b>> \in misled'
                                  \/ Serves(target[p][b], query[p].stream)'
    BY DEF Routed
  <2>1. CASE p = q
    BY <1>2, <2>1 DEF ForwardQuery, TypeOK, Routed, Forwarded, routing
  <2>2. CASE p # q
    BY <1>2, <2>2
    DEF ForwardQuery, TypeOK, Routed, Forwarded, Serves, environment, routing
  <2> QED BY <2>1, <2>2
<1>3. ASSUME NEW q \in Queries, NEW n \in Nodes, LookUp(q, n)
       PROVE  Routed'
  BY <1>3 DEF LookUp, Routed, Forwarded, Serves, environment, routing
<1>4. ASSUME NEW q \in Queries, Group(q)
       PROVE  Routed'
  <2> SUFFICES ASSUME NEW p \in Queries
               PROVE  /\ pc'[p] = "lookup" => ~Forwarded(p)'
                      /\ (pc'[p] = "idle" \/ Forwarded(p)') =>
                            \A b \in Blocks : target'[p][b] = Center
                      /\ \A b \in Blocks :
                            target'[p][b] \in Nodes =>
                               faults' > 0 \/ <<p, b>> \in misled'
                                  \/ Serves(target[p][b], query[p].stream)'
    BY DEF Routed
  <2>1. CASE p = q
    <3>1. pc'[p] = "lookup" /\ ~Forwarded(p) /\ ~Forwarded(p)'
      BY <1>4, <2>1 DEF Group, Routed, Forwarded
    <3>2. ASSUME NEW b \in Blocks, target'[p][b] \in Nodes
          PROVE  faults' > 0 \/ <<p, b>> \in misled'
                    \/ Serves(target[p][b], query[p].stream)'
      <4>1. CASE b = next[q]
        <5>1. /\ results[b] # None
              /\ target'[p][b] = results[b]
          BY <1>4, <2>1, <3>2, <4>1 DEF Group, TypeOK
        <5>2. CASE Serves(results[b], query[q].stream)
          BY <1>4, <2>1, <5>1, <5>2 DEF Group, Serves, environment
        <5>3. CASE ~Serves(results[b], query[q].stream)
          <6>1. <<q, b>> \in {t \in {<<q, next[q]>>} :
                   results[t[2]] # None /\ ~Serves(results[t[2]], query[q].stream)}
            BY <4>1, <5>1, <5>3
          <6> QED BY <1>4, <2>1, <6>1 DEF Group
        <5> QED BY <5>2, <5>3
      <4>2. CASE b # next[q]
        BY <1>4, <2>1, <3>2, <4>2 DEF Group, TypeOK, Routed, Serves, environment
      <4> QED BY <4>1, <4>2
    <3> QED BY <3>1, <3>2
  <2>2. CASE p # q
    BY <1>4, <2>2 DEF Group, TypeOK, Routed, Forwarded, Serves, environment
  <2> QED BY <2>1, <2>2
<1>5. ASSUME NEW q \in Queries, Launch(q)
       PROVE  Routed'
  BY <1>5 DEF Launch, TypeOK, Routed, Forwarded, Serves, environment, routing
<1>6. ASSUME NEW q \in Queries, Fail(q)
       PROVE  Routed'
  BY <1>6 DEF Fail, TypeOK, Routed, Forwarded, Serves, environment, routing
<1>7. ASSUME NEW q \in Queries, Return(q)
       PROVE  Routed'
  BY <1>7 DEF Return, Routed, Forwarded, Serves, environment, routing
<1>8. ASSUME NEW q \in Queries, NEW b \in Blocks, Exists(q, b)
       PROVE  Routed'
  BY <1>8 DEF Exists, Routed, Forwarded, Serves, environment, routing
<1>9. ASSUME NEW q \in Queries, NEW b \in Blocks, Fetch(q, b)
       PROVE  Routed'
  BY <1>9 DEF Fetch, Routed, Forwarded, Serves, environment, routing
<1>10. ASSUME NEW q \in Queries, NEW b \in Blocks, FetchAtCenter(q, b)
       PROVE  Routed'
  BY <1>10 DEF FetchAtCenter, Routed, Forwarded, Serves, environment, routing
<1>11. ASSUME NEW q \in Queries, NEW b \in Blocks, CollectOK(q, b)
       PROVE  Routed'
  BY <1>11 DEF CollectOK, Routed, Forwarded, Serves, environment, routing
<1>12. ASSUME NEW q \in Queries, NEW b \in Blocks, RetryAtCenter(q, b)
       PROVE  Routed'
  BY <1>12 DEF RetryAtCenter, Routed, Forwarded, Serves, environment, routing
<1>13. ASSUME NEW q \in Queries, NEW b \in Blocks, CollectError(q, b)
       PROVE  Routed'
  BY <1>13 DEF CollectError, TypeOK, Routed, Forwarded, Serves, environment, routing
<1>14. ASSUME NEW q \in Queries, NEW b \in Blocks, SubQueryFails(q, b)
       PROVE  Routed'
  <2>1. faults' > 0
    BY <1>14 DEF SubQueryFails, TypeOK
  <2> QED BY <1>14, <2>1 DEF SubQueryFails, Routed, Forwarded, routing
<1>15. ASSUME NEW n \in Nodes, NEW k \in Known \X Blocks, AddBlock(n, k)
       PROVE  Routed'
  BY <1>15 DEF AddBlock, Routed, Forwarded, Serves, environment, routing
<1>16. ASSUME NEW n \in Nodes, NEW k \in Known \X Blocks, RemoveBlock(n, k)
       PROVE  Routed'
  BY <1>16 DEF RemoveBlock, Routed, Forwarded, Serves, environment, routing
<1>17. ASSUME NEW n \in Nodes, NEW k \in Known \X Blocks, UpdateIndex(n, k)
       PROVE  Routed'
  BY <1>17 DEF UpdateIndex, Routed, Forwarded, Serves, environment, routing
<1>18. ASSUME NEW n \in Nodes, NEW s \in Known, CreateTable(n, s)
       PROVE  Routed'
  <2>1. \A m \in Nodes, t \in Known : Serves(m, t) => Serves(m, t)'
    BY <1>18 DEF CreateTable, Serves, TypeOK
  <2> QED BY <1>18, <2>1 DEF CreateTable, Routed, Forwarded, routing, TypeOK
<1>19. ASSUME NEW n \in Nodes, UpdateSchema(n)
       PROVE  Routed'
  <2>1. \A m \in Nodes, t \in Known : Serves(m, t) => Serves(m, t)'
    BY <1>19 DEF UpdateSchema, Serves, TypeOK
  <2> QED BY <1>19, <2>1 DEF UpdateSchema, Routed, Forwarded, routing, TypeOK
<1>20. ASSUME NEW n \in Nodes, Restart(n)
       PROVE  Routed'
  <2>1. faults' > 0
    BY <1>20 DEF Restart, TypeOK
  <2> QED BY <1>20, <2>1 DEF Restart, Routed, Forwarded, routing
<1>21. CASE UNCHANGED vars
  BY <1>21 DEF vars, environment, routing, Routed, Forwarded, Serves, environment, routing
<1> QED
  BY <1>1, <1>2, <1>3, <1>4, <1>5, <1>6, <1>7, <1>8, <1>9,
     <1>10, <1>11, <1>12, <1>13, <1>14, <1>15, <1>16, <1>17, <1>18,
     <1>19, <1>20, <1>21
  DEF Next, QueryStep

\* Only Exists at a misled task, a failed sub-query and a restart make an error.
LEMMA FaultedStep ==
    ASSUME TypeOK, Launched, Routed, Faulted, [Next]_vars
    PROVE  Faulted'
<1>1. ASSUME NEW q \in Queries, NEW s \in Streams, NEW lo \in Blocks,
             NEW hi \in Blocks, StartQuery(q, s, lo, hi)
       PROVE  Faulted'
  BY <1>1 DEF StartQuery, TypeOK, Launched, Faulted, Range
<1>2. ASSUME NEW q \in Queries, NEW s \in Streams, ForwardQuery(q, s)
       PROVE  Faulted'
  BY <1>2 DEF ForwardQuery, TypeOK, Launched, Faulted, Range, routing
<1>3. ASSUME NEW q \in Queries, NEW n \in Nodes, LookUp(q, n)
       PROVE  Faulted'
  BY <1>3 DEF LookUp, Faulted, Range
<1>4. ASSUME NEW q \in Queries, Group(q)
       PROVE  Faulted'
  BY <1>4 DEF Group, Faulted, Range
<1>5. ASSUME NEW q \in Queries, Launch(q)
       PROVE  Faulted'
  BY <1>5 DEF Launch, TypeOK, Faulted, Range, routing
<1>6. ASSUME NEW q \in Queries, Fail(q)
       PROVE  Faulted'
  BY <1>6 DEF Fail, TypeOK, Faulted, Range, routing
<1>7. ASSUME NEW q \in Queries, Return(q)
       PROVE  Faulted'
  BY <1>7 DEF Return, TypeOK, Faulted, Range, routing
<1>8. ASSUME NEW q \in Queries, NEW b \in Blocks, Exists(q, b)
       PROVE  Faulted'
  <2>1. LookedUp(q, b) = "error" =>
           faults > 0 \/ (b \in Range(q) /\ <<q, b>> \in misled)
    <3>1. target[q][b] \in Nodes /\ ~Forwarded(q) /\ b \in Range(q)
      BY <1>8 DEF Exists, Routed, Launched
    <3> QED BY <3>1 DEF LookedUp, Routed
  <2>2. task'[q][b] = LookedUp(q, b)
    BY <1>8 DEF Exists, TypeOK
  <2> QED BY <1>8, <2>1, <2>2 DEF Exists, TypeOK, Faulted, Range, routing
<1>9. ASSUME NEW q \in Queries, NEW b \in Blocks, Fetch(q, b)
       PROVE  Faulted'
  BY <1>9 DEF Fetch, Faulted, Range, routing
<1>10. ASSUME NEW q \in Queries, NEW b \in Blocks, FetchAtCenter(q, b)
       PROVE  Faulted'
  BY <1>10 DEF FetchAtCenter, Faulted, Range, routing
<1>11. ASSUME NEW q \in Queries, NEW b \in Blocks, CollectOK(q, b)
       PROVE  Faulted'
  BY <1>11 DEF CollectOK, Faulted, Range, routing
<1>12. ASSUME NEW q \in Queries, NEW b \in Blocks, RetryAtCenter(q, b)
       PROVE  Faulted'
  BY <1>12 DEF RetryAtCenter, Faulted, Range, routing
<1>13. ASSUME NEW q \in Queries, NEW b \in Blocks, CollectError(q, b)
       PROVE  Faulted'
  BY <1>13 DEF CollectError, Collecting, TypeOK, Faulted, Range, routing
<1>14. ASSUME NEW q \in Queries, NEW b \in Blocks, SubQueryFails(q, b)
       PROVE  Faulted'
  <2>1. faults' > 0
    BY <1>14 DEF SubQueryFails, TypeOK
  <2> QED BY <1>14, <2>1 DEF SubQueryFails, Faulted
<1>15. ASSUME NEW n \in Nodes, NEW k \in Known \X Blocks, AddBlock(n, k)
       PROVE  Faulted'
  BY <1>15 DEF AddBlock, Faulted, Range, routing
<1>16. ASSUME NEW n \in Nodes, NEW k \in Known \X Blocks, RemoveBlock(n, k)
       PROVE  Faulted'
  BY <1>16 DEF RemoveBlock, Faulted, Range, routing
<1>17. ASSUME NEW n \in Nodes, NEW k \in Known \X Blocks, UpdateIndex(n, k)
       PROVE  Faulted'
  BY <1>17 DEF UpdateIndex, Faulted, Range, routing
<1>18. ASSUME NEW n \in Nodes, NEW s \in Known, CreateTable(n, s)
       PROVE  Faulted'
  BY <1>18 DEF CreateTable, Faulted, Range, routing
<1>19. ASSUME NEW n \in Nodes, UpdateSchema(n)
       PROVE  Faulted'
  BY <1>19 DEF UpdateSchema, Faulted, Range, routing
<1>20. ASSUME NEW n \in Nodes, Restart(n)
       PROVE  Faulted'
  <2>1. faults' > 0
    BY <1>20 DEF Restart, TypeOK
  <2> QED BY <1>20, <2>1 DEF Restart, Faulted
<1>21. CASE UNCHANGED vars
  BY <1>21 DEF vars, environment, routing, Faulted, Range, routing
<1> QED
  BY <1>1, <1>2, <1>3, <1>4, <1>5, <1>6, <1>7, <1>8, <1>9,
     <1>10, <1>11, <1>12, <1>13, <1>14, <1>15, <1>16, <1>17, <1>18,
     <1>19, <1>20, <1>21
  DEF Next, QueryStep

-----------------------------------------------------------------------------
\* Answers are complete.

LEMMA InitAnswers == Init => Launched /\ Collected /\ Checked /\ Served
BY DEF Init, Launched, Collected, Checked, Served

\* Tasks are made by Launch and ForwardQuery only.
LEMMA LaunchedStep ==
    ASSUME TypeOK, Launched, [Next]_vars
    PROVE  Launched'
<1>1. ASSUME NEW q \in Queries, NEW s \in Streams, NEW lo \in Blocks,
             NEW hi \in Blocks, StartQuery(q, s, lo, hi)
      PROVE  Launched'
  BY <1>1 DEF StartQuery, Launched, Range, Forwarded
<1>2. ASSUME NEW q \in Queries, NEW s \in Streams, ForwardQuery(q, s)
      PROVE  Launched'
  BY <1>2 DEF ForwardQuery, TypeOK, Launched, Range, Forwarded
<1>3. ASSUME NEW q \in Queries, NEW n \in Nodes, LookUp(q, n) PROVE Launched'
  BY <1>3 DEF LookUp, Launched, Range, Forwarded
<1>4. ASSUME NEW q \in Queries, Group(q) PROVE Launched'
  BY <1>4 DEF Group, Launched, Range, Forwarded
<1>5. ASSUME NEW q \in Queries, Launch(q) PROVE Launched'
  BY <1>5 DEF Launch, TypeOK, Launched, Range, Forwarded
<1>6. ASSUME NEW q \in Queries, Fail(q) PROVE Launched'
  BY <1>6 DEF Fail, TypeOK, Launched, Range, Forwarded
<1>7. ASSUME NEW q \in Queries, Return(q) PROVE Launched'
  BY <1>7 DEF Return, Launched, Range, Forwarded
<1>8. ASSUME NEW q \in Queries, NEW b \in Blocks, Exists(q, b) PROVE Launched'
  BY <1>8 DEF Exists, LookedUp, Launched, Range, Forwarded
<1>9. ASSUME NEW q \in Queries, NEW b \in Blocks, Fetch(q, b) PROVE Launched'
  BY <1>9 DEF Fetch, Launched, Range, Forwarded
<1>10. ASSUME NEW q \in Queries, NEW b \in Blocks, FetchAtCenter(q, b)
       PROVE  Launched'
  BY <1>10 DEF FetchAtCenter, Launched, Range, Forwarded
<1>11. ASSUME NEW q \in Queries, NEW b \in Blocks, CollectOK(q, b)
       PROVE  Launched'
  BY <1>11 DEF CollectOK, Launched, Range, Forwarded
<1>12. ASSUME NEW q \in Queries, NEW b \in Blocks, RetryAtCenter(q, b)
       PROVE  Launched'
  BY <1>12 DEF RetryAtCenter, Collecting, Launched, Range, Forwarded
<1>13. ASSUME NEW q \in Queries, NEW b \in Blocks, CollectError(q, b)
       PROVE  Launched'
  BY <1>13 DEF CollectError, TypeOK, Launched, Range, Forwarded
<1>14. ASSUME NEW q \in Queries, NEW b \in Blocks, SubQueryFails(q, b)
       PROVE  Launched'
  BY <1>14 DEF SubQueryFails, Launched, Range, Forwarded
<1>15. ASSUME NEW n \in Nodes, NEW k \in Known \X Blocks, AddBlock(n, k)
       PROVE  Launched'
  BY <1>15 DEF AddBlock, Launched, Range, Forwarded
<1>16. ASSUME NEW n \in Nodes, NEW k \in Known \X Blocks, RemoveBlock(n, k)
       PROVE  Launched'
  BY <1>16 DEF RemoveBlock, Launched, Range, Forwarded
<1>17. ASSUME NEW n \in Nodes, NEW k \in Known \X Blocks, UpdateIndex(n, k)
       PROVE  Launched'
  BY <1>17 DEF UpdateIndex, Launched, Range, Forwarded
<1>18. ASSUME NEW n \in Nodes, NEW s \in Known, CreateTable(n, s)
       PROVE  Launched'
  BY <1>18 DEF CreateTable, Launched, Range, Forwarded
<1>19. ASSUME NEW n \in Nodes, UpdateSchema(n)
       PROVE  Launched'
  BY <1>19 DEF UpdateSchema, Launched, Range, Forwarded
<1>20. ASSUME NEW n \in Nodes, Restart(n)
       PROVE  Launched'
  BY <1>20 DEF Restart, Launched, Range, Forwarded
<1>21. CASE UNCHANGED vars
  BY <1>21 DEF vars, Launched, Range, Forwarded
<1> QED
  BY <1>1, <1>2, <1>3, <1>4, <1>5, <1>6, <1>7, <1>8, <1>9,
     <1>10, <1>11, <1>12, <1>13, <1>14, <1>15, <1>16, <1>17, <1>18,
     <1>19, <1>20, <1>21
  DEF Next, QueryStep

\* A block leaves the loop only with an OK answer, which it keeps.
LEMMA CollectedStep ==
    ASSUME TypeOK, Launched, Collected, [Next]_vars
    PROVE  Collected'
<1>1. ASSUME NEW q \in Queries, NEW s \in Streams, NEW lo \in Blocks,
             NEW hi \in Blocks, StartQuery(q, s, lo, hi)
      PROVE  Collected'
  BY <1>1 DEF StartQuery, Collected, Range
<1>2. ASSUME NEW q \in Queries, NEW s \in Streams, ForwardQuery(q, s)
      PROVE  Collected'
  BY <1>2 DEF ForwardQuery, TypeOK, Collected, Range
<1>3. ASSUME NEW q \in Queries, NEW n \in Nodes, LookUp(q, n) PROVE Collected'
  BY <1>3 DEF LookUp, Collected, Range
<1>4. ASSUME NEW q \in Queries, Group(q) PROVE Collected'
  BY <1>4 DEF Group, Collected, Range
<1>5. ASSUME NEW q \in Queries, Launch(q) PROVE Collected'
  BY <1>5 DEF Launch, TypeOK, Collected, Range
<1>6. ASSUME NEW q \in Queries, Fail(q) PROVE Collected'
  BY <1>6 DEF Fail, TypeOK, Collected, Range
<1>7. ASSUME NEW q \in Queries, Return(q) PROVE Collected'
  BY <1>7 DEF Return, Collected, Range
<1>8. ASSUME NEW q \in Queries, NEW b \in Blocks, Exists(q, b)
      PROVE  Collected'
  BY <1>8 DEF Exists, LookedUp, Collected, Range
<1>9. ASSUME NEW q \in Queries, NEW b \in Blocks, Fetch(q, b) PROVE Collected'
  BY <1>9 DEF Fetch, Collected, Range
<1>10. ASSUME NEW q \in Queries, NEW b \in Blocks, FetchAtCenter(q, b)
       PROVE  Collected'
  BY <1>10 DEF FetchAtCenter, Collected, Range
<1>11. ASSUME NEW q \in Queries, NEW b \in Blocks, CollectOK(q, b)
       PROVE  Collected'
  BY <1>11 DEF CollectOK, Collecting, TypeOK, Collected, Range
<1>12. ASSUME NEW q \in Queries, NEW b \in Blocks, RetryAtCenter(q, b)
       PROVE  Collected'
  BY <1>12 DEF RetryAtCenter, Collecting, Collected, Range
<1>13. ASSUME NEW q \in Queries, NEW b \in Blocks, CollectError(q, b)
       PROVE  Collected'
  BY <1>13 DEF CollectError, Collected, Range
<1>14. ASSUME NEW q \in Queries, NEW b \in Blocks, SubQueryFails(q, b)
       PROVE  Collected'
  BY <1>14 DEF SubQueryFails, Collected, Range
<1>15. ASSUME NEW n \in Nodes, NEW k \in Known \X Blocks, AddBlock(n, k)
       PROVE  Collected'
  BY <1>15 DEF AddBlock, Collected, Range
<1>16. ASSUME NEW n \in Nodes, NEW k \in Known \X Blocks, RemoveBlock(n, k)
       PROVE  Collected'
  BY <1>16 DEF RemoveBlock, Collected, Range
<1>17. ASSUME NEW n \in Nodes, NEW k \in Known \X Blocks, UpdateIndex(n, k)
       PROVE  Collected'
  BY <1>17 DEF UpdateIndex, Collected, Range
<1>18. ASSUME NEW n \in Nodes, NEW s \in Known, CreateTable(n, s)
       PROVE  Collected'
  BY <1>18 DEF CreateTable, Collected, Range
<1>19. ASSUME NEW n \in Nodes, UpdateSchema(n)
       PROVE  Collected'
  BY <1>19 DEF UpdateSchema, Collected, Range
<1>20. ASSUME NEW n \in Nodes, Restart(n)
       PROVE  Collected'
  BY <1>20 DEF Restart, Collected, Range
<1>21. CASE UNCHANGED vars
  BY <1>21 DEF vars, Collected, Range
<1> QED
  BY <1>1, <1>2, <1>3, <1>4, <1>5, <1>6, <1>7, <1>8, <1>9,
     <1>10, <1>11, <1>12, <1>13, <1>14, <1>15, <1>16, <1>17, <1>18,
     <1>19, <1>20, <1>21
  DEF Next, QueryStep

\* A block removed between the transactions is remembered.
LEMMA CheckedStep ==
    ASSUME TypeOK, Launched, Checked, [Next]_vars
    PROVE  Checked'
<1>1. ASSUME NEW q \in Queries, NEW s \in Streams, NEW lo \in Blocks,
             NEW hi \in Blocks, StartQuery(q, s, lo, hi)
      PROVE  Checked'
  BY <1>1 DEF StartQuery, Launched, Checked, Key, environment
<1>2. ASSUME NEW q \in Queries, NEW s \in Streams, ForwardQuery(q, s)
      PROVE  Checked'
  BY <1>2 DEF ForwardQuery, Launched, Checked, Key, environment, routing
<1>3. ASSUME NEW q \in Queries, NEW n \in Nodes, LookUp(q, n) PROVE Checked'
  BY <1>3 DEF LookUp, Checked, Key, environment
<1>4. ASSUME NEW q \in Queries, Group(q) PROVE Checked'
  BY <1>4 DEF Group, Launched, Checked, Key, environment
<1>5. ASSUME NEW q \in Queries, Launch(q) PROVE Checked'
  BY <1>5 DEF Launch, TypeOK, Checked, Key, environment, routing
<1>6. ASSUME NEW q \in Queries, Fail(q) PROVE Checked'
  BY <1>6 DEF Fail, Checked, Key, environment, routing
<1>7. ASSUME NEW q \in Queries, Return(q) PROVE Checked'
  BY <1>7 DEF Return, Checked, Key, environment, routing
<1>8. ASSUME NEW q \in Queries, NEW b \in Blocks, Exists(q, b) PROVE Checked'
  BY <1>8 DEF Exists, LookedUp, Checked, Key, environment, routing
<1>9. ASSUME NEW q \in Queries, NEW b \in Blocks, Fetch(q, b) PROVE Checked'
  BY <1>9 DEF Fetch, Checked, Key, environment, routing
<1>10. ASSUME NEW q \in Queries, NEW b \in Blocks, FetchAtCenter(q, b)
       PROVE  Checked'
  BY <1>10 DEF FetchAtCenter, Checked, Key, environment, routing
<1>11. ASSUME NEW q \in Queries, NEW b \in Blocks, CollectOK(q, b)
       PROVE  Checked'
  BY <1>11 DEF CollectOK, Checked, Key, environment, routing
<1>12. ASSUME NEW q \in Queries, NEW b \in Blocks, RetryAtCenter(q, b)
       PROVE  Checked'
  BY <1>12 DEF RetryAtCenter, Checked, Key, environment, routing
<1>13. ASSUME NEW q \in Queries, NEW b \in Blocks, CollectError(q, b)
       PROVE  Checked'
  BY <1>13 DEF CollectError, Checked, Key, environment, routing
<1>14. ASSUME NEW q \in Queries, NEW b \in Blocks, SubQueryFails(q, b)
       PROVE  Checked'
  BY <1>14 DEF SubQueryFails, Checked, Key, environment, routing
<1>15. ASSUME NEW n \in Nodes, NEW k \in Known \X Blocks, AddBlock(n, k)
       PROVE  Checked'
  BY <1>15 DEF AddBlock, Checked, Key, routing
<1>16. ASSUME NEW n \in Nodes, NEW k \in Known \X Blocks, RemoveBlock(n, k)
       PROVE  Checked'
  BY <1>16 DEF RemoveBlock, Checked, Key, routing
<1>17. ASSUME NEW n \in Nodes, NEW k \in Known \X Blocks, UpdateIndex(n, k)
       PROVE  Checked'
  BY <1>17 DEF UpdateIndex, Checked, Key, routing
<1>18. ASSUME NEW n \in Nodes, NEW s \in Known, CreateTable(n, s)
       PROVE  Checked'
  BY <1>18 DEF CreateTable, Checked, Key, routing
<1>19. ASSUME NEW n \in Nodes, UpdateSchema(n)
       PROVE  Checked'
  BY <1>19 DEF UpdateSchema, Checked, Key, routing
<1>20. ASSUME NEW n \in Nodes, Restart(n)
       PROVE  Checked'
  BY <1>20 DEF Restart, Checked, Key, routing
<1>21. CASE UNCHANGED vars
  BY <1>21 DEF vars, environment, routing, Checked, Key
<1> QED
  BY <1>1, <1>2, <1>3, <1>4, <1>5, <1>6, <1>7, <1>8, <1>9,
     <1>10, <1>11, <1>12, <1>13, <1>14, <1>15, <1>16, <1>17, <1>18,
     <1>19, <1>20, <1>21
  DEF Next, QueryStep

\* The second transaction finds what the first one found, or raced.
LEMMA ServedStep ==
    ASSUME TypeOK, Launched, Checked, Served, [Next]_vars
    PROVE  Served'
<1>1. ASSUME NEW q \in Queries, NEW s \in Streams, NEW lo \in Blocks,
             NEW hi \in Blocks, StartQuery(q, s, lo, hi)
      PROVE  Served'
  BY <1>1 DEF StartQuery, Served
<1>2. ASSUME NEW q \in Queries, NEW s \in Streams, ForwardQuery(q, s)
      PROVE  Served'
  BY <1>2 DEF ForwardQuery, Served
<1>3. ASSUME NEW q \in Queries, NEW n \in Nodes, LookUp(q, n) PROVE Served'
  BY <1>3 DEF LookUp, Served
<1>4. ASSUME NEW q \in Queries, Group(q) PROVE Served'
  BY <1>4 DEF Group, Served
<1>5. ASSUME NEW q \in Queries, Launch(q) PROVE Served'
  BY <1>5 DEF Launch, Served
<1>6. ASSUME NEW q \in Queries, Fail(q) PROVE Served'
  BY <1>6 DEF Fail, Served
<1>7. ASSUME NEW q \in Queries, Return(q) PROVE Served'
  BY <1>7 DEF Return, Served
<1>8. ASSUME NEW q \in Queries, NEW b \in Blocks, Exists(q, b) PROVE Served'
  BY <1>8 DEF Exists, LookedUp, Served
<1>9. ASSUME NEW q \in Queries, NEW b \in Blocks, Fetch(q, b) PROVE Served'
  BY <1>9 DEF Fetch, TypeOK, Checked, Served
<1>10. ASSUME NEW q \in Queries, NEW b \in Blocks, FetchAtCenter(q, b)
       PROVE  Served'
  BY <1>10 DEF FetchAtCenter, TypeOK, Served
<1>11. ASSUME NEW q \in Queries, NEW b \in Blocks, CollectOK(q, b)
       PROVE  Served'
  BY <1>11 DEF CollectOK, Served
<1>12. ASSUME NEW q \in Queries, NEW b \in Blocks, RetryAtCenter(q, b)
       PROVE  Served'
  BY <1>12 DEF RetryAtCenter, Served
<1>13. ASSUME NEW q \in Queries, NEW b \in Blocks, CollectError(q, b)
       PROVE  Served'
  BY <1>13 DEF CollectError, Served
<1>14. ASSUME NEW q \in Queries, NEW b \in Blocks, SubQueryFails(q, b)
       PROVE  Served'
  BY <1>14 DEF SubQueryFails, Served
<1>15. ASSUME NEW n \in Nodes, NEW k \in Known \X Blocks, AddBlock(n, k)
       PROVE  Served'
  BY <1>15 DEF AddBlock, Served
<1>16. ASSUME NEW n \in Nodes, NEW k \in Known \X Blocks, RemoveBlock(n, k)
       PROVE  Served'
  BY <1>16 DEF RemoveBlock, Served
<1>17. ASSUME NEW n \in Nodes, NEW k \in Known \X Blocks, UpdateIndex(n, k)
       PROVE  Served'
  BY <1>17 DEF UpdateIndex, Served
<1>18. ASSUME NEW n \in Nodes, NEW s \in Known, CreateTable(n, s)
       PROVE  Served'
  BY <1>18 DEF CreateTable, Served
<1>19. ASSUME NEW n \in Nodes, UpdateSchema(n)
       PROVE  Served'
  BY <1>19 DEF UpdateSchema, Served
<1>20. ASSUME NEW n \in Nodes, Restart(n)
       PROVE  Served'
  BY <1>20 DEF Restart, Served
<1>21. CASE UNCHANGED vars
  BY <1>21 DEF vars, Served
<1> QED
  BY <1>1, <1>2, <1>3, <1>4, <1>5, <1>6, <1>7, <1>8, <1>9,
     <1>10, <1>11, <1>12, <1>13, <1>14, <1>15, <1>16, <1>17, <1>18,
     <1>19, <1>20, <1>21
  DEF Next, QueryStep

-----------------------------------------------------------------------------
\* Every access is recorded once.

LEMMA InitRecorded == Init => Recorded
BY DEF Init, Recorded, RecordsOf, OwnKey, Keys

\* Only the two fetches record, at the moment the task is answered.
LEMMA RecordedStep ==
    ASSUME TypeOK, Launched, Recorded, [Next]_vars
    PROVE  Recorded'
<1>1. ASSUME NEW q \in Queries, NEW s \in Streams, NEW lo \in Blocks,
             NEW hi \in Blocks, StartQuery(q, s, lo, hi)
      PROVE  Recorded'
  <2> SUFFICES ASSUME NEW p \in Queries, NEW k \in Keys
               PROVE  /\ pc'[p] = "idle" => recorded'[p][k] = 0
                      /\ ~Forwarded(p)' => recorded'[p][k] = RecordsOf(p, k)'
    BY DEF Recorded
  <2>1. k[1] \in Streams /\ k[2] \in Blocks
    BY DEF Keys
  <2>2. CASE p = q
    <3>1. task'[q][k[2]] = "none" /\ recorded'[q][k] = 0
      BY <1>1, <2>1 DEF StartQuery, Launched, Recorded
    <3> QED BY <1>1, <2>1, <2>2, <3>1 DEF StartQuery, RecordsOf
  <2>3. CASE p # q
    BY <1>1, <2>1, <2>3
    DEF StartQuery, Recorded, RecordsOf, OwnKey, Range, Forwarded
  <2> QED BY <2>2, <2>3
<1>2. ASSUME NEW q \in Queries, NEW s \in Streams, ForwardQuery(q, s)
      PROVE  Recorded'
  BY <1>2 DEF ForwardQuery, Recorded, RecordsOf, OwnKey, Range, Forwarded
<1>3. ASSUME NEW q \in Queries, NEW n \in Nodes, LookUp(q, n) PROVE Recorded'
  BY <1>3 DEF LookUp, Recorded, RecordsOf, OwnKey, Range, Forwarded
<1>4. ASSUME NEW q \in Queries, Group(q) PROVE Recorded'
  BY <1>4 DEF Group, Recorded, RecordsOf, OwnKey, Range, Forwarded
<1>5. ASSUME NEW q \in Queries, Launch(q) PROVE Recorded'
  <2> SUFFICES ASSUME NEW p \in Queries, NEW k \in Keys
               PROVE  /\ pc'[p] = "idle" => recorded'[p][k] = 0
                      /\ ~Forwarded(p)' => recorded'[p][k] = RecordsOf(p, k)'
    BY DEF Recorded
  <2>1. k[1] \in Streams /\ k[2] \in Blocks
    BY DEF Keys
  <2>2. CASE p = q
    <3>1. task[q][k[2]] = "none" /\ task'[q][k[2]] # "ok"
      BY <1>5, <2>1 DEF Launch, TypeOK, Launched
    <3>2. ~Forwarded(q) => recorded[q][k] = 0
      BY <3>1 DEF Recorded, RecordsOf
    <3>3. pc'[q] # "idle"
      BY <1>5 DEF Launch
    <3> QED
      BY <1>5, <2>1, <2>2, <3>1, <3>2, <3>3
      DEF Launch, RecordsOf, Forwarded
  <2>3. CASE p # q
    BY <1>5, <2>1, <2>3
    DEF Launch, Recorded, RecordsOf, OwnKey, Range, Forwarded
  <2> QED BY <2>2, <2>3
<1>6. ASSUME NEW q \in Queries, Fail(q) PROVE Recorded'
  BY <1>6 DEF Fail, Recorded, RecordsOf, OwnKey, Range, Forwarded
<1>7. ASSUME NEW q \in Queries, Return(q) PROVE Recorded'
  BY <1>7 DEF Return, Recorded, RecordsOf, OwnKey, Range, Forwarded
<1>8. ASSUME NEW q \in Queries, NEW b \in Blocks, Exists(q, b) PROVE Recorded'
  BY <1>8 DEF Exists, LookedUp, Recorded, RecordsOf, OwnKey, Range, Forwarded
<1>9. ASSUME NEW q \in Queries, NEW b \in Blocks, Fetch(q, b) PROVE Recorded'
  <2> SUFFICES ASSUME NEW p \in Queries, NEW k \in Keys
               PROVE  /\ pc'[p] = "idle" => recorded'[p][k] = 0
                      /\ ~Forwarded(p)' => recorded'[p][k] = RecordsOf(p, k)'
    BY DEF Recorded
  <2>1. k[1] \in Streams /\ k[2] \in Blocks
    BY DEF Keys
  <2>2. CASE p = q /\ k = Key(q, b) /\ ~Forwarded(q)
    <3>1. b \in Range(q) /\ k[2] = b /\ k[1] = query[q].stream
      BY <1>9, <2>2 DEF Fetch, Launched, Key
    <3>2. recorded[q][k] = 0
      BY <1>9, <2>2, <3>1 DEF Fetch, Recorded, RecordsOf
    <3>3. recorded'[q][k] = 1
      BY <1>9, <2>2, <3>1, <3>2
      DEF Fetch, Record, RequestKey, Forwarded, TypeOK
    <3>4. RecordsOf(q, k)' = 1
      BY <1>9, <3>1 DEF Fetch, RecordsOf, OwnKey, Range, TypeOK
    <3>5. pc'[q] # "idle"
      BY <1>9 DEF Fetch, Launched
    <3> QED BY <2>2, <3>3, <3>4, <3>5
  <2>3. CASE p = q /\ k # Key(q, b) /\ ~Forwarded(q)
    <3>1. recorded'[q][k] = recorded[q][k]
      BY <1>9, <2>3 DEF Fetch, Record, RequestKey
    <3>2. OwnKey(q, k) => k[2] # b
      BY <2>3 DEF OwnKey, Key, Keys
    <3>3. RecordsOf(q, k)' = RecordsOf(q, k)
      BY <1>9, <2>1, <3>2 DEF Fetch, RecordsOf, OwnKey, Range
    <3> QED BY <1>9, <2>3, <3>1, <3>3 DEF Fetch, Recorded
  <2>4. CASE p # q
    <3>1. recorded'[p][k] = recorded[p][k]
      BY <1>9, <2>4 DEF Fetch, Record
    <3> QED
      BY <1>9, <2>1, <2>4, <3>1
      DEF Fetch, Recorded, RecordsOf, OwnKey, Range, Forwarded
  <2>5. CASE p = q /\ Forwarded(q)
    BY <1>9, <2>5 DEF Fetch, Launched, Forwarded
  <2> QED BY <2>2, <2>3, <2>4, <2>5
<1>10. ASSUME NEW q \in Queries, NEW b \in Blocks, FetchAtCenter(q, b)
       PROVE  Recorded'
  BY <1>10
  DEF FetchAtCenter, Record, TypeOK, Launched, Recorded, RecordsOf, OwnKey,
      Keys, RequestKey, Range, Key, Forwarded
<1>11. ASSUME NEW q \in Queries, NEW b \in Blocks, CollectOK(q, b)
       PROVE  Recorded'
  BY <1>11 DEF CollectOK, Recorded, RecordsOf, OwnKey, Range, Forwarded
<1>12. ASSUME NEW q \in Queries, NEW b \in Blocks, RetryAtCenter(q, b)
       PROVE  Recorded'
  BY <1>12
  DEF RetryAtCenter, Collecting, Recorded, RecordsOf, OwnKey, Range, Forwarded
<1>13. ASSUME NEW q \in Queries, NEW b \in Blocks, CollectError(q, b)
       PROVE  Recorded'
  BY <1>13 DEF CollectError, Recorded, RecordsOf, OwnKey, Range, Forwarded
<1>14. ASSUME NEW q \in Queries, NEW b \in Blocks, SubQueryFails(q, b)
       PROVE  Recorded'
  BY <1>14 DEF SubQueryFails, Recorded, RecordsOf, OwnKey, Range, Forwarded
<1>15. ASSUME NEW n \in Nodes, NEW k \in Known \X Blocks, AddBlock(n, k)
       PROVE  Recorded'
  BY <1>15 DEF AddBlock, Recorded, RecordsOf, OwnKey, Range, Forwarded
<1>16. ASSUME NEW n \in Nodes, NEW k \in Known \X Blocks, RemoveBlock(n, k)
       PROVE  Recorded'
  BY <1>16 DEF RemoveBlock, Recorded, RecordsOf, OwnKey, Range, Forwarded
<1>17. ASSUME NEW n \in Nodes, NEW k \in Known \X Blocks, UpdateIndex(n, k)
       PROVE  Recorded'
  BY <1>17 DEF UpdateIndex, Recorded, RecordsOf, OwnKey, Range, Forwarded
<1>18. ASSUME NEW n \in Nodes, NEW s \in Known, CreateTable(n, s)
       PROVE  Recorded'
  BY <1>18 DEF CreateTable, Recorded, RecordsOf, OwnKey, Range, Forwarded
<1>19. ASSUME NEW n \in Nodes, UpdateSchema(n)
       PROVE  Recorded'
  BY <1>19 DEF UpdateSchema, Recorded, RecordsOf, OwnKey, Range, Forwarded
<1>20. ASSUME NEW n \in Nodes, Restart(n)
       PROVE  Recorded'
  BY <1>20 DEF Restart, Recorded, RecordsOf, OwnKey, Range, Forwarded
<1>21. CASE UNCHANGED vars
  BY <1>21 DEF vars, Recorded, RecordsOf, OwnKey, Range, Forwarded
<1> QED
  BY <1>1, <1>2, <1>3, <1>4, <1>5, <1>6, <1>7, <1>8, <1>9,
     <1>10, <1>11, <1>12, <1>13, <1>14, <1>15, <1>16, <1>17, <1>18,
     <1>19, <1>20, <1>21
  DEF Next, QueryStep

-----------------------------------------------------------------------------
\* The theorems.

LEMMA InitInv == Init => QueryInv
BY InitTypes, InitRouted, InitAnswers, InitRecorded DEF QueryInv, AnswerInv

LEMMA StepInv == QueryInv /\ [Next]_vars => QueryInv'
BY TypesStep, RoutedStep, FaultedStep, LaunchedStep, CollectedStep, CheckedStep,
   ServedStep, RecordedStep
DEF QueryInv, AnswerInv

\* The inductive invariant holds in every behaviour.
THEOREM InvHolds == Spec => []QueryInv
BY InitInv, StepInv, PTL DEF Spec

\* Every variable keeps its type.
THEOREM TypeCorrect == Spec => []TypeOK
<1>1. QueryInv => TypeOK
  BY DEF QueryInv, AnswerInv
<1> QED
  BY <1>1, InvHolds, PTL

\* An answered query has every block of its range, however stale the index
\* and however many queries share queryMainIndex's map.
THEOREM AnswersCompleteHolds == Spec => []AnswersComplete
<1>1. QueryInv => AnswersComplete
  <2>1. SUFFICES ASSUME QueryInv, NEW q \in Queries, pc[q] = "done",
                        NEW b \in Range(q)
                 PROVE  answer[q][b] = 1 \/ <<q, b>> \in raced
    BY DEF AnswersComplete
  <2>2. b \in Blocks
    BY DEF Range
  <2>3. task[q][b] = "ok"
    BY <2>1 DEF QueryInv, AnswerInv, Collected
  <2> QED
    BY <2>2, <2>3, QueryInv DEF QueryInv, AnswerInv, Served
<1> QED
  BY <1>1, InvHolds, PTL

\* addStatsToReport is reached once for each block of an answered query.
THEOREM AccessRecordedOnceHolds == Spec => []AccessRecordedOnce
<1>1. QueryInv => AccessRecordedOnce
  <2>1. SUFFICES ASSUME QueryInv, NEW q \in Queries, ~Forwarded(q),
                        NEW k \in Keys
                 PROVE  /\ recorded[q][k] <= (IF OwnKey(q, k) THEN 1 ELSE 0)
                        /\ pc[q] = "done" /\ OwnKey(q, k) => recorded[q][k] = 1
    BY DEF AccessRecordedOnce, OwnKey
  <2>2. recorded[q][k] = RecordsOf(q, k)
    BY <2>1 DEF QueryInv, Recorded
  <2>3. pc[q] = "done" /\ OwnKey(q, k) => task[q][k[2]] = "ok"
    BY <2>1 DEF QueryInv, AnswerInv, Collected, OwnKey
  <2> QED
    BY <2>2, <2>3 DEF RecordsOf
<1> QED
  BY <1>1, InvHolds, PTL

\* Without a fault a query fails only if the map named a node without the table
\* or the schema of its stream.
THEOREM FailsOnlyOnFaultHolds == Spec => []FailsOnlyOnFault
<1>1. QueryInv => FailsOnlyOnFault
  BY DEF QueryInv, AnswerInv, Faulted, FailsOnlyOnFault
<1> QED
  BY <1>1, InvHolds, PTL

=============================================================================
