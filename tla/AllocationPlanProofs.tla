------------------------- MODULE AllocationPlanProofs -------------------------
(***************************************************************************)
(* Proofs about AllocationPlan, for every set of blocks, nodes and scores, *)
(* every capacity and any number of registrations.                         *)
(***************************************************************************)
EXTENDS AllocationPlan, FiniteSetTheorems, TLAPS

\* The variables are of their types in every reachable state.
LEMMA InitTypeOK == Init => TypeOK
<1> SUFFICES ASSUME Init PROVE TypeOK
  OBVIOUS
<1>1. qccv \in [Blocks -> [Nodes -> Scores]]
  BY DEF Init, Scores
<1>2. addresses \in Seq(Nodes)
  BY DEF Init
<1>3. used \in [Nodes -> 0..Capacity]
  BY CapacityIsNat DEF Init
<1>4. /\ evaluated \in [Blocks -> SUBSET Nodes]
      /\ candidates \in [Blocks -> SUBSET Nodes]
      /\ plan \in [Nodes -> SUBSET Blocks]
  BY DEF Init
<1>5. /\ history \subseteq Blocks
      /\ pc \in {"idle", "scoring", "placing"}
      /\ tasks \subseteq history
      /\ queue \subseteq Blocks \X Nodes
      /\ unordered \in BOOLEAN
      /\ fullNodes \subseteq Nodes
  BY DEF Init
<1> QED BY <1>1, <1>2, <1>3, <1>4, <1>5 DEF TypeOK

LEMMA StepTypeOK == TypeOK /\ [Next]_vars => TypeOK'
<1> SUFFICES ASSUME TypeOK, [Next]_vars PROVE TypeOK'
  OBVIOUS
<1> USE CapacityIsNat DEF TypeOK, Scores
<1>1. ASSUME NEW n \in Nodes, Register(n) PROVE TypeOK'
  BY <1>1 DEF Register, scoring, placing
<1>2. ASSUME NEW accessed \in SUBSET Blocks, StartRound(accessed) PROVE TypeOK'
  BY <1>2 DEF StartRound, placing
<1>3. ASSUME NEW b \in Blocks, ProcessQCCVTask(b) PROVE TypeOK'
  <2>1. Registered \subseteq Nodes
    BY DEF Registered
  <2> QED BY <1>3, <2>1 DEF ProcessQCCVTask, placing
<1>4. ASSUME BuildPriorityQueue PROVE TypeOK'
  <2>1. queue' \subseteq Blocks \X Nodes
    BY <1>4 DEF BuildPriorityQueue
  <2>2. unordered' \in BOOLEAN
    BY <1>4 DEF BuildPriorityQueue
  <2> QED BY <1>4, <2>1, <2>2 DEF BuildPriorityQueue, StartPlan, scoring
<1>5. ASSUME NEW b \in Blocks, NEW n \in Nodes, Place(b, n) PROVE TypeOK'
  BY <1>5 DEF Place, Fits, Remaining, scoring
<1>6. ASSUME NEW b \in Blocks, NEW n \in Nodes, Reject(b, n) PROVE TypeOK'
  <2>1. Remaining(b, n) \subseteq Nodes
    BY DEF Remaining
  <2>2. queue' \subseteq Blocks \X Nodes
    BY <1>6, <2>1 DEF Reject, Best
  <2>3. unordered' \in BOOLEAN
    BY <1>6 DEF Reject
  <2> QED BY <1>6, <2>1, <2>2, <2>3 DEF Reject, scoring
<1>7. ASSUME NEW b \in Blocks, NEW n \in Nodes, StopAllFull(b, n) PROVE TypeOK'
  BY <1>7 DEF StopAllFull, Remaining, scoring, placing
<1>8. ASSUME StopQueueEmpty PROVE TypeOK'
  BY <1>8 DEF StopQueueEmpty, scoring, placing
<1>9. ASSUME UNCHANGED vars PROVE TypeOK'
  BY <1>9 DEF vars, scoring, placing
<1> QED BY <1>1, <1>2, <1>3, <1>4, <1>5, <1>6, <1>7, <1>8, <1>9
        DEF Next, PlanningStep, Pop

THEOREM TypeCorrect == Spec => []TypeOK
  BY InitTypeOK, StepTypeOK, PTL DEF Spec

-----------------------------------------------------------------------------
\* The queue holds at most one entry per block, for a node still open to the
\* block, and none for a block that already has its place.
QueueInv ==
    /\ pc = "scoring" => queue = {}
    /\ \A b \in Blocks, m, n \in Nodes :
          <<b, m>> \in queue /\ <<b, n>> \in queue => m = n
    /\ \A b \in Blocks, n \in Nodes :
          <<b, n>> \in queue => n \in candidates[b] /\ ~Placed(b)

PlanInv == TypeOK /\ QueueInv /\ CapacityRespected /\ SinglePlacement

LEMMA InitPlanInv == Init => PlanInv
<1> SUFFICES ASSUME Init PROVE PlanInv
  OBVIOUS
<1>1. TypeOK
  BY InitTypeOK
<1>2. QueueInv
  BY DEF Init, QueueInv
<1>3. CapacityRespected
  BY FS_EmptySet, CapacityIsNat DEF Init, CapacityRespected
<1>4. SinglePlacement
  BY DEF Init, SinglePlacement
<1> QED BY <1>1, <1>2, <1>3, <1>4 DEF PlanInv

\* A placement adds exactly one block to the node's set.
LEMMA PlaceCounts ==
  ASSUME PlanInv, NEW b \in Blocks, NEW n \in Nodes, Place(b, n)
  PROVE  /\ <<b, n>> \in queue
         /\ b \notin plan[n]
         /\ plan'[n] = plan[n] \cup {b}
         /\ used'[n] = used[n] + 1
         /\ Cardinality(plan'[n]) = Cardinality(plan[n]) + 1
         /\ \A m \in Nodes \ {n} : plan'[m] = plan[m] /\ used'[m] = used[m]
<1>1. <<b, n>> \in queue
  BY DEF Place, Top
<1>2. b \notin plan[n]
  BY <1>1 DEF PlanInv, QueueInv, Placed
<1>3. /\ plan'[n] = plan[n] \cup {b}
      /\ used'[n] = used[n] + 1
      /\ \A m \in Nodes \ {n} : plan'[m] = plan[m] /\ used'[m] = used[m]
  BY DEF Place, PlanInv, TypeOK
<1>4. IsFiniteSet(plan[n])
  BY BlocksFinite, FS_Subset DEF PlanInv, TypeOK
<1>5. Cardinality(plan[n] \cup {b}) = Cardinality(plan[n]) + 1
  BY <1>2, <1>4, FS_AddElement
<1> QED BY <1>1, <1>2, <1>3, <1>5

LEMMA StepPlanInv == PlanInv /\ [Next]_vars => PlanInv'
<1> SUFFICES ASSUME PlanInv, [Next]_vars PROVE PlanInv'
  OBVIOUS
<1>0. TypeOK /\ TypeOK'
  BY StepTypeOK DEF PlanInv
<1>1. ASSUME UNCHANGED <<pc, queue, candidates, plan, used>>
      PROVE  QueueInv' /\ CapacityRespected' /\ SinglePlacement'
  BY <1>1 DEF PlanInv, QueueInv, Placed, CapacityRespected, SinglePlacement
<1>2. ASSUME NEW accessed \in SUBSET Blocks, StartRound(accessed)
      PROVE  QueueInv' /\ CapacityRespected' /\ SinglePlacement'
  BY <1>2 DEF PlanInv, QueueInv, CapacityRespected, SinglePlacement, StartRound, placing
<1>3. ASSUME NEW b \in Blocks, ProcessQCCVTask(b)
      PROVE  QueueInv' /\ CapacityRespected' /\ SinglePlacement'
  BY <1>3 DEF PlanInv, QueueInv, CapacityRespected, SinglePlacement,
              ProcessQCCVTask, placing
<1>4. ASSUME BuildPriorityQueue
      PROVE  QueueInv' /\ CapacityRespected' /\ SinglePlacement'
  <2>1. /\ pc' = "placing"
        /\ candidates' = candidates
        /\ plan' = [n \in Nodes |-> {}]
        /\ used' = [n \in Nodes |-> 0]
    BY <1>4 DEF BuildPriorityQueue, StartPlan
  <2>2. /\ \A b \in Blocks, m, n \in Nodes :
              <<b, m>> \in queue' /\ <<b, n>> \in queue' => m = n
        /\ \A b \in Blocks, n \in Nodes : <<b, n>> \in queue' => n \in candidates[b]
    BY <1>4 DEF BuildPriorityQueue, Best
  <2>3. QueueInv'
    BY <2>1, <2>2 DEF QueueInv, Placed
  <2>4. CapacityRespected'
    BY <2>1, FS_EmptySet, CapacityIsNat DEF CapacityRespected
  <2>5. SinglePlacement'
    BY <2>1 DEF SinglePlacement
  <2> QED BY <2>3, <2>4, <2>5
<1>5. ASSUME NEW b \in Blocks, NEW n \in Nodes, Place(b, n)
      PROVE  QueueInv' /\ CapacityRespected' /\ SinglePlacement'
  <2>1. /\ pc = "placing" /\ pc' = pc
        /\ queue' = queue \ {<<b, n>>}
        /\ \A c \in Blocks \ {b} : candidates'[c] = candidates[c]
    BY <1>0, <1>5 DEF Place, TypeOK
  <2>2. \A m \in Nodes : <<b, m>> \notin queue'
    BY <1>5, <2>1, PlaceCounts DEF PlanInv, QueueInv
  <2>3. \A c \in Blocks \ {b} : Placed(c)' => Placed(c)
    BY <1>5, PlaceCounts DEF Placed
  <2>4. QueueInv'
    BY <2>1, <2>2, <2>3 DEF PlanInv, QueueInv
  <2>5. CapacityRespected'
    <3>1. \A m \in Nodes : used'[m] <= Capacity
      BY <1>0, CapacityIsNat DEF TypeOK
    <3>2. used[n] = Cardinality(plan[n])
      BY DEF PlanInv, CapacityRespected
    <3>3. used'[n] = Cardinality(plan'[n])
      BY <1>5, <3>2, PlaceCounts
    <3>4. ASSUME NEW m \in Nodes \ {n} PROVE used'[m] = Cardinality(plan'[m])
      <4>1. used'[m] = used[m] /\ plan'[m] = plan[m]
        BY <1>5, PlaceCounts
      <4> QED BY <4>1 DEF PlanInv, CapacityRespected
    <3> QED BY <3>1, <3>3, <3>4 DEF CapacityRespected
  <2>6. \A m \in Nodes : b \notin plan[m]
    BY <1>5, PlaceCounts DEF PlanInv, QueueInv, Placed
  <2>7. ASSUME NEW k \in Nodes, NEW m \in Nodes, k # m
        PROVE  plan'[k] \cap plan'[m] = {}
    <3>1. plan[k] \cap plan[m] = {}
      BY <2>7 DEF PlanInv, SinglePlacement
    <3>2. plan'[n] = plan[n] \cup {b} /\ \A l \in Nodes \ {n} : plan'[l] = plan[l]
      BY <1>5, PlaceCounts
    <3>3. CASE k = n
      BY <2>6, <2>7, <3>1, <3>2, <3>3
    <3>4. CASE m = n
      BY <2>6, <2>7, <3>1, <3>2, <3>4
    <3>5. CASE k # n /\ m # n
      BY <3>1, <3>2, <3>5
    <3> QED BY <3>3, <3>4, <3>5
  <2>8. SinglePlacement'
    BY <2>7 DEF SinglePlacement
  <2> QED BY <2>4, <2>5, <2>8
<1>6. ASSUME NEW b \in Blocks, NEW n \in Nodes, Reject(b, n)
      PROVE  QueueInv' /\ CapacityRespected' /\ SinglePlacement'
  <2>1. /\ pc = "placing" /\ pc' = pc
        /\ <<b, n>> \in queue
        /\ plan' = plan /\ used' = used
        /\ candidates'[b] = Remaining(b, n)
        /\ \A c \in Blocks \ {b} : candidates'[c] = candidates[c]
    BY <1>0, <1>6 DEF Reject, Top, TypeOK
  <2>2. \/ queue' = queue \ {<<b, n>>}
        \/ \E m \in Remaining(b, n) : queue' = (queue \ {<<b, n>>}) \cup {<<b, m>>}
    BY <1>6 DEF Reject, Best
  <2>3. \A m \in Nodes : <<b, m>> \in queue => m = n
    BY <2>1 DEF PlanInv, QueueInv
  <2>4. \A c \in Blocks : Placed(c)' <=> Placed(c)
    BY <2>1 DEF Placed
  <2>5. QueueInv'
    BY <2>1, <2>2, <2>3, <2>4 DEF PlanInv, QueueInv
  <2>6. CapacityRespected' /\ SinglePlacement'
    BY <2>1 DEF PlanInv, CapacityRespected, SinglePlacement
  <2> QED BY <2>5, <2>6
<1>7. ASSUME NEW b \in Blocks, NEW n \in Nodes, StopAllFull(b, n)
      PROVE  QueueInv' /\ CapacityRespected' /\ SinglePlacement'
  <2>1. /\ pc' = "idle"
        /\ <<b, n>> \in queue
        /\ queue' = queue \ {<<b, n>>}
        /\ plan' = plan /\ used' = used
        /\ \A c \in Blocks \ {b} : candidates'[c] = candidates[c]
    BY <1>0, <1>7 DEF StopAllFull, Top, TypeOK, placing
  <2>2. \A m \in Nodes : <<b, m>> \notin queue'
    BY <2>1 DEF PlanInv, QueueInv
  <2>3. \A c \in Blocks : Placed(c)' <=> Placed(c)
    BY <2>1 DEF Placed
  <2>4. QueueInv'
    BY <2>1, <2>2, <2>3 DEF PlanInv, QueueInv
  <2>5. CapacityRespected' /\ SinglePlacement'
    BY <2>1 DEF PlanInv, CapacityRespected, SinglePlacement
  <2> QED BY <2>4, <2>5
<1>8. ASSUME StopQueueEmpty
      PROVE  QueueInv' /\ CapacityRespected' /\ SinglePlacement'
  BY <1>8 DEF PlanInv, QueueInv, Placed, CapacityRespected, SinglePlacement,
              StopQueueEmpty, placing
<1>9. (\E n \in Nodes : Register(n)) \/ UNCHANGED vars
         => UNCHANGED <<pc, queue, candidates, plan, used>>
  BY DEF Register, vars, placing
<1>10. QueueInv' /\ CapacityRespected' /\ SinglePlacement'
  BY <1>1, <1>2, <1>3, <1>4, <1>5, <1>6, <1>7, <1>8, <1>9 DEF Next, PlanningStep, Pop
<1> QED BY <1>0, <1>10 DEF PlanInv

LEMMA PlanInvHolds == Spec => []PlanInv
  BY InitPlanInv, StepPlanInv, PTL DEF Spec

\* No node is ever given more blocks than its capacity, and the counter the
\* capacity test reads is the size of the node's plan.
THEOREM CapacityHolds == Spec => []CapacityRespected
<1>1. PlanInv => CapacityRespected
  BY DEF PlanInv
<1> QED BY <1>1, PlanInvHolds, PTL

\* No block is planned for two nodes, however often it is rejected and queued
\* again.
THEOREM SinglePlacementHolds == Spec => []SinglePlacement
<1>1. PlanInv => SinglePlacement
  BY DEF PlanInv
<1> QED BY <1>1, PlanInvHolds, PTL

-----------------------------------------------------------------------------
\* What a round has decided so far.  A candidate struck off a block was taken
\* or was full, and a block that still has candidates is queued.
RoundInv ==
    /\ \A b \in Blocks : candidates[b] \subseteq evaluated[b]
                        /\ evaluated[b] \subseteq Registered
    /\ pc = "scoring" => candidates = evaluated
    /\ fullNodes \subseteq Registered
    /\ pc = "placing" =>
         /\ \A n \in fullNodes : IsFull(n)
         /\ \A b \in Blocks : candidates[b] = {} \/ Placed(b) \/ Queued(b)
         /\ \A b \in Blocks : \A n \in evaluated[b] \ candidates[b] :
               b \in plan[n] \/ IsFull(n)
    /\ pc = "idle" =>
         \A b \in Blocks : Placed(b) \/ \A n \in evaluated[b] : IsFull(n)

AtLeast(x, y) == x # NaN /\ y # NaN /\ x >= y

\* Node n is full of blocks worth at least as much there as b.
FullOfBetter(b, n) == IsFull(n) /\ \A c \in plan[n] : ~Less(qccv[c][n], qccv[b][n])

\* As long as no NaN has entered the heap, choices leave it in the order of
\* their scores: what is placed is worth at least what is still queued.
OrderInv ==
    /\ pc = "placing" /\ ~unordered =>
         /\ \A b \in Blocks, n \in Nodes : <<b, n>> \in queue =>
               /\ qccv[b][n] # NaN
               /\ \A m \in candidates[b] : ~Less(qccv[b][n], qccv[b][m])
         /\ \A b, c \in Blocks, m, n \in Nodes :
               <<b, n>> \in queue /\ c \in plan[m] => AtLeast(qccv[c][m], qccv[b][n])
         /\ \A b \in Blocks, n \in Nodes : b \in plan[n] =>
               \A m \in candidates[b] : ~Less(qccv[b][n], qccv[b][m])
         /\ \A b \in Blocks : \A n \in evaluated[b] \ candidates[b] :
               b \in plan[n] \/ FullOfBetter(b, n)
    /\ pc = "idle" => NoEnvy

\* Scores that are not NaN are totally ordered.
LEMMA ScoreOrder ==
  ASSUME NEW x \in Scores, NEW y \in Scores, NEW z \in Scores
  PROVE  /\ ~Less(x, x)
         /\ AtLeast(x, y) /\ ~Less(y, z) => ~Less(x, z)
         /\ AtLeast(x, y) /\ ~Less(y, z) /\ z # NaN => AtLeast(x, z)
         /\ x # NaN /\ y # NaN /\ ~Less(x, y) => AtLeast(x, y)
  BY ValuesAreNumbers, NaNIsNoNumber DEF Scores, Less, AtLeast

LEMMA ScoreType ==
  ASSUME TypeOK, NEW b \in Blocks, NEW n \in Nodes
  PROVE  qccv[b][n] \in Scores
  BY DEF TypeOK

\* The exit test fires only when every registered node is full, even when the
\* address vector names a node twice.
LEMMA AllFullMeansRegistered ==
  ASSUME TypeOK, fullNodes \subseteq Registered, AllNodesFull
  PROVE  fullNodes = Registered
<1>1. addresses \in [1..Len(addresses) -> Nodes] /\ Len(addresses) \in Nat
  BY DEF TypeOK
<1>2. addresses \in Surjection(1..Len(addresses), Registered)
  BY <1>1 DEF Registered, Surjection
<1>3. Cardinality(Registered) <= Len(addresses)
  BY <1>1, <1>2, FS_SurjCardinalityBound DEF ExistsSurjection
<1>4. IsFiniteSet(Registered)
  BY <1>1, NodesFinite, FS_Subset DEF Registered
<1>5. Cardinality(fullNodes) <= Cardinality(Registered)
  BY <1>4, FS_Subset
<1>6. Cardinality(fullNodes) \in Nat /\ Cardinality(Registered) \in Nat
  BY <1>4, FS_Subset, FS_CardinalityType
<1>7. Cardinality(fullNodes) = Cardinality(Registered)
  BY <1>1, <1>3, <1>5, <1>6 DEF AllNodesFull
<1> QED BY <1>4, <1>7, FS_Subset

\* A node that takes one more block was not full.
LEMMA PlaceNotFull ==
  ASSUME PlanInv, NEW b \in Blocks, NEW n \in Nodes, Place(b, n)
  PROVE  ~IsFull(n) /\ n \notin {m \in Nodes : IsFull(m)}
<1>1. used[n] \in Nat /\ used[n] + 1 <= Capacity /\ used[n] = Cardinality(plan[n])
  BY DEF Place, Fits, PlanInv, TypeOK, CapacityRespected
<1> QED BY <1>1, CapacityIsNat DEF IsFull

LEMMA RejectFull ==
  ASSUME PlanInv, NEW b \in Blocks, NEW n \in Nodes, Reject(b, n)
  PROVE  IsFull(n) /\ <<b, n>> \in queue /\ n \in candidates[b]
<1>1. used[n] \in 0..Capacity /\ ~(used[n] + 1 <= Capacity)
      /\ used[n] = Cardinality(plan[n])
  BY DEF Reject, Fits, PlanInv, TypeOK, CapacityRespected
<1>2. <<b, n>> \in queue
  BY DEF Reject, Top
<1> QED BY <1>1, <1>2, CapacityIsNat DEF IsFull, PlanInv, QueueInv

LEMMA InitRoundInv == Init => RoundInv
  BY DEF Init, RoundInv, Registered

LEMMA StepRoundInv == PlanInv /\ RoundInv /\ [Next]_vars => RoundInv'
<1> SUFFICES ASSUME PlanInv, RoundInv, [Next]_vars PROVE RoundInv'
  OBVIOUS
<1>0. TypeOK /\ TypeOK'
  BY StepTypeOK DEF PlanInv
<1>1. ASSUME NEW n \in Nodes, Register(n) PROVE RoundInv'
  <2>1. Registered \subseteq Registered'
    BY <1>0, <1>1 DEF Register, Registered, TypeOK
  <2> QED BY <1>0, <1>1, <2>1 DEF RoundInv, Register, scoring, placing, IsFull,
                            Placed, Queued, TypeOK
<1>2. ASSUME NEW accessed \in SUBSET Blocks, StartRound(accessed) PROVE RoundInv'
  BY <1>0, <1>2 DEF RoundInv, StartRound, placing, Registered
<1>3. ASSUME NEW b \in Blocks, ProcessQCCVTask(b) PROVE RoundInv'
  <2>1. Registered' = Registered /\ pc = "scoring" /\ pc' = "scoring"
        /\ fullNodes' = fullNodes
    BY <1>3 DEF ProcessQCCVTask, Registered, placing
  <2>2. /\ evaluated' = [evaluated EXCEPT ![b] = Registered]
        /\ candidates' = [candidates EXCEPT ![b] = Registered]
    BY <1>3 DEF ProcessQCCVTask
  <2>3. candidates' = evaluated'
    BY <2>1, <2>2 DEF RoundInv
  <2> QED BY <1>0, <2>1, <2>2, <2>3 DEF RoundInv, TypeOK
<1>4. ASSUME BuildPriorityQueue PROVE RoundInv'
  <2>1. /\ Registered' = Registered
        /\ pc = "scoring" /\ pc' = "placing"
        /\ candidates' = candidates /\ evaluated' = evaluated
        /\ fullNodes' = {}
    BY <1>4 DEF BuildPriorityQueue, StartPlan, Registered, scoring
  <2>2. \A b \in Blocks : candidates[b] # {} => \E n \in Nodes : <<b, n>> \in queue'
    BY <1>4 DEF BuildPriorityQueue
  <2> QED BY <2>1, <2>2 DEF RoundInv, Queued
<1>5. ASSUME NEW b \in Blocks, NEW n \in Nodes, Place(b, n) PROVE RoundInv'
  <2>1. /\ Registered' = Registered
        /\ pc = "placing" /\ pc' = "placing"
        /\ evaluated' = evaluated /\ fullNodes' = fullNodes
        /\ queue' = queue \ {<<b, n>>}
        /\ candidates' = [candidates EXCEPT ![b] = @ \ {n}]
    BY <1>5 DEF Place, Registered, Remaining, scoring
  <2>2. ~IsFull(n) /\ b \in plan'[n] /\ \A m \in Nodes : plan[m] \subseteq plan'[m]
    BY <1>5, PlaceNotFull, PlaceCounts
  <2>3. \A m \in Nodes : IsFull(m) => IsFull(m)'
    BY <1>5, <2>2, PlaceCounts DEF IsFull
  <2>4. \A c \in Blocks : Placed(c) => Placed(c)'
    BY <2>2 DEF Placed
  <2>5. ASSUME NEW c \in Blocks
        PROVE  candidates'[c] = {} \/ Placed(c)' \/ Queued(c)'
    <3>1. CASE c = b
      BY <2>2, <3>1 DEF Placed
    <3>2. CASE c # b
      <4>1. candidates'[c] = candidates[c]
        BY <1>0, <2>1, <3>2 DEF TypeOK
      <4>2. Queued(c) => Queued(c)'
        BY <2>1, <3>2 DEF Queued
      <4> QED BY <2>1, <2>4, <4>1, <4>2 DEF RoundInv
    <3> QED BY <3>1, <3>2
  <2>6. \A c \in Blocks : \A m \in evaluated'[c] \ candidates'[c] :
           c \in plan'[m] \/ IsFull(m)'
    BY <1>0, <2>1, <2>2, <2>3 DEF RoundInv, TypeOK
  <2>7. \A c \in Blocks : candidates'[c] \subseteq evaluated'[c]
                        /\ evaluated'[c] \subseteq Registered'
    BY <1>0, <2>1 DEF RoundInv, TypeOK
  <2>8. fullNodes' \subseteq Registered' /\ \A m \in fullNodes' : IsFull(m)'
    BY <1>0, <2>1, <2>3 DEF RoundInv, TypeOK
  <2> QED BY <2>1, <2>5, <2>6, <2>7, <2>8 DEF RoundInv
<1>6. ASSUME NEW b \in Blocks, NEW n \in Nodes, Reject(b, n) PROVE RoundInv'
  <2>1. /\ Registered' = Registered
        /\ pc = "placing" /\ pc' = "placing"
        /\ evaluated' = evaluated /\ fullNodes' = fullNodes \cup {n}
        /\ plan' = plan
        /\ candidates' = [candidates EXCEPT ![b] = @ \ {n}]
    BY <1>6 DEF Reject, Registered, Remaining, scoring
  <2>2. IsFull(n) /\ n \in candidates[b]
    BY <1>6, RejectFull
  <2>3. /\ \A m \in Nodes : IsFull(m) <=> IsFull(m)'
        /\ \A c \in Blocks : Placed(c) <=> Placed(c)'
    BY <2>1 DEF IsFull, Placed
  <2>4. candidates'[b] = {} \/ Queued(b)'
    BY <1>0, <1>6, <2>1 DEF Reject, Best, Remaining, Queued, TypeOK
  <2>5. \A c \in Blocks \ {b} : Queued(c) => Queued(c)'
    BY <1>6 DEF Reject, Queued
  <2>6. \A c \in Blocks : candidates'[c] = {} \/ Placed(c)' \/ Queued(c)'
    BY <1>0, <2>1, <2>3, <2>4, <2>5 DEF RoundInv, TypeOK
  <2>7. \A c \in Blocks : \A m \in evaluated'[c] \ candidates'[c] :
           c \in plan'[m] \/ IsFull(m)'
    BY <1>0, <2>1, <2>2, <2>3 DEF RoundInv, TypeOK
  <2>8. \A c \in Blocks : candidates'[c] \subseteq evaluated'[c]
                        /\ evaluated'[c] \subseteq Registered'
    BY <1>0, <2>1 DEF RoundInv, TypeOK
  <2>9. fullNodes' \subseteq Registered' /\ \A m \in fullNodes' : IsFull(m)'
    BY <1>0, <2>1, <2>2, <2>3 DEF RoundInv, TypeOK
  <2> QED BY <2>1, <2>6, <2>7, <2>8, <2>9 DEF RoundInv
<1>7. ASSUME NEW b \in Blocks, NEW n \in Nodes, StopAllFull(b, n) PROVE RoundInv'
  <2>1. /\ Registered' = Registered
        /\ pc = "placing" /\ pc' = "idle"
        /\ evaluated' = evaluated /\ fullNodes' = fullNodes
        /\ plan' = plan
        /\ candidates' = [candidates EXCEPT ![b] = @ \ {n}]
    BY <1>7 DEF StopAllFull, Registered, Remaining, scoring, placing
  <2>2. fullNodes = Registered
    BY <1>0, <1>7, AllFullMeansRegistered DEF RoundInv, StopAllFull
  <2>3. \A c \in Blocks : \A m \in evaluated'[c] : IsFull(m)'
    BY <2>1, <2>2 DEF RoundInv, IsFull
  <2>4. \A c \in Blocks : candidates'[c] \subseteq evaluated'[c]
                        /\ evaluated'[c] \subseteq Registered'
    BY <1>0, <2>1 DEF RoundInv, TypeOK
  <2> QED BY <2>1, <2>2, <2>3, <2>4 DEF RoundInv
<1>8. ASSUME StopQueueEmpty PROVE RoundInv'
  <2>1. /\ Registered' = Registered
        /\ pc = "placing" /\ pc' = "idle" /\ queue = {}
        /\ UNCHANGED <<evaluated, fullNodes, plan, candidates>>
    BY <1>8 DEF StopQueueEmpty, Registered, scoring, placing
  <2>2. ASSUME NEW c \in Blocks, ~Placed(c), NEW m \in evaluated[c]
        PROVE  IsFull(m)
    <3>1. ~Queued(c)
      BY <2>1 DEF Queued
    <3>2. candidates[c] = {}
      BY <2>1, <2>2, <3>1 DEF RoundInv
    <3>3. m \in Nodes
      BY <1>0 DEF TypeOK
    <3>4. c \notin plan[m]
      BY <2>2, <3>3 DEF Placed
    <3> QED BY <2>1, <3>2, <3>4 DEF RoundInv
  <2> QED BY <2>1, <2>2 DEF RoundInv, Placed, IsFull
<1>9. ASSUME UNCHANGED vars PROVE RoundInv'
  BY <1>9 DEF vars, scoring, placing, RoundInv, Registered, IsFull, Placed, Queued
<1> QED BY <1>1, <1>2, <1>3, <1>4, <1>5, <1>6, <1>7, <1>8, <1>9
        DEF Next, PlanningStep, Pop

\* No planning round drops a block that could still be cached.
THEOREM NoBlockLostHolds == Spec => []NoBlockLost
<1>1. ASSUME TypeOK, RoundInv PROVE NoBlockLost
  <2>1. ASSUME pc = "placing", NEW b \in history, ~Placed(b), ~Queued(b),
               NEW n \in evaluated[b]
        PROVE  IsFull(n)
    <3>1. b \in Blocks /\ n \in Nodes
      BY <1>1 DEF TypeOK
    <3>2. candidates[b] = {}
      BY <1>1, <2>1, <3>1 DEF RoundInv
    <3>3. b \notin plan[n]
      BY <2>1, <3>1 DEF Placed
    <3> QED BY <1>1, <2>1, <3>1, <3>2, <3>3 DEF RoundInv
  <2>2. ASSUME pc = "idle", NEW b \in history
        PROVE  Placed(b) \/ \A n \in evaluated[b] : IsFull(n)
    BY <1>1, <2>2 DEF TypeOK, RoundInv
  <2> QED BY <2>1, <2>2 DEF NoBlockLost
<1>2. PlanInv => TypeOK
  BY DEF PlanInv
<1> QED BY <1>1, <1>2, InitPlanInv, StepPlanInv, InitRoundInv, StepRoundInv, PTL DEF Spec

-----------------------------------------------------------------------------
LEMMA InitOrderInv == Init => OrderInv
  BY DEF Init, OrderInv, NoEnvy

\* While the heap is ordered, a block that has left the queue envies no other.
LEMMA LeftQueueEnvyFree ==
  ASSUME TypeOK, RoundInv, OrderInv, pc = "placing", ~unordered,
         NEW b \in Blocks, ~Queued(b)
  PROVE  EnvyFree(b)
<1> SUFFICES ASSUME NEW n \in evaluated[b]
             PROVE  \/ \E m \in Nodes : b \in plan[m] /\ ~Less(qccv[b][m], qccv[b][n])
                    \/ FullOfBetter(b, n)
  BY DEF EnvyFree, FullOfBetter
<1>1. n \in Nodes
  BY DEF TypeOK
<1>2. CASE n \in candidates[b]
  <2>1. PICK m \in Nodes : b \in plan[m]
    BY <1>2 DEF RoundInv, Placed
  <2>2. ~Less(qccv[b][m], qccv[b][n])
    BY <1>2, <2>1 DEF OrderInv
  <2> QED BY <2>1, <2>2
<1>3. CASE n \notin candidates[b]
  <2>1. b \in plan[n] \/ FullOfBetter(b, n)
    BY <1>3 DEF OrderInv
  <2>2. ~Less(qccv[b][n], qccv[b][n])
    BY <1>1, ScoreType, ScoreOrder
  <2> QED BY <1>1, <2>1, <2>2
<1> QED BY <1>2, <1>3

\* When every registered node is full, a block that is still queued envies no
\* other either: what is placed left the heap before it.
LEMMA QueuedEnvyFree ==
  ASSUME PlanInv, RoundInv, OrderInv, pc = "placing", ~unordered, AllNodesFull,
         NEW b \in Blocks, Queued(b)
  PROVE  EnvyFree(b)
<1>0. TypeOK
  BY DEF PlanInv
<1>1. PICK k \in Nodes : <<b, k>> \in queue
  BY DEF Queued
<1> SUFFICES ASSUME NEW n \in evaluated[b]
             PROVE  FullOfBetter(b, n)
  BY DEF EnvyFree, FullOfBetter
<1>2. n \in Nodes
  BY <1>0 DEF TypeOK
<1>3. IsFull(n)
  BY <1>0, AllFullMeansRegistered DEF RoundInv
<1>4. CASE n \in candidates[b]
  <2>1. ~Less(qccv[b][k], qccv[b][n])
    BY <1>1, <1>4 DEF OrderInv
  <2>2. ASSUME NEW c \in plan[n] PROVE ~Less(qccv[c][n], qccv[b][n])
    <3>1. c \in Blocks
      BY <1>0, <1>2 DEF TypeOK
    <3>2. AtLeast(qccv[c][n], qccv[b][k])
      BY <1>1, <1>2, <3>1 DEF OrderInv
    <3> QED BY <1>0, <1>2, <2>1, <3>1, <3>2, ScoreType, ScoreOrder
  <2> QED BY <1>3, <2>2 DEF FullOfBetter
<1>5. CASE n \notin candidates[b]
  <2>1. b \notin plan[n]
    BY <1>1, <1>2 DEF PlanInv, QueueInv, Placed
  <2> QED BY <1>5, <2>1 DEF OrderInv
<1> QED BY <1>4, <1>5

LEMMA StepOrderInv ==
  PlanInv /\ RoundInv /\ OrderInv /\ [Next]_vars => OrderInv'
<1> SUFFICES ASSUME PlanInv, RoundInv, OrderInv, [Next]_vars PROVE OrderInv'
  OBVIOUS
<1>0. TypeOK /\ TypeOK'
  BY StepTypeOK DEF PlanInv
<1>1. ASSUME UNCHANGED <<history, pc, evaluated, qccv, candidates, queue,
                         unordered, plan>>
      PROVE  OrderInv'
  BY <1>1 DEF OrderInv, NoEnvy, Settled, EnvyFree, FullOfBetter, IsFull, Queued
<1>2. ASSUME pc' = "scoring" PROVE OrderInv'
  BY <1>2 DEF OrderInv
<1>3. ASSUME BuildPriorityQueue PROVE OrderInv'
  <2>1. /\ pc = "scoring" /\ pc' = "placing"
        /\ candidates' = candidates /\ evaluated' = evaluated /\ qccv' = qccv
        /\ plan' = [n \in Nodes |-> {}]
    BY <1>3 DEF BuildPriorityQueue, StartPlan, scoring
  <2>2. candidates' = evaluated'
    BY <2>1 DEF RoundInv
  <2>3. ASSUME ~unordered', NEW b \in Blocks, NEW n \in Nodes, <<b, n>> \in queue'
        PROVE  /\ qccv[b][n] # NaN
               /\ \A m \in candidates[b] : ~Less(qccv[b][n], qccv[b][m])
    BY <1>3, <2>3 DEF BuildPriorityQueue, Best
  <2> QED BY <2>1, <2>2, <2>3 DEF OrderInv
<1>4. ASSUME NEW b \in Blocks, NEW n \in Nodes, Place(b, n), ~unordered
      PROVE  OrderInv'
  <2>1. /\ pc = "placing" /\ pc' = "placing"
        /\ UNCHANGED <<evaluated, qccv>>
        /\ queue' = queue \ {<<b, n>>}
        /\ candidates' = [candidates EXCEPT ![b] = @ \ {n}]
    BY <1>4 DEF Place, Remaining, scoring
  <2>2. \A c \in Blocks : candidates'[c] \subseteq candidates[c]
    BY <1>0, <2>1 DEF TypeOK
  <2>3. \A c \in Blocks, m \in Nodes :
           <<c, m>> \in queue => ~Less(qccv[b][n], qccv[c][m])
    BY <1>4 DEF Place, Top, Score
  <2>4. /\ <<b, n>> \in queue
        /\ plan'[n] = plan[n] \cup {b}
        /\ \A m \in Nodes \ {n} : plan'[m] = plan[m]
    BY <1>4, PlaceCounts
  <2>5. qccv[b][n] # NaN /\ \A m \in candidates[b] : ~Less(qccv[b][n], qccv[b][m])
    BY <1>4, <2>1, <2>4 DEF OrderInv
  <2>6. ASSUME NEW c \in Blocks, NEW m \in Nodes, <<c, m>> \in queue'
        PROVE  /\ qccv[c][m] # NaN
               /\ \A k \in candidates'[c] : ~Less(qccv[c][m], qccv[c][k])
    BY <1>4, <2>1, <2>2, <2>6 DEF OrderInv
  <2>7. ASSUME NEW c \in Blocks, NEW d \in Blocks, NEW l \in Nodes, NEW m \in Nodes,
               <<c, m>> \in queue', d \in plan'[l]
        PROVE  AtLeast(qccv[d][l], qccv[c][m])
    <3>1. <<c, m>> \in queue
      BY <2>1, <2>7
    <3>2. CASE d \in plan[l]
      BY <1>4, <2>1, <3>1, <3>2 DEF OrderInv
    <3>3. CASE d = b /\ l = n
      <4>1. ~Less(qccv[b][n], qccv[c][m]) /\ qccv[c][m] # NaN
        BY <2>3, <2>6, <2>7, <3>1
      <4> QED BY <1>0, <2>5, <3>3, <4>1, ScoreType, ScoreOrder
    <3> QED BY <2>4, <2>7, <3>2, <3>3
  <2>8. ASSUME NEW c \in Blocks, NEW l \in Nodes, c \in plan'[l],
               NEW m \in candidates'[c]
        PROVE  ~Less(qccv[c][l], qccv[c][m])
    <3>1. m \in candidates[c]
      BY <2>2
    <3>2. CASE c \in plan[l]
      BY <1>4, <2>1, <3>1, <3>2 DEF OrderInv
    <3>3. CASE c = b /\ l = n
      BY <2>5, <3>1, <3>3
    <3> QED BY <2>4, <2>8, <3>2, <3>3
  <2>9. ASSUME NEW c \in Blocks, NEW m \in evaluated[c] \ candidates'[c]
        PROVE  c \in plan'[m] \/ FullOfBetter(c, m)'
    <3>1. m \in Nodes
      BY <1>0 DEF TypeOK
    <3>2. CASE c = b /\ m = n
      BY <2>4, <3>2
    <3>3. CASE ~(c = b /\ m = n)
      <4>1. m \notin candidates[c]
        BY <1>0, <2>1, <2>9, <3>3 DEF TypeOK
      <4>2. c \in plan[m] \/ FullOfBetter(c, m)
        BY <1>4, <2>1, <4>1 DEF OrderInv
      <4>3. FullOfBetter(c, m) => plan'[m] = plan[m]
        BY <1>4, <2>4, <3>1, PlaceNotFull DEF FullOfBetter
      <4> QED BY <2>1, <2>4, <3>1, <4>2, <4>3 DEF FullOfBetter, IsFull
    <3> QED BY <3>2, <3>3
  <2> QED BY <2>1, <2>6, <2>7, <2>8, <2>9 DEF OrderInv
<1>5. ASSUME NEW b \in Blocks, NEW n \in Nodes, Reject(b, n), ~unordered'
      PROVE  OrderInv'
  <2>1. /\ pc = "placing" /\ pc' = "placing" /\ ~unordered
        /\ UNCHANGED <<evaluated, qccv, plan>>
        /\ candidates' = [candidates EXCEPT ![b] = @ \ {n}]
    BY <1>0, <1>5 DEF Reject, Remaining, scoring, TypeOK
  <2>2. \A c \in Blocks : candidates'[c] \subseteq candidates[c]
    BY <1>0, <2>1 DEF TypeOK
  <2>3. IsFull(n) /\ <<b, n>> \in queue /\ n \in candidates[b]
    BY <1>5, RejectFull
  <2>4. ASSUME NEW c \in Blocks, NEW m \in Nodes, <<c, m>> \in queue', <<c, m>> \notin queue
        PROVE  /\ c = b /\ m \in candidates'[b]
               /\ qccv[c][m] # NaN
               /\ \A k \in candidates'[c] : ~Less(qccv[c][m], qccv[c][k])
    BY <1>0, <1>5, <2>1, <2>4 DEF Reject, Best, Remaining, TypeOK
  <2>5. ASSUME NEW c \in Blocks, NEW m \in Nodes, <<c, m>> \in queue'
        PROVE  /\ qccv[c][m] # NaN
               /\ \A k \in candidates'[c] : ~Less(qccv[c][m], qccv[c][k])
    <3>1. CASE <<c, m>> \in queue
      BY <2>1, <2>2, <3>1 DEF OrderInv
    <3>2. CASE <<c, m>> \notin queue
      BY <2>4, <2>5, <3>2
    <3> QED BY <3>1, <3>2
  <2>6. ASSUME NEW c \in Blocks, NEW d \in Blocks, NEW l \in Nodes, NEW m \in Nodes,
               <<c, m>> \in queue', d \in plan[l]
        PROVE  AtLeast(qccv[d][l], qccv[c][m])
    <3>1. CASE <<c, m>> \in queue
      BY <2>1, <2>6, <3>1 DEF OrderInv
    <3>2. CASE <<c, m>> \notin queue
      <4>1. c = b /\ m \in candidates[b] /\ qccv[b][m] # NaN
        BY <2>2, <2>4, <2>6, <3>2
      <4>2. ~Less(qccv[b][n], qccv[b][m])
        BY <2>1, <2>3, <4>1 DEF OrderInv
      <4>3. AtLeast(qccv[d][l], qccv[b][n])
        BY <2>1, <2>3, <2>6 DEF OrderInv
      <4> QED BY <1>0, <4>1, <4>2, <4>3, ScoreType, ScoreOrder
    <3> QED BY <3>1, <3>2
  <2>7. ASSUME NEW c \in Blocks, NEW l \in Nodes, c \in plan[l],
               NEW m \in candidates'[c]
        PROVE  ~Less(qccv[c][l], qccv[c][m])
    BY <2>1, <2>2, <2>7 DEF OrderInv
  <2>8. FullOfBetter(b, n)
    <3>1. ASSUME NEW c \in plan[n] PROVE ~Less(qccv[c][n], qccv[b][n])
      <4>1. c \in Blocks
        BY <1>0 DEF TypeOK
      <4>2. AtLeast(qccv[c][n], qccv[b][n])
        BY <2>1, <2>3, <4>1 DEF OrderInv
      <4>3. ~Less(qccv[b][n], qccv[b][n])
        BY <1>0, ScoreType, ScoreOrder
      <4> QED BY <1>0, <4>1, <4>2, <4>3, ScoreType, ScoreOrder
    <3> QED BY <2>3, <3>1 DEF FullOfBetter
  <2>9. ASSUME NEW c \in Blocks, NEW m \in evaluated[c] \ candidates'[c]
        PROVE  c \in plan[m] \/ FullOfBetter(c, m)
    <3>1. CASE c = b /\ m = n
      BY <2>8, <3>1
    <3>2. CASE ~(c = b /\ m = n)
      <4>1. m \notin candidates[c]
        BY <1>0, <2>1, <2>9, <3>2 DEF TypeOK
      <4> QED BY <2>1, <4>1 DEF OrderInv
    <3> QED BY <3>1, <3>2
  <2>10. \A c \in Blocks, m \in Nodes : FullOfBetter(c, m) => FullOfBetter(c, m)'
    BY <2>1 DEF FullOfBetter, IsFull
  <2>11. \A c \in Blocks : \A m \in evaluated'[c] : m \in Nodes
    BY <1>0 DEF TypeOK
  <2> QED BY <2>1, <2>5, <2>6, <2>7, <2>9, <2>10, <2>11 DEF OrderInv
<1>6. ASSUME pc = "placing", pc' = "idle",
             UNCHANGED <<history, evaluated, qccv, unordered, plan>>,
             ~unordered => \A b \in Blocks : EnvyFree(b)
      PROVE  OrderInv'
  <2>1. \A b \in Blocks : EnvyFree(b) => EnvyFree(b)'
    BY <1>6 DEF EnvyFree, IsFull
  <2>2. history' \subseteq Blocks
    BY <1>0 DEF TypeOK
  <2> QED BY <1>6, <2>1, <2>2 DEF OrderInv, NoEnvy
<1>7. ASSUME NEW b \in Blocks, NEW n \in Nodes, StopAllFull(b, n) PROVE OrderInv'
  <2>1. pc = "placing" /\ AllNodesFull
    BY <1>7 DEF StopAllFull
  <2>2. ~unordered => \A c \in Blocks : EnvyFree(c)
    BY <1>0, <2>1, LeftQueueEnvyFree, QueuedEnvyFree
  <2> QED BY <1>6, <1>7, <2>2 DEF StopAllFull, scoring, placing
<1>8. ASSUME StopQueueEmpty PROVE OrderInv'
  <2>1. pc = "placing" /\ \A c \in Blocks : ~Queued(c)
    BY <1>8 DEF StopQueueEmpty, Queued
  <2>2. ~unordered => \A c \in Blocks : EnvyFree(c)
    BY <1>0, <2>1, LeftQueueEnvyFree
  <2> QED BY <1>6, <1>8, <2>2 DEF StopQueueEmpty, scoring, placing
<1>9. ASSUME pc = "placing", pc' = "placing", unordered' PROVE OrderInv'
  BY <1>9 DEF OrderInv
<1>10. ASSUME NEW b \in Blocks, NEW n \in Nodes, Place(b, n) \/ Reject(b, n)
       PROVE  OrderInv'
  <2>1. pc = "placing" /\ pc' = "placing"
    BY <1>10 DEF Place, Reject
  <2>2. Place(b, n) => unordered' = unordered
    BY DEF Place
  <2> QED BY <1>4, <1>5, <1>9, <1>10, <2>1, <2>2
<1>11. (\E n \in Nodes : Register(n)) \/ UNCHANGED vars
          => UNCHANGED <<history, pc, evaluated, qccv, candidates, queue, unordered, plan>>
  BY DEF Register, vars, scoring, placing
<1>12. /\ \A accessed \in SUBSET Blocks : StartRound(accessed) => pc' = "scoring"
       /\ \A b \in Blocks : ProcessQCCVTask(b) => pc' = "scoring"
  BY DEF StartRound, ProcessQCCVTask
<1> QED BY <1>1, <1>2, <1>3, <1>7, <1>8, <1>10, <1>11, <1>12 DEF Next, PlanningStep, Pop

\* Greedy placement is stable in every round whose heap no NaN has entered.
THEOREM NoEnvyHolds == Spec => []NoEnvy
<1>1. ASSUME PlanInv, RoundInv, OrderInv PROVE NoEnvy
  <2>1. TypeOK
    BY <1>1 DEF PlanInv
  <2>2. ASSUME ~unordered, pc = "placing", NEW b \in history, ~Queued(b)
        PROVE  EnvyFree(b)
    BY <1>1, <2>1, <2>2, LeftQueueEnvyFree DEF TypeOK
  <2>3. CASE pc = "idle"
    BY <1>1, <2>3 DEF OrderInv
  <2>4. CASE pc # "idle"
    BY <2>2, <2>4 DEF NoEnvy, Settled
  <2> QED BY <2>3, <2>4
<1> QED BY <1>1, InitPlanInv, StepPlanInv, InitRoundInv, StepRoundInv,
           InitOrderInv, StepOrderInv, PTL DEF Spec
=============================================================================
