------------------------ MODULE AccessStatisticsProofs ------------------------
(***************************************************************************)
(* The statistics pipeline for any number of edges, accesses, workers and  *)
(* faults and any window: its types, that every access is in one place,    *)
(* that no task outlives its round or runs twice, and that it implements   *)
(* AccessLedger.                                                           *)
(***************************************************************************)
EXTENDS AccessStatistics, FiniteSetTheorems, TLAPS

USE WindowIsPositive, BoundsAreNat, SomeWorker, TasksAreNoStates

-----------------------------------------------------------------------------
\* Where an access is.

Pending(a) == \E e \in Edges : a \in pending[e]
Reported(a) == \E r \in reports : a \in r
Listed(a) == \E b \in Blocks : \E i \in 1..Len(history[b]) : a \in history[b][i]

\* No two places at once.
OnePlace(a) ==
    /\ Pending(a) => ~Reported(a)
    /\ Pending(a) \/ Reported(a) => a \notin current
    /\ Pending(a) \/ Reported(a) \/ a \in current => a \notin period
    /\ Pending(a) \/ Reported(a) \/ a \in current \cup period => ~Listed(a)
    /\ Pending(a) \/ Reported(a) \/ a \in current \cup period \/ Listed(a) => a \notin lost
    /\ Pending(a) \/ Reported(a) \/ a \in current \cup period \cup lost \/ Listed(a) =>
          a \notin expired
SomePlace(a) ==
    Pending(a) \/ Reported(a) \/ Listed(a) \/ a \in current \cup period \cup lost \cup expired

\* Within a place an access occurs once.
OwnEdge == \A e \in Edges : \A a \in pending[e] : EdgeOf(a) = e
OneReport == \A r, s \in reports : r # s => r \cap s = {}
OwnHistory ==
    \A b \in Blocks : \A i \in 1..Len(history[b]) :
       /\ \A a \in history[b][i] : BlockOf(a) = b
       /\ \A j \in 1..Len(history[b]) : i # j => history[b][i] \cap history[b][j] = {}

Made == \A a \in Accesses : SomePlace(a) <=> a <= made
Phases == pc # "update" => period = {}

PlaceInv ==
    /\ Phases /\ Made /\ OwnEdge /\ OneReport /\ OwnHistory
    /\ \A a \in Accesses : OnePlace(a)

-----------------------------------------------------------------------------
\* Where a task is.

InQueue(b) == \E i \in 1..Len(queue) : queue[i] = b
AtWorker(b) == \E w \in Workers : worker[w] = b
WithHistory == {b \in Blocks : history[b] # << >>}

QueuedOnce == \A i, j \in 1..Len(queue) : queue[i] = queue[j] => i = j
RunOnce ==
    \A v, w \in Workers : worker[v] = worker[w] /\ worker[v] \in Blocks => v = w
\* A task is submitted, queued, run and completed, and one of these at a time.
OneStage(b) ==
    /\ InQueue(b) => ~AtWorker(b)
    /\ InQueue(b) \/ AtWorker(b) => b \notin completed
    /\ InQueue(b) \/ AtWorker(b) \/ b \in completed => b \notin toSubmit
\* Tasks wait and run only while their round scores, the tasks of its blocks.
InRound ==
    /\ \A b \in Blocks : InQueue(b) \/ AtWorker(b) => pc = "scoring" /\ b \in WithHistory
    /\ pc = "scoring" => ~stop /\ toSubmit \subseteq WithHistory
    /\ pc \in {"sleep", "update"} => \A w \in Workers : worker[w] = "absent"

TaskInv == QueuedOnce /\ RunOnce /\ (\A b \in Blocks : OneStage(b)) /\ InRound

-----------------------------------------------------------------------------
\* Type correctness.

\* What updateAccessHistory does to the history of one block: nothing, when the
\* period has no access of it; else the period goes to the end, and the oldest
\* entry goes when the window is full.
Fresh(b) == {a \in period : BlockOf(a) = b}

LEMMA TrimmedShape ==
    ASSUME TypeOK, NEW b \in Blocks
    PROVE  /\ Trimmed(b) \in Seq(SUBSET Accesses) /\ Len(Trimmed(b)) <= Window
           /\ Fresh(b) = {} => Trimmed(b) = history[b]
           /\ Fresh(b) # {} =>
                 \E d \in {0, 1} :
                    /\ Len(Trimmed(b)) = Len(history[b]) + 1 - d /\ Len(Trimmed(b)) >= 1
                    /\ \A i \in 1..Len(Trimmed(b)) - 1 : Trimmed(b)[i] = history[b][i + d]
                    /\ Trimmed(b)[Len(Trimmed(b))] = Fresh(b)
<1> DEFINE h == history[b]
           t == Trimmed(b)
           f == Fresh(b)
<1>1. h \in Seq(SUBSET Accesses) /\ Len(h) <= Window /\ f \in SUBSET Accesses
  BY DEF TypeOK, Fresh
<1>2. t = IF Len(IF f = {} THEN h ELSE Append(h, f)) > Window
          THEN Tail(IF f = {} THEN h ELSE Append(h, f))
          ELSE IF f = {} THEN h ELSE Append(h, f)
  BY DEF Trimmed, Appended, Fresh
<1> HIDE DEF h, t, f
<1>3. CASE f = {}
  <2>1. t = h
    BY <1>1, <1>2, <1>3
  <2> QED BY <2>1, <1>1, <1>3 DEF h, t, f
<1>4. CASE f # {} /\ Len(h) < Window
  <2>1. t = Append(h, f)
    BY <1>1, <1>2, <1>4
  <2>2. /\ t \in Seq(SUBSET Accesses) /\ Len(t) = Len(h) + 1 /\ t[Len(t)] = f
        /\ \A i \in 1..Len(h) : t[i] = h[i + 0]
    BY <2>1, <1>1
  <2>3. /\ Len(t) = Len(h) + 1 - 0 /\ Len(t) >= 1 /\ Len(t) <= Window
        /\ \A i \in 1..Len(t) - 1 : t[i] = h[i + 0]
    BY <2>2, <1>1, <1>4
  <2> QED BY <2>2, <2>3, <1>4 DEF h, t, f
<1>5. CASE f # {} /\ Len(h) = Window
  <2>1. t = Tail(Append(h, f))
    BY <1>1, <1>2, <1>5
  <2>2. /\ t \in Seq(SUBSET Accesses) /\ Len(t) = Len(h)
        /\ \A i \in 1..Len(h) : t[i] = Append(h, f)[i + 1]
    BY <2>1, <1>1
  <2>3. /\ Len(t) = Len(h) + 1 - 1 /\ Len(t) >= 1 /\ Len(t) <= Window
        /\ t[Len(t)] = f
        /\ \A i \in 1..Len(t) - 1 : t[i] = h[i + 1]
    BY <2>2, <1>1, <1>5
  <2> QED BY <2>2, <2>3, <1>5 DEF h, t, f
<1> QED BY <1>1, <1>3, <1>4, <1>5

LEMMA TypeInit == Init => TypeOK
<1> SUFFICES ASSUME Init PROVE TypeOK
  OBVIOUS
<1>1. PoolTypeOK
  <2>1. << >> \in Seq(Tasks)
    OBVIOUS
  <2> QED BY <2>1 DEF Init, PoolInit, PoolTypeOK, Resting
<1>2. \A b \in Blocks : history[b] \in Seq(SUBSET Accesses) /\ Len(history[b]) <= Window
  BY DEF Init
<1> QED BY <1>1, <1>2 DEF Init, TypeOK

\* The actions of the pool keep its types, whoever takes them.
PoolAction ==
    \/ Construct \/ BeginDestroy \/ EndDestroy
    \/ \E b \in Blocks : Enqueue(b)
    \/ \E w \in Workers : WorkerStep(w) \/ SpuriousWake(w)
    \/ UNCHANGED pool

LEMMA PoolTypeStep ==
    ASSUME PoolTypeOK, PoolAction
    PROVE  PoolTypeOK'
<1> USE DEF PoolTypeOK, Blocks
<1>1. CASE Construct
  <2>1. << >> \in Seq(Tasks)
    OBVIOUS
  <2> QED BY <1>1, <2>1 DEF Construct, Resting
<1>2. CASE BeginDestroy
  BY <1>2 DEF BeginDestroy, Resting
<1>3. CASE EndDestroy
  BY <1>3 DEF EndDestroy, Resting
<1>4. ASSUME NEW b \in Blocks, Enqueue(b)
      PROVE  PoolTypeOK'
  BY <1>4 DEF Enqueue, NotifyOne, Resting
<1>5. ASSUME NEW w \in Workers, WorkerStep(w) \/ SpuriousWake(w)
      PROVE  PoolTypeOK'
  <2>1. CASE Take(w)
    <3>1. queue # << >> /\ Head(queue) \in Tasks /\ Tail(queue) \in Seq(Tasks)
      BY <2>1 DEF Take
    <3> QED BY <2>1, <3>1 DEF Take
  <2>2. CASE Wait(w) \/ Finish(w) \/ Exit(w) \/ SpuriousWake(w)
    BY <2>2 DEF Wait, Finish, Exit, SpuriousWake, Resting
  <2> QED BY <1>5, <2>1, <2>2 DEF WorkerStep
<1>6. CASE UNCHANGED pool
  BY <1>6 DEF pool
<1> QED BY <1>1, <1>2, <1>3, <1>4, <1>5, <1>6 DEF PoolAction
LEMMA TypeStep == TypeOK /\ [Next]_vars => TypeOK'
<1> SUFFICES ASSUME TypeOK, [Next]_vars PROVE TypeOK'
  OBVIOUS
<1>1. PoolTypeOK
  BY DEF TypeOK
<1>2. \A r \in reports : r \subseteq Accesses
  BY DEF TypeOK
<1>3. CASE AddStats
  <2>1. made + 1 \in Accesses /\ made' \in 0..MaxAccesses
    BY <1>3 DEF AddStats, TypeOK, Accesses
  <2>2. pending' \in [Edges -> SUBSET Accesses]
    BY <1>3, <2>1 DEF AddStats, TypeOK
  <2>3. PoolTypeOK'
    BY <1>1, <1>3, PoolTypeStep DEF AddStats, PoolAction
  <2> QED BY <1>3, <2>1, <2>2, <2>3 DEF AddStats, TypeOK, center
<1>4. ASSUME NEW e \in Edges, Report(e) \/ GiveUp(e) \/ Crash(e)
      PROVE  TypeOK'
  <2>1. PoolTypeOK'
    BY <1>1, <1>4, PoolTypeStep DEF Report, GiveUp, Crash, PoolAction
  <2>2. pending[e] \in SUBSET Accesses
    BY DEF TypeOK
  <2>3. CASE Report(e)
    BY <2>1, <2>2, <2>3 DEF Report, TypeOK, center
  <2>4. CASE GiveUp(e)
    BY <2>1, <2>4 DEF GiveUp, TypeOK, center
  <2>5. CASE Crash(e)
    BY <2>1, <2>2, <2>5 DEF Crash, TypeOK, center
  <2> QED BY <1>4, <2>3, <2>4, <2>5
<1>5. ASSUME NEW r \in reports, ReportStatistics(r) \/ LoseReport(r)
      PROVE  TypeOK'
  <2>1. PoolTypeOK'
    BY <1>1, <1>5, PoolTypeStep DEF ReportStatistics, LoseReport, PoolAction
  <2>2. Answered(r) \in [Edges -> SUBSET Accesses]
    BY DEF TypeOK, Answered
  <2>3. CASE ReportStatistics(r)
    BY <1>2, <2>1, <2>2, <2>3 DEF ReportStatistics, TypeOK
  <2>4. CASE LoseReport(r)
    BY <1>2, <2>1, <2>2, <2>4 DEF LoseReport, TypeOK, center
  <2> QED BY <1>5, <2>3, <2>4
<1>6. CASE CollectPeriodStats
  <2>1. PoolTypeOK'
    BY <1>1, <1>6, PoolTypeStep DEF CollectPeriodStats, PoolAction
  <2> QED BY <1>6, <2>1 DEF CollectPeriodStats, TypeOK, edge
<1>7. CASE UpdateAccessHistory
  <2>1. PoolTypeOK'
    BY <1>1, <1>7, PoolTypeStep DEF UpdateAccessHistory, PoolAction
  <2>2. \A b \in Blocks : history'[b] \in Seq(SUBSET Accesses) /\ Len(history'[b]) <= Window
    BY <1>7, TrimmedShape DEF UpdateAccessHistory
  <2>3. Weighted \subseteq Accesses
    BY DEF TypeOK, Weighted, InHistory
  <2>4. expired' \subseteq Accesses
    BY <1>7, <2>3 DEF UpdateAccessHistory, TypeOK
  <2> QED BY <1>7, <2>1, <2>2, <2>4 DEF UpdateAccessHistory, TypeOK, edge
<1>8. ASSUME NEW b \in Blocks, Submit(b)
      PROVE  TypeOK'
  <2>1. PoolTypeOK'
    BY <1>1, <1>8, PoolTypeStep DEF Submit, PoolAction
  <2> QED BY <1>8, <2>1 DEF Submit, TypeOK, edge
<1>9. CASE FuturesReady \/ EndRound
  <2>1. PoolTypeOK'
    BY <1>1, <1>9, PoolTypeStep DEF FuturesReady, EndRound, PoolAction
  <2> QED BY <1>9, <2>1 DEF FuturesReady, EndRound, TypeOK, edge
<1>10. ASSUME NEW w \in Workers, WorkerStep(w) \/ SpuriousWake(w),
              UNCHANGED <<edge, reports, center, lost, expired, faults>>
       PROVE  TypeOK'
  <2>1. PoolTypeOK'
    BY <1>1, <1>10, PoolTypeStep DEF PoolAction
  <2> QED BY <1>10, <2>1 DEF TypeOK, edge, center
<1>11. CASE UNCHANGED vars
  <2>1. PoolTypeOK'
    BY <1>1, <1>11, PoolTypeStep DEF vars, PoolAction
  <2> QED BY <1>11, <2>1 DEF TypeOK, vars, edge, center
<1> QED
  BY <1>3, <1>4, <1>5, <1>6, <1>7, <1>8, <1>9, <1>10, <1>11
  DEF Next, ReplacementStep, PoolStep

\* Every variable keeps its type; in particular no history grows past its window.
THEOREM TypeCorrect == Spec => []TypeOK
BY TypeInit, TypeStep, PTL DEF Spec
-----------------------------------------------------------------------------
\* The tasks of a round.

\* The number of elements of a set all of whose elements are equal.
LEMMA AtMostOneElement ==
    ASSUME NEW S, \A x, y \in S : x = y
    PROVE  Cardinality(S) = IF S = {} THEN 0 ELSE 1
<1>1. CASE S = {}
  BY <1>1, FS_EmptySet
<1>2. CASE S # {}
  <2>1. PICK x \in S : TRUE
    BY <1>2
  <2>2. S = {x}
    BY <2>1
  <2> QED BY <1>2, <2>2, FS_Singleton
<1> QED BY <1>1, <1>2

LEMMA TaskInit == Init => TaskInv
BY DEF Init, PoolInit, TaskInv, QueuedOnce, RunOnce, OneStage, InRound, InQueue, AtWorker,
       WithHistory, Blocks, Resting

\* A step that leaves the pool, the histories and the tasks to submit alone and
\* is no step of the scoring.
LEMMA TaskFrame ==
    ASSUME TaskInv, UNCHANGED <<pool, history, toSubmit>>,
           pc' = pc \/ (pc = "sleep" /\ pc' = "update")
    PROVE  TaskInv'
BY DEF TaskInv, QueuedOnce, RunOnce, OneStage, InRound, InQueue, AtWorker, WithHistory, pool

\* Waking workers or ending them moves no task.
LEMMA TaskRest ==
    ASSUME TypeOK, TaskInv, UNCHANGED <<queue, completed, history, toSubmit, pc, stop>>,
           pc \notin {"sleep", "update"}, worker' \in [Workers -> Resting \cup Tasks],
           \A w \in Workers : worker'[w] = worker[w] \/ {worker[w], worker'[w]} \subseteq Resting
    PROVE  TaskInv'
<1>1. \A w \in Workers : \A b \in Blocks : worker'[w] = b <=> worker[w] = b
  BY DEF Blocks
<1>2. \A b \in Blocks : (InQueue(b)' <=> InQueue(b)) /\ (AtWorker(b)' <=> AtWorker(b))
  BY <1>1 DEF InQueue, AtWorker
<1>3. RunOnce'
  BY <1>1 DEF TaskInv, RunOnce
<1> QED BY <1>2, <1>3 DEF TaskInv, QueuedOnce, OneStage, InRound, WithHistory

LEMMA TaskTake ==
    ASSUME TypeOK, TaskInv, NEW w \in Workers, Take(w), UNCHANGED center
    PROVE  TaskInv'
<1>1. /\ queue \in Seq(Tasks) /\ queue # << >> /\ worker \in [Workers -> Resting \cup Tasks]
      /\ worker[w] = "ready"
  BY DEF TypeOK, PoolTypeOK, Take
<1>2. /\ Head(queue) = queue[1] /\ 1 \in 1..Len(queue) /\ Head(queue) \in Blocks
      /\ Tail(queue) \in Seq(Tasks) /\ Len(Tail(queue)) = Len(queue) - 1
      /\ \A i \in 1..Len(queue) - 1 : Tail(queue)[i] = queue[i + 1]
  BY <1>1 DEF Blocks
<1>3. worker' = [worker EXCEPT ![w] = queue[1]] /\ queue' = Tail(queue)
  BY <1>2 DEF Take
<1>4. /\ Len(queue') = Len(queue) - 1 /\ Len(queue) \in Nat
      /\ \A i \in 1..Len(queue') : queue'[i] = queue[i + 1] /\ i + 1 \in 1..Len(queue)
  BY <1>1, <1>2, <1>3
<1>5. /\ InQueue(queue[1]) /\ ~AtWorker(queue[1])
      /\ \A b \in Blocks : InQueue(b)' => InQueue(b) /\ b # queue[1]
  BY <1>2, <1>4 DEF InQueue, TaskInv, QueuedOnce, OneStage
<1>6. \A b \in Blocks : AtWorker(b)' => AtWorker(b) \/ b = queue[1]
  BY <1>1, <1>3 DEF AtWorker
<1>7. QueuedOnce'
  BY <1>4 DEF TaskInv, QueuedOnce
<1>8. RunOnce'
  <2> SUFFICES ASSUME NEW u \in Workers, NEW v \in Workers,
                      worker'[u] = worker'[v], worker'[u] \in Blocks
               PROVE  u = v
    BY DEF RunOnce
  <2>1. CASE u # w /\ v # w
    BY <1>1, <1>3, <2>1 DEF TaskInv, RunOnce
  <2>2. CASE u = w /\ v # w
    BY <1>1, <1>3, <1>5, <2>2 DEF AtWorker
  <2>3. CASE u # w /\ v = w
    BY <1>1, <1>3, <1>5, <2>3 DEF AtWorker
  <2> QED BY <2>1, <2>2, <2>3
<1>9. \A b \in Blocks : OneStage(b)'
  BY <1>5, <1>6 DEF TaskInv, OneStage, Take, center
<1>10. InRound'
  BY <1>2, <1>5, <1>6 DEF TaskInv, InRound, Take, center, WithHistory
<1> QED BY <1>7, <1>8, <1>9, <1>10 DEF TaskInv

LEMMA TaskFinish ==
    ASSUME TypeOK, TaskInv, NEW w \in Workers, Finish(w), UNCHANGED center
    PROVE  TaskInv'
<1>1. /\ worker \in [Workers -> Resting \cup Tasks] /\ worker[w] \in Blocks
      /\ worker' = [worker EXCEPT ![w] = "ready"] /\ "ready" \notin Blocks
  BY DEF TypeOK, PoolTypeOK, Finish, Blocks, Resting
<1>2. AtWorker(worker[w])
  BY DEF AtWorker
<1>3. \A b \in Blocks : AtWorker(b)' => AtWorker(b) /\ b # worker[w]
  BY <1>1 DEF AtWorker, TaskInv, RunOnce
<1>4. \A b \in Blocks : InQueue(b)' <=> InQueue(b)
  BY DEF InQueue, Finish
<1>5. RunOnce'
  BY <1>1 DEF TaskInv, RunOnce
<1>6. \A b \in Blocks : OneStage(b)'
  BY <1>1, <1>2, <1>3, <1>4 DEF TaskInv, OneStage, Finish, center
<1>7. InRound'
  BY <1>1, <1>2, <1>3, <1>4 DEF TaskInv, InRound, Finish, center, WithHistory
<1> QED BY <1>5, <1>6, <1>7 DEF TaskInv, QueuedOnce, Finish

LEMMA TaskSubmit ==
    ASSUME TypeOK, TaskInv, NEW c \in Blocks, Submit(c)
    PROVE  TaskInv'
<1>1. /\ queue \in Seq(Tasks) /\ c \in Tasks /\ worker \in [Workers -> Resting \cup Tasks]
      /\ Len(queue) \in Nat
  BY DEF TypeOK, PoolTypeOK, Blocks
<1>2. /\ Len(queue') = Len(queue) + 1 /\ queue'[Len(queue')] = c
      /\ \A i \in 1..Len(queue) : queue'[i] = queue[i]
  BY <1>1 DEF Submit, Enqueue
<1>3. \A w \in Workers : \A b \in Blocks : worker'[w] = b <=> worker[w] = b
  BY <1>1 DEF Submit, Enqueue, NotifyOne, Blocks, Resting
<1>4. \A b \in Blocks : /\ InQueue(b)' => InQueue(b) \/ b = c
                        /\ AtWorker(b)' <=> AtWorker(b)
  BY <1>1, <1>2, <1>3 DEF InQueue, AtWorker
<1>5. /\ ~InQueue(c) /\ ~AtWorker(c) /\ c \notin completed
      /\ pc = "scoring" /\ c \in WithHistory
  BY DEF Submit, TaskInv, OneStage, InRound
<1>6. QueuedOnce'
  BY <1>1, <1>2, <1>5 DEF TaskInv, QueuedOnce, InQueue
<1>7. RunOnce'
  BY <1>3 DEF TaskInv, RunOnce
<1>8. \A b \in Blocks : OneStage(b)'
  BY <1>4, <1>5 DEF TaskInv, OneStage, Submit, Enqueue
<1>9. InRound'
  BY <1>4, <1>5 DEF TaskInv, InRound, Submit, Enqueue, WithHistory
<1> QED BY <1>6, <1>7, <1>8, <1>9 DEF TaskInv

LEMMA TaskStep == TypeOK /\ TaskInv /\ [Next]_vars => TaskInv'
<1> SUFFICES ASSUME TypeOK, TaskInv, [Next]_vars PROVE TaskInv'
  OBVIOUS
<1>1. ASSUME UNCHANGED <<pool, history, toSubmit, pc>>
      PROVE  TaskInv'
  <2>1. UNCHANGED <<pool, history, toSubmit>> /\ pc' = pc
    BY <1>1
  <2> QED BY <2>1, TaskFrame
<1>2. CASE CollectPeriodStats
  BY <1>2, TaskFrame DEF CollectPeriodStats
<1>3. CASE UpdateAccessHistory
  <2>1. /\ pc' = "scoring" /\ queue' = << >> /\ ~stop' /\ completed' = {}
        /\ worker' = [w \in Workers |-> "ready"] /\ toSubmit' = WithHistory'
    BY <1>3 DEF UpdateAccessHistory, Construct, WithHistory
  <2>2. \A w \in Workers : worker'[w] \notin Blocks
    BY <2>1 DEF Blocks, Resting
  <2>3. \A b \in Blocks : ~InQueue(b)' /\ ~AtWorker(b)'
    BY <2>1, <2>2 DEF InQueue, AtWorker
  <2> QED BY <2>1, <2>2, <2>3 DEF TaskInv, QueuedOnce, RunOnce, OneStage, InRound
<1>4. ASSUME NEW b \in Blocks, Submit(b)
      PROVE  TaskInv'
  BY <1>4, TaskSubmit
<1>5. CASE FuturesReady
  <2>1. \A b \in Blocks : ~InQueue(b) /\ ~AtWorker(b)
    BY <1>5 DEF FuturesReady, TaskInv, OneStage, InRound, WithHistory
  <2>2. \A w \in Workers : \A b \in Blocks : worker'[w] = b <=> worker[w] = b
    BY <1>5 DEF FuturesReady, BeginDestroy, Blocks, Resting
  <2>3. \A b \in Blocks : ~InQueue(b)' /\ ~AtWorker(b)'
    BY <1>5, <2>1, <2>2 DEF InQueue, AtWorker, FuturesReady, BeginDestroy
  <2>4. RunOnce'
    BY <2>2 DEF TaskInv, RunOnce
  <2> QED
    BY <1>5, <2>3, <2>4 DEF FuturesReady, BeginDestroy, TaskInv, QueuedOnce, OneStage, InRound
<1>6. CASE EndRound
  <2>1. /\ pc = "joining" /\ pc' = "sleep" /\ worker' = [w \in Workers |-> "absent"]
        /\ UNCHANGED <<queue, completed, history, toSubmit>>
    BY <1>6 DEF EndRound, EndDestroy
  <2>2. \A w \in Workers : worker'[w] \notin Blocks
    BY <2>1 DEF Blocks, Resting
  <2>3. \A b \in Blocks : ~InQueue(b)' /\ ~AtWorker(b)'
    BY <2>1, <2>2 DEF InQueue, AtWorker, TaskInv, InRound
  <2> QED BY <2>1, <2>2, <2>3 DEF TaskInv, QueuedOnce, RunOnce, OneStage, InRound
<1>7. ASSUME NEW w \in Workers, WorkerStep(w) \/ SpuriousWake(w), UNCHANGED center
      PROVE  TaskInv'
  <2>1. CASE Take(w)
    BY <1>7, <2>1, TaskTake
  <2>2. CASE Finish(w)
    BY <1>7, <2>2, TaskFinish
  <2>3. CASE Wait(w) \/ Exit(w) \/ SpuriousWake(w)
    <3>1. worker \in [Workers -> Resting \cup Tasks]
      BY DEF TypeOK, PoolTypeOK
    <3>2. \E x, y \in Resting : worker[w] = x /\ worker' = [worker EXCEPT ![w] = y]
      BY <2>3 DEF Wait, Exit, SpuriousWake, Resting
    <3>3. worker[w] # "absent"
      BY <2>3 DEF Wait, Exit, SpuriousWake
    <3>4. pc \notin {"sleep", "update"}
      BY <3>3 DEF TaskInv, InRound
    <3>5. /\ worker' \in [Workers -> Resting \cup Tasks]
          /\ \A v \in Workers :
                worker'[v] = worker[v] \/ {worker[v], worker'[v]} \subseteq Resting
      BY <3>1, <3>2
    <3>6. UNCHANGED <<queue, completed, history, toSubmit, pc, stop>>
      BY <1>7, <2>3 DEF Wait, Exit, SpuriousWake, center
    <3> QED BY <3>4, <3>5, <3>6, TaskRest
  <2> QED BY <1>7, <2>1, <2>2, <2>3 DEF WorkerStep
<1>8. AddStats => UNCHANGED <<pool, history, toSubmit, pc>>
  BY DEF AddStats, center
<1>9. \A e \in Edges : Report(e) \/ GiveUp(e) \/ Crash(e) =>
                          UNCHANGED <<pool, history, toSubmit, pc>>
  BY DEF Report, GiveUp, Crash, center
<1>10. \A r \in reports : ReportStatistics(r) \/ LoseReport(r) =>
                             UNCHANGED <<pool, history, toSubmit, pc>>
  BY DEF ReportStatistics, LoseReport, center
<1>11. UNCHANGED vars => UNCHANGED <<pool, history, toSubmit, pc>>
  BY DEF vars, center
<1> QED
  BY <1>1, <1>2, <1>3, <1>4, <1>5, <1>6, <1>7, <1>8, <1>9, <1>10, <1>11
  DEF Next, ReplacementStep, PoolStep

LEMMA TaskInvImplies == TypeOK /\ TaskInv => TasksOfRound
<1> SUFFICES ASSUME TypeOK, TaskInv PROVE TasksOfRound
  OBVIOUS
<1>1. queue \in Seq(Tasks)
  BY DEF TypeOK, PoolTypeOK
<1>2. ASSUME NEW b \in Blocks
      PROVE  Cardinality({i \in 1..Len(queue) : queue[i] = b})
             + Cardinality({w \in Workers : worker[w] = b})
             + (IF b \in completed THEN 1 ELSE 0) <= 1
  <2> DEFINE Q == {i \in 1..Len(queue) : queue[i] = b}
             W == {w \in Workers : worker[w] = b}
  <2>1. Cardinality(Q) = IF Q = {} THEN 0 ELSE 1
    <3>1. \A i, j \in Q : i = j
      BY DEF TaskInv, QueuedOnce
    <3> QED BY <3>1, AtMostOneElement
  <2>2. Cardinality(W) = IF W = {} THEN 0 ELSE 1
    <3>1. \A v, w \in W : v = w
      BY DEF TaskInv, RunOnce
    <3> QED BY <3>1, AtMostOneElement
  <2>3. /\ Q # {} => W = {} /\ b \notin completed
        /\ W # {} => b \notin completed
    BY DEF TaskInv, OneStage, InQueue, AtWorker
  <2> QED BY <2>1, <2>2, <2>3
<1>3. pc # "scoring" => queue = << >> /\ Running = {}
  <2> SUFFICES ASSUME pc # "scoring" PROVE queue = << >> /\ Running = {}
    OBVIOUS
  <2>1. \A b \in Blocks : ~InQueue(b) /\ ~AtWorker(b)
    BY DEF TaskInv, InRound
  <2>2. Running = {}
    BY <2>1 DEF Running, AtWorker
  <2>3. Len(queue) = 0
    <3>1. CASE 1 \in 1..Len(queue)
      <4>1. queue[1] \in Blocks
        BY <1>1, <3>1 DEF Blocks
      <4> QED BY <2>1, <3>1, <4>1 DEF InQueue
    <3> QED BY <1>1, <3>1
  <2> QED BY <1>1, <2>2, <2>3
<1>4. pc \in {"sleep", "update"} => \A w \in Workers : worker[w] = "absent"
  BY DEF TaskInv, InRound
<1> QED BY <1>2, <1>3, <1>4 DEF TasksOfRound

\* No task of calculateQCCVs runs twice in a round or after its pool is destroyed,
\* whatever the number of workers, spurious wake-ups included.
THEOREM TasksOfRoundHolds == Spec => []TasksOfRound
<1>1. Init => TypeOK /\ TaskInv
  BY TypeInit, TaskInit
<1>2. (TypeOK /\ TaskInv) /\ [Next]_vars => (TypeOK /\ TaskInv)'
  BY TypeStep, TaskStep
<1> QED BY <1>1, <1>2, TaskInvImplies, PTL DEF Spec
-----------------------------------------------------------------------------
\* The place of an access.

places == <<made, source, pending, reports, current, period, history, lost, expired>>

LEMMA PlaceInit == Init => PlaceInv
<1> SUFFICES ASSUME Init PROVE PlaceInv
  OBVIOUS
<1>1. \A a : ~SomePlace(a)
  BY DEF Init, SomePlace, Pending, Reported, Listed
<1>2. \A a \in Accesses : a > made
  BY DEF Init, Accesses
<1>3. Made
  BY <1>1, <1>2 DEF Made, Init, Accesses
<1>4. \A a \in Accesses : OnePlace(a)
  BY <1>1 DEF SomePlace, OnePlace
<1> QED
  BY <1>3, <1>4 DEF Init, PlaceInv, Phases, OwnEdge, OneReport, OwnHistory

LEMMA PlaceFrame ==
    ASSUME PlaceInv, UNCHANGED places, pc' # "update" => pc # "update" \/ period = {}
    PROVE  PlaceInv'
BY DEF PlaceInv, places, Phases, Made, OwnEdge, OneReport, OwnHistory, OnePlace, SomePlace,
       Pending, Reported, Listed, EdgeOf, BlockOf

\* How a step moves the accesses between the places.
LEMMA PlaceAddStats ==
    ASSUME TypeOK, PlaceInv, AddStats
    PROVE  /\ PlaceInv'
           /\ \A a \in Accesses :
                 /\ Pending(a)' <=> Pending(a) \/ a = made + 1
                 /\ Reported(a)' <=> Reported(a)
                 /\ Listed(a)' <=> Listed(a)
           /\ ~SomePlace(made + 1)
           /\ UNCHANGED <<current, period, lost, expired>>
<1> DEFINE n == made + 1
<1>1. /\ n \in Accesses /\ made \in Nat /\ n > made /\ EdgeOf(n) \in Edges
      /\ pending \in [Edges -> SUBSET Accesses]
  BY DEF TypeOK, AddStats, Accesses, EdgeOf
<1>2. UNCHANGED <<source, reports, current, period, history, pc, lost, expired>> /\ made' = n
  BY DEF AddStats, center
<1>3. \A e \in Edges : pending'[e] = IF e = EdgeOf(n) THEN pending[e] \cup {n} ELSE pending[e]
  BY <1>1 DEF AddStats
<1>4. ~SomePlace(n)
  BY <1>1 DEF PlaceInv, Made
<1>5. \A a \in Accesses : /\ Pending(a)' <=> Pending(a) \/ a = n
                          /\ Reported(a)' <=> Reported(a)
                          /\ Listed(a)' <=> Listed(a)
  BY <1>1, <1>2, <1>3 DEF Pending, Reported, Listed
<1>6. OwnEdge'
  <2>1. \A f \in Edges : \A a \in pending'[f] : a \in pending[f] \/ (a = n /\ f = EdgeOf(n))
    BY <1>3
  <2>2. \A f \in Edges : \A a \in pending'[f] : EdgeOf(a) = f
    BY <2>1 DEF PlaceInv, OwnEdge
  <2> QED BY <1>2, <2>2 DEF OwnEdge, EdgeOf
<1>7. \A a \in Accesses : OnePlace(a)'
  BY <1>2, <1>4, <1>5 DEF PlaceInv, OnePlace, SomePlace
<1>8. Made'
  <2>1. \A a \in Accesses : SomePlace(a)' <=> SomePlace(a) \/ a = n
    BY <1>2, <1>5 DEF SomePlace
  <2>2. \A a \in Accesses : a <= made' <=> a <= made \/ a = n
    BY <1>1, <1>2 DEF Accesses
  <2> QED BY <2>1, <2>2 DEF PlaceInv, Made
<1>9. Phases' /\ OneReport' /\ OwnHistory'
  BY <1>2 DEF PlaceInv, Phases, OneReport, OwnHistory, BlockOf
<1> QED BY <1>2, <1>4, <1>5, <1>6, <1>7, <1>8, <1>9 DEF PlaceInv

LEMMA PlaceReport ==
    ASSUME TypeOK, PlaceInv, NEW e \in Edges, Report(e)
    PROVE  /\ PlaceInv'
           /\ \A a \in Accesses : /\ Pending(a)' \/ Reported(a)' <=> Pending(a) \/ Reported(a)
                                  /\ Listed(a)' <=> Listed(a)
           /\ UNCHANGED <<current, period, lost, expired>>
<1>1. pending \in [Edges -> SUBSET Accesses]
  BY DEF TypeOK
<1>2. UNCHANGED <<made, source, current, period, history, pc, lost, expired>>
  BY DEF Report, center
<1>3. /\ \A f \in Edges : pending'[f] = IF f = e THEN {} ELSE pending[f]
      /\ reports' = reports \cup {pending[e]}
  BY <1>1 DEF Report
<1>4. \A a \in pending[e] : \A f \in Edges : a \in pending[f] => f = e
  BY DEF PlaceInv, OwnEdge
<1>5. \A a \in Accesses : /\ Pending(a)' <=> Pending(a) /\ a \notin pending[e]
                          /\ Reported(a)' <=> Reported(a) \/ a \in pending[e]
                          /\ Listed(a)' <=> Listed(a)
  BY <1>1, <1>2, <1>3, <1>4 DEF Pending, Reported, Listed
<1>6. \A a \in pending[e] : Pending(a) /\ a \in Accesses
  BY <1>1 DEF Pending
<1>7. \A a \in Accesses : OnePlace(a)'
  BY <1>2, <1>5, <1>6 DEF PlaceInv, OnePlace
<1>8. \A a \in Accesses : Pending(a)' \/ Reported(a)' <=> Pending(a) \/ Reported(a)
  BY <1>5, <1>6
<1>9. Made'
  BY <1>2, <1>5, <1>8 DEF PlaceInv, Made, SomePlace
<1>10. OneReport'
  <2>1. \A r \in reports : r \cap pending[e] = {}
    BY <1>6 DEF PlaceInv, OnePlace, Reported
  <2> QED BY <1>3, <2>1 DEF PlaceInv, OneReport
<1>11. OwnEdge'
  <2>1. \A f \in Edges : pending'[f] \subseteq pending[f]
    BY <1>3
  <2> QED BY <1>2, <2>1 DEF PlaceInv, OwnEdge, EdgeOf
<1>12. Phases' /\ OwnHistory'
  BY <1>2 DEF PlaceInv, Phases, OwnHistory, BlockOf
<1> QED BY <1>2, <1>5, <1>7, <1>8, <1>9, <1>10, <1>11, <1>12 DEF PlaceInv

LEMMA PlaceCrash ==
    ASSUME TypeOK, PlaceInv, NEW e \in Edges, Crash(e)
    PROVE  /\ PlaceInv'
           /\ \A a \in Accesses :
                 /\ Pending(a)' <=> Pending(a) /\ a \notin pending[e]
                 /\ Reported(a)' <=> Reported(a)
                 /\ Listed(a)' <=> Listed(a)
                 /\ a \in lost' <=> a \in lost \/ a \in pending[e]
                 /\ a \in pending[e] => Pending(a)
           /\ UNCHANGED <<current, period, expired>>
<1>1. pending \in [Edges -> SUBSET Accesses]
  BY DEF TypeOK
<1>2. UNCHANGED <<made, source, reports, current, period, history, pc, expired>>
  BY DEF Crash, center
<1>3. /\ \A f \in Edges : pending'[f] = IF f = e THEN {} ELSE pending[f]
      /\ lost' = lost \cup pending[e]
  BY <1>1 DEF Crash
<1>4. \A a \in pending[e] : \A f \in Edges : a \in pending[f] => f = e
  BY DEF PlaceInv, OwnEdge
<1>5. \A a \in Accesses : /\ Pending(a)' <=> Pending(a) /\ a \notin pending[e]
                          /\ Reported(a)' <=> Reported(a)
                          /\ Listed(a)' <=> Listed(a)
                          /\ a \in lost' <=> a \in lost \/ a \in pending[e]
                          /\ a \in pending[e] => Pending(a)
  BY <1>1, <1>2, <1>3, <1>4 DEF Pending, Reported, Listed
<1>6. \A a \in Accesses : OnePlace(a)'
  BY <1>2, <1>5 DEF PlaceInv, OnePlace
<1>7. Made'
  BY <1>2, <1>5 DEF PlaceInv, Made, SomePlace
<1>8. OwnEdge'
  <2>1. \A f \in Edges : pending'[f] \subseteq pending[f]
    BY <1>3
  <2> QED BY <1>2, <2>1 DEF PlaceInv, OwnEdge, EdgeOf
<1>9. Phases' /\ OneReport' /\ OwnHistory'
  BY <1>2 DEF PlaceInv, Phases, OneReport, OwnHistory, BlockOf
<1> QED BY <1>2, <1>5, <1>6, <1>7, <1>8, <1>9 DEF PlaceInv

\* A report leaves the network: its accesses go to the current period or are lost.
LEMMA PlaceDelivery ==
    ASSUME TypeOK, PlaceInv, NEW r \in reports, ReportStatistics(r) \/ LoseReport(r)
    PROVE  /\ PlaceInv'
           /\ \A a \in Accesses :
                 /\ Pending(a)' <=> Pending(a)
                 /\ Reported(a)' <=> Reported(a) /\ a \notin r
                 /\ Listed(a)' <=> Listed(a)
                 /\ a \in r => Reported(a)
           /\ \/ current' = current \cup r /\ lost' = lost
              \/ lost' = lost \cup r /\ current' = current
           /\ UNCHANGED <<period, expired>>
<1>1. UNCHANGED <<made, source, pending, period, history, pc, expired>>
  BY DEF ReportStatistics, LoseReport, center
<1>2. /\ reports' = reports \ {r}
      /\ \/ current' = current \cup r /\ lost' = lost
         \/ lost' = lost \cup r /\ current' = current
  BY DEF ReportStatistics, LoseReport, center
<1>3. \A a \in Accesses : /\ Pending(a)' <=> Pending(a)
                          /\ Reported(a)' <=> Reported(a) /\ a \notin r
                          /\ Listed(a)' <=> Listed(a)
                          /\ a \in r => Reported(a)
  BY <1>1, <1>2 DEF Pending, Reported, Listed, PlaceInv, OneReport
<1>4. \A a \in Accesses : OnePlace(a)'
  BY <1>1, <1>2, <1>3 DEF PlaceInv, OnePlace
<1>5. Made'
  BY <1>1, <1>2, <1>3 DEF PlaceInv, Made, SomePlace
<1>6. OwnEdge' /\ Phases' /\ OneReport' /\ OwnHistory'
  BY <1>1, <1>2 DEF PlaceInv, OwnEdge, Phases, OneReport, OwnHistory, EdgeOf, BlockOf
<1> QED BY <1>1, <1>2, <1>3, <1>4, <1>5, <1>6 DEF PlaceInv

LEMMA PlaceCollect ==
    ASSUME TypeOK, PlaceInv, CollectPeriodStats
    PROVE  /\ PlaceInv'
           /\ \A a \in Accesses : /\ Pending(a)' <=> Pending(a)
                                  /\ Reported(a)' <=> Reported(a)
                                  /\ Listed(a)' <=> Listed(a)
           /\ current' \cup period' = current \cup period
           /\ UNCHANGED <<lost, expired>>
<1>1. UNCHANGED <<made, source, pending, reports, history, lost, expired>>
  BY DEF CollectPeriodStats, edge
<1>2. period = {} /\ period' = current /\ current' = {} /\ pc' = "update"
  BY DEF CollectPeriodStats, PlaceInv, Phases
<1>3. \A a \in Accesses : /\ Pending(a)' <=> Pending(a)
                          /\ Reported(a)' <=> Reported(a)
                          /\ Listed(a)' <=> Listed(a)
  BY <1>1 DEF Pending, Reported, Listed
<1>4. \A a \in Accesses : OnePlace(a)'
  BY <1>1, <1>2, <1>3 DEF PlaceInv, OnePlace
<1>5. Made'
  BY <1>1, <1>2, <1>3 DEF PlaceInv, Made, SomePlace
<1>6. OwnEdge' /\ Phases' /\ OneReport' /\ OwnHistory'
  BY <1>1, <1>2 DEF PlaceInv, OwnEdge, Phases, OneReport, OwnHistory, EdgeOf, BlockOf
<1> QED BY <1>1, <1>2, <1>3, <1>4, <1>5, <1>6 DEF PlaceInv
\* updateAccessHistory: the accesses of the period are listed after it, even with
\* the smallest window, and what was listed is still listed or has expired.
LEMMA PlaceUpdate ==
    ASSUME TypeOK, PlaceInv, UpdateAccessHistory
    PROVE  /\ PlaceInv'
           /\ \A a \in Accesses :
                 /\ Pending(a)' <=> Pending(a)
                 /\ Reported(a)' <=> Reported(a)
                 /\ Listed(a)' => Listed(a) \/ a \in period
                 /\ a \in period => Listed(a)'
                 /\ a \in expired' <=>
                       a \in expired \/ ((Listed(a) \/ a \in period) /\ ~Listed(a)')
           /\ period' = {}
           /\ UNCHANGED <<current, lost>>
<1>1. UNCHANGED <<made, source, pending, reports, current, lost>>
  BY DEF UpdateAccessHistory, edge
<1>2. /\ period' = {} /\ pc' = "scoring"
      /\ expired' = expired \cup ((Weighted \cup period) \ Weighted')
      /\ \A b \in Blocks : history'[b] = Trimmed(b)
  BY DEF UpdateAccessHistory
<1>3. ASSUME NEW b \in Blocks
      PROVE  /\ \A i \in 1..Len(history'[b]) :
                   \/ history'[b][i] = Fresh(b)
                   \/ \E k \in 1..Len(history[b]) : history'[b][i] = history[b][k]
             /\ Fresh(b) # {} => \E i \in 1..Len(history'[b]) : history'[b][i] = Fresh(b)
             /\ \A i, j \in 1..Len(history'[b]) :
                   i # j => history'[b][i] \cap history'[b][j] = {}
  <2> DEFINE h == history[b]
             t == history'[b]
  <2>1. /\ Len(h) \in Nat /\ Len(t) \in Nat /\ t = Trimmed(b)
        /\ \A i, j \in 1..Len(h) : i # j => h[i] \cap h[j] = {}
    <3>1. h \in Seq(SUBSET Accesses) /\ t = Trimmed(b)
      BY <1>2 DEF TypeOK
    <3>2. t \in Seq(SUBSET Accesses)
      BY <3>1, TrimmedShape
    <3> QED BY <3>1, <3>2 DEF PlaceInv, OwnHistory
  <2>2. \A i \in 1..Len(h) : h[i] \cap Fresh(b) = {}
    BY DEF Fresh, PlaceInv, OnePlace, Listed, TypeOK
  <2> HIDE DEF h, t
  <2>3. CASE Fresh(b) = {}
    <3>1. t = h
      BY <2>1, <2>3, TrimmedShape DEF h
    <3> QED BY <2>1, <2>3, <3>1 DEF h, t
  <2>4. CASE Fresh(b) # {}
    <3>1. PICK d \in {0, 1} : /\ Len(t) = Len(h) + 1 - d /\ Len(t) >= 1
                              /\ \A i \in 1..Len(t) - 1 : t[i] = h[i + d]
                              /\ t[Len(t)] = Fresh(b)
      BY <2>1, <2>4, TrimmedShape DEF h
    <3>2. \A i \in 1..Len(t) - 1 : i + d \in 1..Len(h)
      BY <2>1, <3>1
    <3>3. ASSUME NEW i \in 1..Len(t), NEW j \in 1..Len(t), i # j
          PROVE  t[i] \cap t[j] = {}
      <4>1. CASE i < Len(t) /\ j < Len(t)
        <5>1. i \in 1..Len(t) - 1 /\ j \in 1..Len(t) - 1 /\ i + d # j + d
          BY <2>1, <3>1, <3>3, <4>1
        <5> QED BY <2>1, <3>1, <3>2, <5>1
      <4>2. CASE i = Len(t) /\ j < Len(t)
        <5>1. j \in 1..Len(t) - 1
          BY <2>1, <4>2
        <5> QED BY <2>2, <3>1, <3>2, <4>2, <5>1 DEF h
      <4>3. CASE i < Len(t) /\ j = Len(t)
        <5>1. i \in 1..Len(t) - 1
          BY <2>1, <4>3
        <5> QED BY <2>2, <3>1, <3>2, <4>3, <5>1 DEF h
      <4> QED BY <2>1, <3>3, <4>1, <4>2, <4>3
    <3>4. \A i \in 1..Len(t) : t[i] = Fresh(b) \/ \E k \in 1..Len(h) : t[i] = h[k]
      <4> SUFFICES ASSUME NEW i \in 1..Len(t), i # Len(t)
                   PROVE  \E k \in 1..Len(h) : t[i] = h[k]
        BY <3>1
      <4>1. i \in 1..Len(t) - 1
        BY <2>1
      <4> QED BY <3>1, <3>2, <4>1
    <3>5. Len(t) \in 1..Len(t)
      BY <2>1, <3>1
    <3> QED BY <3>1, <3>3, <3>4, <3>5 DEF h, t
  <2> QED BY <2>3, <2>4
<1>4. \A a \in Accesses : BlockOf(a) \in Blocks /\ (a \in period => a \in Fresh(BlockOf(a)))
  BY DEF TypeOK, BlockOf, Fresh
<1>5. \A b \in Blocks : \A a \in Fresh(b) : a \in period /\ BlockOf(a) = b
  BY DEF Fresh
<1>6. \A a \in Accesses : Pending(a)' <=> Pending(a)
  BY <1>1 DEF Pending
<1>7. \A a \in Accesses : Reported(a)' <=> Reported(a)
  BY <1>1 DEF Reported
<1>8. \A a \in Accesses : Listed(a)' => Listed(a) \/ a \in period
  <2> SUFFICES ASSUME NEW a \in Accesses, NEW b \in Blocks,
                      NEW i \in 1..Len(history'[b]), a \in history'[b][i]
               PROVE  Listed(a) \/ a \in period
    BY DEF Listed
  <2> QED BY <1>3, <1>5 DEF Listed
<1>9. \A a \in Accesses : a \in period => Listed(a)'
  BY <1>3, <1>4 DEF Listed
<1>10. \A a \in Accesses :
          a \in expired' <=> a \in expired \/ ((Listed(a) \/ a \in period) /\ ~Listed(a)')
  <2>1. \A a : (a \in Weighted <=> Listed(a)) /\ (a \in Weighted' <=> Listed(a)')
    BY DEF Weighted, InHistory, Listed
  <2> QED BY <1>2, <2>1
<1>11. \A a \in Accesses : OnePlace(a)'
  BY <1>1, <1>2, <1>6, <1>7, <1>8, <1>10 DEF PlaceInv, OnePlace
<1>12. Made'
  BY <1>1, <1>2, <1>6, <1>7, <1>8, <1>10 DEF PlaceInv, Made, SomePlace
<1>13. OwnHistory'
  <2>1. ASSUME NEW b \in Blocks, NEW i \in 1..Len(history'[b]), NEW a \in history'[b][i]
        PROVE  BlockOf(a)' = b
    <3>1. BlockOf(a) = b
      BY <1>3, <1>5 DEF PlaceInv, OwnHistory
    <3> QED BY <1>1, <3>1 DEF BlockOf
  <2> QED BY <1>3, <2>1 DEF OwnHistory
<1>14. OwnEdge' /\ Phases' /\ OneReport'
  BY <1>1, <1>2 DEF PlaceInv, OwnEdge, Phases, OneReport, EdgeOf
<1> QED BY <1>1, <1>2, <1>6, <1>7, <1>8, <1>9, <1>10, <1>11, <1>12, <1>13, <1>14 DEF PlaceInv
LEMMA PlaceStep == TypeOK /\ PlaceInv /\ [Next]_vars => PlaceInv'
<1> SUFFICES ASSUME TypeOK, PlaceInv, [Next]_vars PROVE PlaceInv'
  OBVIOUS
<1>1. CASE AddStats
  BY <1>1, PlaceAddStats
<1>2. ASSUME NEW e \in Edges, Report(e)
      PROVE  PlaceInv'
  BY <1>2, PlaceReport
<1>3. ASSUME NEW e \in Edges, Crash(e)
      PROVE  PlaceInv'
  BY <1>3, PlaceCrash
<1>4. ASSUME NEW r \in reports, ReportStatistics(r) \/ LoseReport(r)
      PROVE  PlaceInv'
  BY <1>4, PlaceDelivery
<1>5. CASE CollectPeriodStats
  BY <1>5, PlaceCollect
<1>6. CASE UpdateAccessHistory
  BY <1>6, PlaceUpdate
<1>7. ASSUME UNCHANGED places, pc' = "update" \/ pc = pc' \/ pc # "update"
      PROVE  PlaceInv'
  BY <1>7, PlaceFrame
<1>8. \A e \in Edges : GiveUp(e) => UNCHANGED places /\ pc' = pc
  BY DEF GiveUp, center, places
<1>9. \A b \in Blocks : Submit(b) => UNCHANGED places /\ pc' = pc
  BY DEF Submit, edge, places
<1>10. FuturesReady \/ EndRound => UNCHANGED places /\ pc # "update"
  BY DEF FuturesReady, EndRound, edge, places
<1>11. UNCHANGED <<edge, reports, center, lost, expired, faults>> =>
          UNCHANGED places /\ pc' = pc
  BY DEF edge, center, places
<1>12. UNCHANGED vars => UNCHANGED places /\ pc' = pc
  BY DEF vars, edge, center, places
<1> QED
  BY <1>1, <1>2, <1>3, <1>4, <1>5, <1>6, <1>7, <1>8, <1>9, <1>10, <1>11, <1>12
  DEF Next, ReplacementStep, PoolStep

LEMMA PlaceInvImplies == TypeOK /\ PlaceInv => EachAccessOnce
<1> SUFFICES ASSUME TypeOK, PlaceInv, NEW a \in 1..made
             PROVE  Cardinality({p \in DOMAIN Places : a \in Places[p]})
                    + Cardinality({t \in Blocks \X (1..Window) :
                                     t[2] <= Len(history[t[1]]) /\ a \in history[t[1]][t[2]]}) = 1
  BY DEF EachAccessOnce
<1> DEFINE S == {p \in DOMAIN Places : a \in Places[p]}
           T == {t \in Blocks \X (1..Window) :
                   t[2] <= Len(history[t[1]]) /\ a \in history[t[1]][t[2]]}
<1>1. a \in Accesses /\ SomePlace(a) /\ OnePlace(a)
  BY DEF TypeOK, Accesses, PlaceInv, Made
<1>2. /\ DOMAIN Places = {"pending", "reports", "current", "period", "lost", "expired"}
      /\ a \in Places["pending"] <=> Pending(a)
      /\ a \in Places["reports"] <=> Reported(a)
      /\ Places["current"] = current /\ Places["period"] = period
      /\ Places["lost"] = lost /\ Places["expired"] = expired
  BY DEF Places, Pending, Reported
<1>3. Cardinality(S) = IF S = {} THEN 0 ELSE 1
  <2>1. \A p, q \in S : p = q
    BY <1>1, <1>2 DEF OnePlace
  <2> QED BY <2>1, AtMostOneElement
<1>4. S = {} <=> Listed(a)
  <2>1. S # {} => ~Listed(a)
    BY <1>1, <1>2 DEF OnePlace
  <2>2. S = {} => ~(\/ Pending(a) \/ Reported(a)
                    \/ a \in current \/ a \in period \/ a \in lost \/ a \in expired)
    BY <1>2
  <2>3. S = {} => Listed(a)
    BY <1>1, <2>2 DEF SomePlace
  <2> QED BY <2>1, <2>3
<1>5. \A b \in Blocks : Len(history[b]) \in Nat /\ Len(history[b]) <= Window
  BY DEF TypeOK
<1>6. Cardinality(T) = IF T = {} THEN 0 ELSE 1
  <2>1. ASSUME NEW t \in T, NEW u \in T
        PROVE  t = u
    <3>1. /\ t[1] \in Blocks /\ u[1] \in Blocks /\ t = <<t[1], t[2]>> /\ u = <<u[1], u[2]>>
          /\ t[2] \in 1..Len(history[t[1]]) /\ u[2] \in 1..Len(history[u[1]])
          /\ a \in history[t[1]][t[2]] /\ a \in history[u[1]][u[2]]
      BY <1>5
    <3>2. t[1] = u[1]
      BY <3>1 DEF PlaceInv, OwnHistory
    <3>3. t[2] = u[2]
      BY <3>1, <3>2 DEF PlaceInv, OwnHistory
    <3> QED BY <3>1, <3>2, <3>3
  <2> QED BY <2>1, AtMostOneElement
<1>7. T = {} <=> ~Listed(a)
  <2>1. T # {} => Listed(a)
    BY <1>5 DEF Listed
  <2>2. ASSUME NEW b \in Blocks, NEW i \in 1..Len(history[b]), a \in history[b][i]
        PROVE  T # {}
    <3>1. <<b, i>> \in T
      BY <1>5, <2>2
    <3> QED BY <3>1
  <2> QED BY <2>1, <2>2 DEF Listed
<1> QED BY <1>3, <1>4, <1>6, <1>7

\* Every access a query recorded is in one place of the pipeline, for any number of
\* edges, accesses, faults and periods.
THEOREM EachAccessOnceHolds == Spec => []EachAccessOnce
<1>1. Init => TypeOK /\ PlaceInv
  BY TypeInit, PlaceInit
<1>2. (TypeOK /\ PlaceInv) /\ [Next]_vars => (TypeOK /\ PlaceInv)'
  BY TypeStep, PlaceStep
<1> QED BY <1>1, <1>2, PlaceInvImplies, PTL DEF Spec
-----------------------------------------------------------------------------
\* The refinement of AccessLedger.

\* The standings of an access, by its place, before and after a step.
StandingsAre(a) ==
    /\ Standings(a) \subseteq {"pending", "reported", "weighted", "expired", "lost"}
    /\ "pending" \in Standings(a) <=> Pending(a) \/ Reported(a)
    /\ "reported" \in Standings(a) <=> a \in current \cup period
    /\ "weighted" \in Standings(a) <=> Listed(a)
    /\ "expired" \in Standings(a) <=> a \in expired
    /\ "lost" \in Standings(a) <=> a \in lost

LEMMA StandingsShape == \A a : StandingsAre(a) /\ StandingsAre(a)'
<1> SUFFICES ASSUME NEW a PROVE StandingsAre(a) /\ StandingsAre(a)'
  OBVIOUS
<1>1. a \in Weighted <=> Listed(a)
  BY DEF Weighted, InHistory, Listed
<1>2. a \in Weighted' <=> Listed(a)'
  BY DEF Weighted, InHistory, Listed
<1>3. a \in Places["pending"] \cup Places["reports"] <=> Pending(a) \/ Reported(a)
  BY DEF Places, Pending, Reported
<1>4. a \in Places["pending"]' \cup Places["reports"]' <=> Pending(a)' \/ Reported(a)'
  BY DEF Places, Pending, Reported
<1>5. StandingsAre(a)
  BY <1>1, <1>3 DEF Standings, StandingsAre
<1>6. StandingsAre(a)'
  BY <1>2, <1>4 DEF Standings, StandingsAre
<1> QED BY <1>5, <1>6

\* What a step does to one access, in terms of its places.
Stays(a) ==
    /\ Pending(a)' \/ Reported(a)' <=> Pending(a) \/ Reported(a)
    /\ a \in current' \cup period' <=> a \in current \cup period
    /\ Listed(a)' <=> Listed(a)
    /\ a \in expired' <=> a \in expired
    /\ a \in lost' <=> a \in lost
Moves(a) ==
    \/ ~SomePlace(a) /\ Pending(a)'
    \/ (Pending(a) \/ Reported(a)) /\ a \in current' \cup lost'
    \/ a \in current \cup period /\ Listed(a)'
    \/ Listed(a) /\ a \in expired'

LEMMA StaysOrMoves ==
    ASSUME TypeOK, PlaceInv, [Next]_vars, NEW a \in Accesses
    PROVE  Stays(a) \/ Moves(a)
<1>1. CASE AddStats
  BY <1>1, PlaceAddStats DEF Stays, Moves
<1>2. ASSUME NEW e \in Edges, Report(e)
      PROVE  Stays(a) \/ Moves(a)
  BY <1>2, PlaceReport DEF Stays
<1>3. ASSUME NEW e \in Edges, Crash(e)
      PROVE  Stays(a) \/ Moves(a)
  BY <1>3, PlaceCrash DEF Stays, Moves
<1>4. ASSUME NEW r \in reports, ReportStatistics(r) \/ LoseReport(r)
      PROVE  Stays(a) \/ Moves(a)
  BY <1>4, PlaceDelivery DEF Stays, Moves
<1>5. CASE CollectPeriodStats
  BY <1>5, PlaceCollect DEF Stays
<1>6. CASE UpdateAccessHistory
  BY <1>6, PlaceUpdate DEF Stays, Moves
<1>7. ASSUME UNCHANGED places
      PROVE  Stays(a) \/ Moves(a)
  BY <1>7 DEF Stays, places, Pending, Reported, Listed
<1>8. \A e \in Edges : GiveUp(e) => UNCHANGED places
  BY DEF GiveUp, center, places
<1>9. \A b \in Blocks : Submit(b) => UNCHANGED places
  BY DEF Submit, edge, places
<1>10. FuturesReady \/ EndRound => UNCHANGED places
  BY DEF FuturesReady, EndRound, edge, places
<1>11. UNCHANGED <<edge, reports, center, lost, expired, faults>> => UNCHANGED places
  BY DEF edge, center, places
<1>12. UNCHANGED vars => UNCHANGED places
  BY DEF vars, edge, center, places
<1> QED
  BY <1>1, <1>2, <1>3, <1>4, <1>5, <1>6, <1>7, <1>8, <1>9, <1>10, <1>11, <1>12
  DEF Next, ReplacementStep, PoolStep

LEMMA LedgerInit == Init => Ledger!Init
<1> SUFFICES ASSUME Init, NEW a \in Accesses PROVE Standings(a) = {}
  BY DEF Ledger!Init
<1>1. ~(\/ Pending(a) \/ Reported(a) \/ Listed(a) \/ a \in current \cup period
        \/ a \in expired \/ a \in lost)
  BY DEF Init, Pending, Reported, Listed
<1> QED BY <1>1, StandingsShape DEF StandingsAre

LEMMA LedgerStep ==
    ASSUME TypeOK, PlaceInv, PlaceInv', [Next]_vars
    PROVE  Ledger!Move
<1> SUFFICES ASSUME NEW a \in Accesses
             PROVE  \/ Standings(a)' = Standings(a)
                    \/ <<Standings(a), Standings(a)'>> \in Ledger!Flow
  BY DEF Ledger!Move
<1>1. StandingsAre(a) /\ StandingsAre(a)'
  BY StandingsShape
<1>2. OnePlace(a) /\ OnePlace(a)'
  BY DEF PlaceInv
<1>3. CASE Stays(a)
  BY <1>1, <1>3 DEF Stays, StandingsAre
<1>4. CASE ~SomePlace(a) /\ Pending(a)'
  <2>1. Standings(a) = {}
    BY <1>1, <1>4 DEF StandingsAre, SomePlace
  <2>2. Standings(a)' = {"pending"}
    BY <1>1, <1>2, <1>4 DEF StandingsAre, OnePlace
  <2> QED BY <2>1, <2>2 DEF Ledger!Flow
<1>5. CASE (Pending(a) \/ Reported(a)) /\ a \in current' \cup lost'
  <2>1. Standings(a) = {"pending"}
    BY <1>1, <1>2, <1>5 DEF StandingsAre, OnePlace
  <2>2. Standings(a)' = {"reported"} \/ Standings(a)' = {"lost"}
    BY <1>1, <1>2, <1>5 DEF StandingsAre, OnePlace
  <2> QED BY <2>1, <2>2 DEF Ledger!Flow
<1>6. CASE a \in current \cup period /\ Listed(a)'
  <2>1. Standings(a) = {"reported"}
    BY <1>1, <1>2, <1>6 DEF StandingsAre, OnePlace
  <2>2. Standings(a)' = {"weighted"}
    BY <1>1, <1>2, <1>6 DEF StandingsAre, OnePlace
  <2> QED BY <2>1, <2>2 DEF Ledger!Flow
<1>7. CASE Listed(a) /\ a \in expired'
  <2>1. Standings(a) = {"weighted"}
    BY <1>1, <1>2, <1>7 DEF StandingsAre, OnePlace
  <2>2. Standings(a)' = {"expired"}
    BY <1>1, <1>2, <1>7 DEF StandingsAre, OnePlace
  <2> QED BY <2>1, <2>2 DEF Ledger!Flow
<1>8. Stays(a) \/ Moves(a)
  BY StaysOrMoves
<1> QED BY <1>3, <1>4, <1>5, <1>6, <1>7, <1>8 DEF Moves

\* The pipeline implements AccessLedger: an access is reported at most once, weighted
\* before it expires, lost only before the center has it, and never comes back.
THEOREM ImplementsLedgerHolds == Spec => ImplementsLedger
<1>1. Init => TypeOK /\ PlaceInv
  BY TypeInit, PlaceInit
<1>2. (TypeOK /\ PlaceInv) /\ [Next]_vars => (TypeOK /\ PlaceInv)'
  BY TypeStep, PlaceStep
<1>3. (TypeOK /\ PlaceInv) /\ (TypeOK /\ PlaceInv)' /\ [Next]_vars => Ledger!Move
  BY LedgerStep
<1> QED BY <1>1, <1>2, <1>3, LedgerInit, PTL DEF Spec, ImplementsLedger, Ledger!Spec
====
