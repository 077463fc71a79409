---------------------------- MODULE ConnectionPool ----------------------------
(***************************************************************************)
(* DBConnectionPool as the center's handlers use it: SubQuery and          *)
(* initializeSchema take a connection before their try block, return it at *)
(* the end of the block and, when anything in the block throws, return it  *)
(* in the catch block.  A connection found closed is replaced; connecting  *)
(* may fail, and the exception leaves getConnection or returnConnection    *)
(* with the mutex released and the queue one connection shorter.           *)
(*                                                                         *)
(* Every section under mutex_ is one action.  wait_for is split where it   *)
(* releases the mutex: a caller that is blocked is woken by notify_one or  *)
(* for no reason, and only then looks at the queue, which another caller   *)
(* may have emptied; after its deadline it looks a last time.              *)
(* Abstracted: which connection it is, and when it breaks; is_open and     *)
(* createNewConnection may have either outcome at any time.                *)
(***************************************************************************)
EXTENDS Integers, FiniteSets

CONSTANTS
    Callers,       \* threads of the center that use the pool
    PoolSize       \* pool_size

ASSUME CallersFinite == IsFiniteSet(Callers)
ASSUME PoolSizeIsNat == PoolSize \in Nat

VARIABLES
    idle,          \* connections_.size()
    pc,            \* where each caller is
    lost           \* history: connections dropped and never replaced

vars == <<idle, pc, lost>>

At(places) == {t \in Callers : pc[t] \in places}
Holding == At({"using", "catch"})
Awake == At({"woken", "expired"})

Init ==
    /\ idle = PoolSize
    /\ pc = [t \in Callers |-> "out"]
    /\ lost = 0

-----------------------------------------------------------------------------
\* getConnection: the predicate holds; the connection is open or is replaced.
Take(t) ==
    /\ pc[t] \in {"out", "woken", "expired"}
    /\ idle > 0
    /\ idle' = idle - 1
    /\ pc' = [pc EXCEPT ![t] = "using"]
    /\ UNCHANGED lost

\* The connection is popped, found closed and cannot be replaced.
TakeFails(t) ==
    /\ pc[t] \in {"out", "woken", "expired"}
    /\ idle > 0
    /\ idle' = idle - 1
    /\ pc' = [pc EXCEPT ![t] = "out"]
    /\ lost' = lost + 1

\* The predicate does not hold: the caller waits on cv_.
Block(t) ==
    /\ pc[t] \in {"out", "woken"}
    /\ idle = 0
    /\ pc' = [pc EXCEPT ![t] = "blocked"]
    /\ UNCHANGED <<idle, lost>>

SpuriousWake(t) ==
    /\ pc[t] = "blocked"
    /\ pc' = [pc EXCEPT ![t] = "woken"]
    /\ UNCHANGED <<idle, lost>>

\* Five seconds are over.
Deadline(t) ==
    /\ pc[t] = "blocked"
    /\ pc' = [pc EXCEPT ![t] = "expired"]
    /\ UNCHANGED <<idle, lost>>

\* "Timeout waiting for database connection".
\* Mutant: the wait is resumed instead.
ResumeWait(t) ==
    /\ pc[t] = "expired"
    /\ idle = 0
    /\ pc' = [pc EXCEPT ![t] = "blocked"]
    /\ UNCHANGED <<idle, lost>>
TimeOut(t) ==
    /\ pc[t] = "expired"
    /\ idle = 0
    /\ pc' = [pc EXCEPT ![t] = "out"]
    /\ UNCHANGED <<idle, lost>>

-----------------------------------------------------------------------------
\* The transaction throws, or returning the connection does because it is
\* closed and cannot be replaced: control passes to the catch block.
EnterCatch(t) ==
    /\ pc[t] = "using"
    /\ pc' = [pc EXCEPT ![t] = "catch"]
    /\ UNCHANGED <<idle, lost>>

\* cv_.notify_one() after t has left for `place'.
\* Mutant: nobody is notified.
LeaveSilently(t, place) == pc' = [pc EXCEPT ![t] = place]
Leave(t, place) ==
    IF At({"blocked"}) = {} THEN pc' = [pc EXCEPT ![t] = place]
    ELSE \E s \in At({"blocked"}) : pc' = [pc EXCEPT ![t] = place, ![s] = "woken"]

\* returnConnection: the connection, or its replacement, is pushed.
\* Mutant: a caller runs into its catch block although it has returned the
\* connection.
ReturnTwice(t) ==
    /\ pc[t] \in {"using", "catch"}
    /\ idle' = idle + 1
    /\ Leave(t, IF pc[t] = "using" THEN "catch" ELSE "out")
    /\ UNCHANGED lost
Return(t) ==
    /\ pc[t] \in {"using", "catch"}
    /\ idle' = idle + 1
    /\ Leave(t, "out")
    /\ UNCHANGED lost

\* The catch block cannot replace the connection either: the exception leaves
\* the handler.
ReturnFails(t) ==
    /\ pc[t] = "catch"
    /\ pc' = [pc EXCEPT ![t] = "out"]
    /\ lost' = lost + 1
    /\ UNCHANGED idle

-----------------------------------------------------------------------------
Get(t) ==
    Take(t) \/ TakeFails(t) \/ Block(t) \/ SpuriousWake(t) \/ Deadline(t) \/ TimeOut(t)
Next == \E t \in Callers : Get(t) \/ EnterCatch(t) \/ Return(t) \/ ReturnFails(t)

Spec == Init /\ [][Next]_vars

\* A caller that is awake looks at the queue, and deadlines pass however often
\* the caller is woken in vain.  Nobody is obliged to return a connection soon.
FairSpec ==
    /\ Spec
    /\ \A t \in Callers :
          /\ SF_vars(Deadline(t))
          /\ WF_vars(pc[t] \in {"woken", "expired"} /\
                       (Take(t) \/ TakeFails(t) \/ Block(t) \/ TimeOut(t)))

-----------------------------------------------------------------------------
TypeOK ==
    /\ idle \in 0..PoolSize
    /\ pc \in [Callers -> {"out", "blocked", "woken", "expired", "using", "catch"}]
    /\ lost \in 0..PoolSize

\* Every connection of the pool is idle, with one caller, or lost to a failed
\* reconnection, through every path of exceptions: none is returned twice, and
\* none is forgotten.
PoolConserved == idle + Cardinality(Holding) + lost = PoolSize

\* While callers sleep, each idle connection has a caller that is on its way
\* to it: a wake-up is never lost, also when the connection a caller was woken
\* for is stolen or breaks, or when the wake-up meets a deadline.
NoLostWakeup == At({"blocked"}) # {} => idle <= Cardinality(Awake)

\* getConnection comes back, with a connection or an exception, even when the
\* pool is empty for good.
GetReturns == \A t \in Callers : pc[t] = "blocked" ~> pc[t] \in {"using", "out"}
=============================================================================
