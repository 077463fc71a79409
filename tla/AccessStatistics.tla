--------------------------- MODULE AccessStatistics ---------------------------
(***************************************************************************)
(* The way of an access record from an edge server into the scores of the  *)
(* center.  Queries append records to pending_report_access_info_; the     *)
(* report thread takes them all and sends them in one ReportStatistics     *)
(* call; the center adds them to the current period.  Its replacement      *)
(* thread takes the period (collectPeriodStats), appends it to the history *)
(* of each block, a window of a few periods (updateAccessHistory), and has *)
(* the blocks scored by a thread pool (calculateQCCVs).                    *)
(*                                                                         *)
(* Covered: reports that do not arrive, reports that are handled after the *)
(* edge has given them up, edges that crash and start again.  An edge that *)
(* serves requests never reaches its destructor, so a stop is a crash.     *)
(* Abstracted: an access is its number, with the edge and block it is of;  *)
(* counts and selectivities are the sets of accesses they sum up; the rest *)
(* of the round (AllocationPlan, CacheReplacement) is one step.            *)
(***************************************************************************)
EXTENDS ThreadPool

CONSTANTS
    Edges,          \* edge servers
    Window,         \* periods a block's history keeps: 5
    MaxAccesses, MaxFaults      \* bounds on what is explored

Blocks == Tasks     \* one scoring task per block of the history
Accesses == 1..MaxAccesses

ASSUME WindowIsPositive == Window \in Nat \ {0}
ASSUME BoundsAreNat == MaxAccesses \in Nat /\ MaxFaults \in Nat

VARIABLES
    \* edge servers
    made,           \* accesses so far
    source,         \* edge and block of each access
    pending,        \* pending_report_access_info_
    waiting,        \* the report whose reply the edge's thread waits for
    \* between edge and center
    reports,        \* reports the center has not handled
    \* center
    current,        \* current_period_stats_
    period,         \* period_stats, taken and not yet in the history
    history,        \* historical_stats_: per block a sequence of periods
    pc, toSubmit,   \* the replacement thread
    \* history variables
    lost,           \* accesses that will never reach the center
    expired,        \* accesses whose period has left the window
    faults

edge == <<made, source, pending, waiting>>
center == <<current, period, history, pc, toSubmit>>
vars == <<edge, reports, center, lost, expired, faults, pool>>

-----------------------------------------------------------------------------
EdgeOf(a) == source[a][1]
BlockOf(a) == source[a][2]
InHistory(b) == UNION {history[b][i] : i \in 1..Len(history[b])}
Weighted == UNION {InHistory(b) : b \in Blocks}

Init ==
    /\ made = 0
    /\ source \in [Accesses -> Edges \X Blocks]
    /\ pending = [e \in Edges |-> {}]
    /\ waiting = [e \in Edges |-> {}]
    /\ reports = {}
    /\ current = {}
    /\ period = {}
    /\ history = [b \in Blocks |-> << >>]
    /\ pc = "sleep"
    /\ toSubmit = {}
    /\ lost = {} /\ expired = {}
    /\ faults = 0
    /\ PoolInit

-----------------------------------------------------------------------------
\* Edge servers.

\* addStatsToReport, for an access of the edge's own queries.
AddStats ==
    /\ made < MaxAccesses
    /\ made' = made + 1
    /\ pending' = [pending EXCEPT ![EdgeOf(made + 1)] = @ \cup {made + 1}]
    /\ UNCHANGED <<source, waiting, reports, center, lost, expired, faults, pool>>

\* statsReportLoop moves the records out and calls the center.
\* Mutant: the vector is copied and not emptied.
ReportCopy(e) ==
    /\ pending[e] # {} /\ waiting[e] = {}
    /\ reports' = reports \cup {pending[e]}
    /\ waiting' = [waiting EXCEPT ![e] = pending[e]]
    /\ UNCHANGED <<made, source, pending, center, lost, expired, faults, pool>>
Report(e) ==
    /\ pending[e] # {} /\ waiting[e] = {}
    /\ reports' = reports \cup {pending[e]}
    /\ waiting' = [waiting EXCEPT ![e] = pending[e]]
    /\ pending' = [pending EXCEPT ![e] = {}]
    /\ UNCHANGED <<made, source, center, lost, expired, faults, pool>>

Answered(r) == [e \in Edges |-> IF waiting[e] = r THEN {} ELSE waiting[e]]

\* An error status is logged; the records are not put back.
\* Mutant: the edge reports them again.
RepeatReport(e) ==
    /\ waiting[e] # {} /\ faults < MaxFaults
    /\ faults' = faults + 1
    /\ waiting' = [waiting EXCEPT ![e] = {}]
    /\ pending' = [pending EXCEPT ![e] = @ \cup waiting[e]]
    /\ UNCHANGED <<made, source, reports, center, lost, expired, pool>>
GiveUp(e) ==
    /\ waiting[e] # {} /\ faults < MaxFaults
    /\ faults' = faults + 1
    /\ waiting' = [waiting EXCEPT ![e] = {}]
    /\ UNCHANGED <<made, source, pending, reports, center, lost, expired, pool>>

\* The report does not reach the center.
LoseReport(r) ==
    /\ r \in reports /\ faults < MaxFaults
    /\ faults' = faults + 1
    /\ reports' = reports \ {r}
    /\ lost' = lost \cup r
    /\ waiting' = Answered(r)
    /\ UNCHANGED <<made, source, pending, center, expired, pool>>

\* The process ends and starts again; a report under way may still arrive.
Crash(e) ==
    /\ pending[e] \cup waiting[e] # {} /\ faults < MaxFaults
    /\ faults' = faults + 1
    /\ lost' = lost \cup pending[e]
    /\ pending' = [pending EXCEPT ![e] = {}]
    /\ waiting' = [waiting EXCEPT ![e] = {}]
    /\ UNCHANGED <<made, source, reports, center, expired, pool>>

-----------------------------------------------------------------------------
\* The center.

\* ReportStatistics, under stats_mutex_.
ReportStatistics(r) ==
    /\ r \in reports
    /\ reports' = reports \ {r}
    /\ current' = current \cup r
    /\ waiting' = Answered(r)
    /\ UNCHANGED <<made, source, pending, period, history, pc, toSubmit, lost,
                   expired, faults, pool>>

\* collectPeriodStats, under stats_mutex_.
\* Mutant: the period's statistics are not cleared.
CollectCopy ==
    /\ pc = "sleep"
    /\ period' = current
    /\ pc' = "update"
    /\ UNCHANGED <<current, history, toSubmit, edge, reports, lost, expired, faults, pool>>
CollectPeriodStats ==
    /\ pc = "sleep"
    /\ period' = current
    /\ current' = {}
    /\ pc' = "update"
    /\ UNCHANGED <<history, toSubmit, edge, reports, lost, expired, faults, pool>>

\* A block accessed in the period gets its accesses appended; the oldest entry
\* of a history that is longer than the window goes.  A block without accesses
\* keeps its history as it is.
Appended(b) ==
    LET accesses == {a \in period : BlockOf(a) = b} IN
    IF accesses = {} THEN history[b] ELSE Append(history[b], accesses)
\* Mutant: the window is tested before the append.
TrimmedLate(b) == IF Len(history[b]) > Window THEN Tail(Appended(b)) ELSE Appended(b)
Trimmed(b) == IF Len(Appended(b)) > Window THEN Tail(Appended(b)) ELSE Appended(b)

UpdateAccessHistory ==
    /\ pc = "update"
    /\ history' = [b \in Blocks |-> Trimmed(b)]
    /\ expired' = expired \cup ((Weighted \cup period) \ Weighted')
    /\ period' = {}
    /\ toSubmit' = {b \in Blocks : history'[b] # << >>}
    /\ Construct
    /\ pc' = "scoring"
    /\ UNCHANGED <<current, edge, reports, lost, faults>>

\* calculateQCCVs: one task per block with a history.
Submit(b) ==
    /\ pc = "scoring" /\ b \in toSubmit
    /\ toSubmit' = toSubmit \ {b}
    /\ Enqueue(b)
    /\ UNCHANGED <<current, period, history, pc, edge, reports, lost, expired, faults>>

\* The last future is ready; the scope of the pool ends.
\* Mutant: the futures are not waited for.
DestroyAtOnce ==
    /\ pc = "scoring" /\ toSubmit = {}
    /\ BeginDestroy
    /\ pc' = "joining"
    /\ UNCHANGED <<current, period, history, toSubmit, edge, reports, lost, expired, faults>>
FuturesReady ==
    /\ pc = "scoring" /\ toSubmit = {}
    /\ completed = {b \in Blocks : history[b] # << >>}
    /\ BeginDestroy
    /\ pc' = "joining"
    /\ UNCHANGED <<current, period, history, toSubmit, edge, reports, lost, expired, faults>>

\* The workers are joined; the plan is made and delivered.
EndRound ==
    /\ pc = "joining"
    /\ EndDestroy
    /\ pc' = "sleep"
    /\ UNCHANGED <<current, period, history, toSubmit, edge, reports, lost, expired, faults>>

-----------------------------------------------------------------------------
ReplacementStep ==
    \/ CollectPeriodStats \/ UpdateAccessHistory
    \/ \E b \in Blocks : Submit(b)
    \/ FuturesReady \/ EndRound

PoolStep(w) ==
    /\ WorkerStep(w)
    /\ UNCHANGED <<edge, reports, center, lost, expired, faults>>

Next ==
    \/ AddStats
    \/ \E e \in Edges : Report(e) \/ GiveUp(e) \/ Crash(e)
    \/ \E r \in reports : ReportStatistics(r) \/ LoseReport(r)
    \/ ReplacementStep
    \/ \E w \in Workers :
          \/ PoolStep(w)
          \/ SpuriousWake(w) /\ UNCHANGED <<edge, reports, center, lost, expired, faults>>

Spec == Init /\ [][Next]_vars

\* The report threads, the center's handlers, its replacement thread and the
\* workers of its pool keep running.
FairSpec ==
    /\ Spec
    /\ \A e \in Edges : WF_vars(Report(e))
    /\ WF_vars(\E r \in reports : ReportStatistics(r))
    /\ WF_vars(ReplacementStep)
    /\ \A w \in Workers : WF_vars(PoolStep(w))

-----------------------------------------------------------------------------
TypeOK ==
    /\ made \in 0..MaxAccesses
    /\ source \in [Accesses -> Edges \X Blocks]
    /\ pending \in [Edges -> SUBSET Accesses] /\ waiting \in [Edges -> SUBSET Accesses]
    /\ reports \subseteq SUBSET Accesses
    /\ current \subseteq Accesses /\ period \subseteq Accesses
    /\ \A b \in Blocks : history[b] \in Seq(SUBSET Accesses) /\ Len(history[b]) <= Window
    /\ pc \in {"sleep", "update", "scoring", "joining"}
    /\ toSubmit \subseteq Blocks
    /\ lost \subseteq Accesses /\ expired \subseteq Accesses
    /\ faults \in 0..MaxFaults
    /\ PoolTypeOK

\* The places an access can be at, a set of accesses each.
Places ==
    [p \in {"pending", "reports", "current", "period", "lost", "expired"} |->
       CASE p = "pending" -> UNION {pending[e] : e \in Edges}
         [] p = "reports" -> UNION reports
         [] p = "current" -> current
         [] p = "period" -> period
         [] p = "lost" -> lost
         [] p = "expired" -> expired]

\* However reports fail, arrive late or overlap with the end of a period, every
\* access of a query is in exactly one place: it is not counted twice, and not
\* lost without a crash or a failed report.
EachAccessOnce ==
    \A a \in 1..made :
       Cardinality({p \in DOMAIN Places : a \in Places[p]})
       + Cardinality({t \in Blocks \X (1..Window) :
                         t[2] <= Len(history[t[1]]) /\ a \in history[t[1]][t[2]]}) = 1

Running == {worker[w] : w \in Workers} \cap Blocks

\* No task outlives its round or is run twice in it: a task is in the queue, at
\* one worker or completed, and between rounds the pool is gone.
TasksOfRound ==
    /\ \A b \in Blocks :
          Cardinality({i \in 1..Len(queue) : queue[i] = b})
          + Cardinality({w \in Workers : worker[w] = b})
          + (IF b \in completed THEN 1 ELSE 0) <= 1
    /\ pc \in {"sleep", "update"} =>
          queue = << >> /\ \A w \in Workers : worker[w] = "absent"
    /\ pc = "joining" => Running = {} /\ queue = << >>

\* The standings an access has; one that was duplicated can have several.
Standings(a) ==
    LET In(s) == CASE s = "pending" -> a \in Places["pending"] \cup Places["reports"]
                   [] s = "reported" -> a \in current \cup period
                   [] s = "weighted" -> a \in Weighted
                   [] s = "expired" -> a \in expired
                   [] s = "lost" -> a \in lost
    IN {s \in {"pending", "reported", "weighted", "expired", "lost"} : In(s)}

\* The pipeline does what AccessLedger promises about each access.
Ledger == INSTANCE AccessLedger WITH standings <- [a \in Accesses |-> Standings(a)]
ImplementsLedger == Ledger!Spec

\* Every recorded access is lost by a fault or weighted in a score sooner or
\* later: the report threads, the pool and its destructor never get stuck.
AccessesAreWeighted ==
    \A a \in Accesses : a <= made ~> a \in lost \cup Weighted \cup expired
=============================================================================
