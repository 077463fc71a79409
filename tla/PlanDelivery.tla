----------------------------- MODULE PlanDelivery -----------------------------
(***************************************************************************)
(* What the center's record of the caches promises: between rounds it      *)
(* stands still, within a round the entry of a node changes in one step to *)
(* everything the plan gives the node, or not at all.  So a node is        *)
(* recorded with the blocks of one plan, never with a mixture of two, and  *)
(* a node whose calls fail keeps its last complete entry.                  *)
(***************************************************************************)
CONSTANTS
    Nodes,
    Fitting         \* the plans that fit the nodes: functions from nodes to
                    \* sets of blocks

VARIABLES
    record,         \* record[n]: the blocks n is believed to cache
    target,         \* target[n]: the blocks the last plan gives n
    open            \* a round is under way

Init ==
    /\ record = [n \in Nodes |-> {}]
    /\ target = [n \in Nodes |-> {}]
    /\ open = FALSE

Begin ==
    /\ ~open
    /\ open' = TRUE
    /\ target' \in Fitting
    /\ UNCHANGED record

Deliver(n) ==
    /\ open
    /\ target[n] # {}
    /\ record' = [record EXCEPT ![n] = target[n]]
    /\ UNCHANGED <<target, open>>

End ==
    /\ open
    /\ open' = FALSE
    /\ UNCHANGED <<record, target>>

Next == Begin \/ End \/ \E n \in Nodes : Deliver(n)

Spec == Init /\ [][Next]_<<record, target, open>>
=============================================================================
