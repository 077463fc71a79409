----------------------------- MODULE AccessLedger -----------------------------
(***************************************************************************)
(* What the statistics pipeline promises about each access: it has one     *)
(* standing at a time, is reported at most once, weighted in the history   *)
(* of its block, and leaves the history when newer periods push it out.    *)
(* It can be lost only before the center has it, and nothing brings it     *)
(* back.                                                                   *)
(***************************************************************************)
CONSTANT Accesses
VARIABLE standings      \* per access the set of its standings

\* From where to where an access may move; before it is made it has no standing.
Flow == {<<{}, {"pending"}>>,
         <<{"pending"}, {"reported"}>>, <<{"pending"}, {"lost"}>>,
         <<{"reported"}, {"weighted"}>>, <<{"weighted"}, {"expired"}>>}

Init == standings = [a \in Accesses |-> {}]

Move ==
    /\ DOMAIN standings' = Accesses
    /\ \A a \in Accesses :
          \/ standings'[a] = standings[a]
          \/ <<standings[a], standings'[a]>> \in Flow

Spec == Init /\ [][Move]_standings
=============================================================================
