------------------------- MODULE ConnectionPoolProofs -------------------------
(***************************************************************************)
(* Proofs about ConnectionPool, for any number of callers and any size of  *)
(* the pool.                                                               *)
(***************************************************************************)
EXTENDS ConnectionPool, FiniteSetTheorems, TLAPS

Places == {"out", "blocked", "woken", "expired", "using", "catch"}

\* What TypeOK says before the counters are known to stay within the pool.
PoolType ==
    /\ idle \in Nat
    /\ pc \in [Callers -> Places]
    /\ lost \in Nat

\* The inductive invariant: the two counts are about the sets of callers that
\* hold a connection and that have been woken.
PoolInv == PoolType /\ PoolConserved /\ NoLostWakeup

\* Sets of callers are finite; their sizes are natural numbers.
LEMMA AtIsFinite ==
  ASSUME NEW places
  PROVE  IsFiniteSet(At(places)) /\ Cardinality(At(places)) \in Nat
<1>1. At(places) \subseteq Callers
  BY DEF At
<1>2. IsFiniteSet(At(places))
  BY <1>1, CallersFinite, FS_Subset
<1> QED BY <1>2, FS_CardinalityType

\* One element more or less changes the size of a finite set by one at most.
LEMMA CountAdd ==
  ASSUME NEW S, IsFiniteSet(S), NEW x
  PROVE  /\ IsFiniteSet(S \cup {x})
         /\ Cardinality(S) \in Nat /\ Cardinality(S \cup {x}) \in Nat
         /\ Cardinality(S \cup {x}) = Cardinality(S) + (IF x \in S THEN 0 ELSE 1)
<1>1. IsFiniteSet(S \cup {x})
  BY FS_AddElement
<1>2. Cardinality(S) \in Nat /\ Cardinality(S \cup {x}) \in Nat
  BY <1>1, FS_CardinalityType
<1>3. Cardinality(S \cup {x}) = IF x \in S THEN Cardinality(S) ELSE Cardinality(S) + 1
  BY FS_AddElement
<1> QED BY <1>1, <1>2, <1>3

LEMMA CountRemove ==
  ASSUME NEW S, IsFiniteSet(S), NEW x
  PROVE  /\ IsFiniteSet(S \ {x})
         /\ Cardinality(S) \in Nat /\ Cardinality(S \ {x}) \in Nat
         /\ Cardinality(S \ {x}) = Cardinality(S) - (IF x \in S THEN 1 ELSE 0)
<1>1. IsFiniteSet(S \ {x})
  BY FS_RemoveElement
<1>2. Cardinality(S) \in Nat /\ Cardinality(S \ {x}) \in Nat
  BY <1>1, FS_CardinalityType
<1>3. Cardinality(S \ {x}) = IF x \in S THEN Cardinality(S) - 1 ELSE Cardinality(S)
  BY FS_RemoveElement
<1> QED BY <1>1, <1>2, <1>3

\* How a step of caller t from its place to place p changes the number of
\* callers at some places.
Delta(p, places, from) ==
    IF p \in places /\ from \notin places THEN 1
    ELSE IF p \notin places /\ from \in places THEN 0 - 1 ELSE 0

LEMMA MoveOne ==
  ASSUME PoolType, NEW t \in Callers, NEW p \in Places,
         pc' = [pc EXCEPT ![t] = p], NEW places
  PROVE  Cardinality(At(places)') = Cardinality(At(places)) + Delta(p, places, pc[t])
<1>1. IsFiniteSet(At(places)) /\ Cardinality(At(places)) \in Nat
  BY AtIsFinite
<1>2. t \in At(places) <=> pc[t] \in places
  BY DEF At
<1>3. CASE p \in places
  <2>1. At(places)' = At(places) \cup {t}
    BY <1>3 DEF At, PoolType
  <2>2. Cardinality(At(places) \cup {t})
          = Cardinality(At(places)) + (IF t \in At(places) THEN 0 ELSE 1)
    BY <1>1, CountAdd
  <2> QED BY <1>1, <1>2, <1>3, <2>1, <2>2 DEF Delta
<1>4. CASE p \notin places
  <2>1. At(places)' = At(places) \ {t}
    BY <1>4 DEF At, PoolType
  <2>2. Cardinality(At(places) \ {t})
          = Cardinality(At(places)) - (IF t \in At(places) THEN 1 ELSE 0)
    BY <1>1, CountRemove
  <2> QED BY <1>1, <1>2, <1>4, <2>1, <2>2 DEF Delta
<1> QED BY <1>3, <1>4

\* The same for a step that also moves a blocked caller to "woken".
LEMMA MoveTwo ==
  ASSUME PoolType, NEW t \in Callers, NEW s \in At({"blocked"}), s # t,
         NEW p \in Places, pc' = [pc EXCEPT ![t] = p, ![s] = "woken"], NEW places
  PROVE  Cardinality(At(places)') =
           Cardinality(At(places)) + Delta(p, places, pc[t])
                                   + Delta("woken", places, "blocked")
<1> DEFINE middle == [pc EXCEPT ![t] = p]
           M == {u \in Callers : middle[u] \in places}
<1> HIDE DEF M
<1>1. IsFiniteSet(At(places)) /\ Cardinality(At(places)) \in Nat
  BY AtIsFinite
<1>2. (t \in At(places) <=> pc[t] \in places) /\ s \in Callers /\ pc[s] = "blocked"
  BY DEF At
<1>3. IsFiniteSet(M) /\ Cardinality(M) \in Nat
      /\ Cardinality(M) = Cardinality(At(places)) + Delta(p, places, pc[t])
  <2>1. CASE p \in places
    <3>1. M = At(places) \cup {t}
      BY <2>1 DEF At, PoolType, M
    <3>2. /\ IsFiniteSet(At(places) \cup {t}) /\ Cardinality(At(places) \cup {t}) \in Nat
          /\ Cardinality(At(places) \cup {t})
               = Cardinality(At(places)) + (IF t \in At(places) THEN 0 ELSE 1)
      BY <1>1, CountAdd
    <3> QED BY <1>1, <1>2, <2>1, <3>1, <3>2 DEF Delta
  <2>2. CASE p \notin places
    <3>1. M = At(places) \ {t}
      BY <2>2 DEF At, PoolType, M
    <3>2. /\ IsFiniteSet(At(places) \ {t}) /\ Cardinality(At(places) \ {t}) \in Nat
          /\ Cardinality(At(places) \ {t})
               = Cardinality(At(places)) - (IF t \in At(places) THEN 1 ELSE 0)
      BY <1>1, CountRemove
    <3> QED BY <1>1, <1>2, <2>2, <3>1, <3>2 DEF Delta
  <2> QED BY <2>1, <2>2
<1>4. s \in M <=> "blocked" \in places
  BY <1>2 DEF PoolType, M
<1>5. CASE "woken" \in places
  <2>1. At(places)' = M \cup {s}
    BY <1>2, <1>5 DEF At, PoolType, M
  <2>2. Cardinality(M \cup {s}) = Cardinality(M) + (IF s \in M THEN 0 ELSE 1)
    BY <1>3, CountAdd
  <2>3. Cardinality(At(places)') = Cardinality(M) + Delta("woken", places, "blocked")
    BY <1>3, <1>4, <1>5, <2>1, <2>2 DEF Delta
  <2> QED BY <1>3, <2>3
<1>6. CASE "woken" \notin places
  <2>1. At(places)' = M \ {s}
    BY <1>2, <1>6 DEF At, PoolType, M
  <2>2. Cardinality(M \ {s}) = Cardinality(M) - (IF s \in M THEN 1 ELSE 0)
    BY <1>3, CountRemove
  <2>3. Cardinality(At(places)') = Cardinality(M) + Delta("woken", places, "blocked")
    BY <1>3, <1>4, <1>6, <2>1, <2>2 DEF Delta
  <2> QED BY <1>3, <2>3
<1> QED BY <1>5, <1>6

LEMMA InitPoolInv == Init => PoolInv
<1> SUFFICES ASSUME Init PROVE PoolInv
  OBVIOUS
<1>1. PoolType
  BY PoolSizeIsNat DEF Init, PoolType, Places
<1>2. Holding = {} /\ At({"blocked"}) = {}
  BY DEF Init, Holding, At
<1>3. Cardinality(Holding) = 0
  BY <1>2, FS_EmptySet
<1> QED BY <1>1, <1>2, <1>3, PoolSizeIsNat DEF PoolInv, Init, PoolConserved, NoLostWakeup

\* What a step of one caller from its place to place p does to the two counts;
\* nobody is blocked afterwards that was not, except the caller itself.
LEMMA StepOne ==
  ASSUME PoolInv, NEW t \in Callers, NEW p \in Places, pc' = [pc EXCEPT ![t] = p]
  PROVE  /\ Cardinality(Holding') =
              Cardinality(Holding) + Delta(p, {"using", "catch"}, pc[t])
         /\ Cardinality(Awake') =
              Cardinality(Awake) + Delta(p, {"woken", "expired"}, pc[t])
         /\ Cardinality(Holding) \in Nat /\ Cardinality(Awake) \in Nat
         /\ Cardinality(Awake') \in Nat
         /\ p # "blocked" => At({"blocked"})' \subseteq At({"blocked"})
         /\ pc' \in [Callers -> Places]
<1>1. PoolType
  BY DEF PoolInv
<1>2. Cardinality(Holding) \in Nat /\ Cardinality(Awake) \in Nat
  BY AtIsFinite DEF Holding, Awake
<1>3. p # "blocked" => At({"blocked"})' \subseteq At({"blocked"})
  BY <1>1 DEF At, PoolType
<1>4. pc' \in [Callers -> Places]
  BY <1>1 DEF PoolType
<1>5. Cardinality(At({"using", "catch"})') =
        Cardinality(At({"using", "catch"})) + Delta(p, {"using", "catch"}, pc[t])
  BY <1>1, MoveOne
<1>6. Cardinality(At({"woken", "expired"})') =
        Cardinality(At({"woken", "expired"})) + Delta(p, {"woken", "expired"}, pc[t])
  BY <1>1, MoveOne
<1>7. Cardinality(Awake') \in Nat
  <2>1. Awake' \subseteq Callers
    BY DEF Awake, At
  <2> QED BY <2>1, CallersFinite, FS_Subset, FS_CardinalityType
<1> QED BY <1>2, <1>3, <1>4, <1>5, <1>6, <1>7 DEF Holding, Awake

\* A return wakes one of the blocked callers or finds none.
LEMMA StepLeave ==
  ASSUME PoolInv, NEW t \in Callers, pc[t] \in {"using", "catch"}, Leave(t, "out")
  PROVE  /\ Cardinality(Holding') = Cardinality(Holding) - 1
         /\ Cardinality(Holding) \in Nat /\ Cardinality(Awake) \in Nat
         /\ \/ At({"blocked"})' = {}
            \/ At({"blocked"}) # {} /\ Cardinality(Awake') = Cardinality(Awake) + 1
         /\ pc' \in [Callers -> Places]
<1>1. PoolType
  BY DEF PoolInv
<1>2. Cardinality(Holding) \in Nat /\ Cardinality(Awake) \in Nat
  BY AtIsFinite DEF Holding, Awake
<1>3. "out" \in Places /\ "woken" \in Places
  BY DEF Places
<1>4. CASE At({"blocked"}) = {}
  <2>1. pc' = [pc EXCEPT ![t] = "out"]
    BY <1>4 DEF Leave
  <2>2. /\ Cardinality(Holding') =
             Cardinality(Holding) + Delta("out", {"using", "catch"}, pc[t])
        /\ At({"blocked"})' \subseteq At({"blocked"})
        /\ pc' \in [Callers -> Places]
    BY <1>3, <2>1, StepOne
  <2>3. Delta("out", {"using", "catch"}, pc[t]) = 0 - 1
    BY DEF Delta
  <2> QED BY <1>2, <1>4, <2>2, <2>3
<1>5. CASE At({"blocked"}) # {}
  <2>1. PICK s \in At({"blocked"}) : pc' = [pc EXCEPT ![t] = "out", ![s] = "woken"]
    BY <1>5 DEF Leave
  <2>2. s # t /\ s \in Callers
    BY DEF At
  <2>3. Cardinality(At({"using", "catch"})') =
          Cardinality(At({"using", "catch"})) + Delta("out", {"using", "catch"}, pc[t])
            + Delta("woken", {"using", "catch"}, "blocked")
    BY <1>1, <1>3, <2>1, <2>2, MoveTwo
  <2>4. Cardinality(At({"woken", "expired"})') =
          Cardinality(At({"woken", "expired"})) + Delta("out", {"woken", "expired"}, pc[t])
            + Delta("woken", {"woken", "expired"}, "blocked")
    BY <1>1, <1>3, <2>1, <2>2, MoveTwo
  <2>5. /\ Delta("out", {"using", "catch"}, pc[t]) = 0 - 1
        /\ Delta("woken", {"using", "catch"}, "blocked") = 0
        /\ Delta("out", {"woken", "expired"}, pc[t]) = 0
        /\ Delta("woken", {"woken", "expired"}, "blocked") = 1
    BY DEF Delta
  <2>6. pc' \in [Callers -> Places]
    BY <1>1, <1>3, <2>1, <2>2 DEF PoolType
  <2> QED BY <1>2, <1>5, <2>3, <2>4, <2>5, <2>6 DEF Holding, Awake
<1> QED BY <1>4, <1>5

LEMMA StepPoolInv == PoolInv /\ [Next]_vars => PoolInv'
<1> SUFFICES ASSUME PoolInv, [Next]_vars PROVE PoolInv'
  OBVIOUS
<1> USE DEF PoolInv
<1>1. ASSUME NEW t \in Callers, Take(t) PROVE PoolInv'
  <2>1. pc' = [pc EXCEPT ![t] = "using"] /\ "using" \in Places
    BY <1>1 DEF Take, Places
  <2>2. /\ Cardinality(Holding') =
             Cardinality(Holding) + Delta("using", {"using", "catch"}, pc[t])
        /\ Cardinality(Awake') =
             Cardinality(Awake) + Delta("using", {"woken", "expired"}, pc[t])
        /\ Cardinality(Holding) \in Nat /\ Cardinality(Awake) \in Nat
        /\ Cardinality(Awake') \in Nat
        /\ "using" # "blocked" => At({"blocked"})' \subseteq At({"blocked"})
        /\ pc' \in [Callers -> Places]
    BY <2>1, StepOne
  <2>3. /\ Delta("using", {"using", "catch"}, pc[t]) = 1
        /\ Delta("using", {"woken", "expired"}, pc[t]) = (IF pc[t] = "out" THEN 0 ELSE 0 - 1)
    BY <1>1 DEF Take, Delta
  <2>4. PoolType'
    BY <1>1, <2>2 DEF Take, PoolType
  <2>5. PoolConserved'
    BY <1>1, <2>2, <2>3 DEF Take, PoolType, PoolConserved
  <2>6. NoLostWakeup'
    BY <1>1, <2>2, <2>3 DEF Take, PoolType, NoLostWakeup
  <2> QED BY <2>4, <2>5, <2>6 DEF PoolInv
<1>2. ASSUME NEW t \in Callers, TakeFails(t) PROVE PoolInv'
  <2>1. pc' = [pc EXCEPT ![t] = "out"] /\ "out" \in Places
    BY <1>2 DEF TakeFails, Places
  <2>2. /\ Cardinality(Holding') =
             Cardinality(Holding) + Delta("out", {"using", "catch"}, pc[t])
        /\ Cardinality(Awake') =
             Cardinality(Awake) + Delta("out", {"woken", "expired"}, pc[t])
        /\ Cardinality(Holding) \in Nat /\ Cardinality(Awake) \in Nat
        /\ Cardinality(Awake') \in Nat
        /\ "out" # "blocked" => At({"blocked"})' \subseteq At({"blocked"})
        /\ pc' \in [Callers -> Places]
    BY <2>1, StepOne
  <2>3. /\ Delta("out", {"using", "catch"}, pc[t]) = 0
        /\ Delta("out", {"woken", "expired"}, pc[t]) = (IF pc[t] = "out" THEN 0 ELSE 0 - 1)
    BY <1>2 DEF TakeFails, Delta
  <2>4. PoolType'
    BY <1>2, <2>2 DEF TakeFails, PoolType
  <2>5. PoolConserved'
    BY <1>2, <2>2, <2>3 DEF TakeFails, PoolType, PoolConserved
  <2>6. NoLostWakeup'
    BY <1>2, <2>2, <2>3 DEF TakeFails, PoolType, NoLostWakeup
  <2> QED BY <2>4, <2>5, <2>6 DEF PoolInv
<1>3. ASSUME NEW t \in Callers, Block(t) PROVE PoolInv'
  <2>1. pc' = [pc EXCEPT ![t] = "blocked"] /\ "blocked" \in Places
    BY <1>3 DEF Block, Places
  <2>2. /\ Cardinality(Holding') =
             Cardinality(Holding) + Delta("blocked", {"using", "catch"}, pc[t])
        /\ Cardinality(Awake') =
             Cardinality(Awake) + Delta("blocked", {"woken", "expired"}, pc[t])
        /\ Cardinality(Holding) \in Nat /\ Cardinality(Awake) \in Nat
        /\ Cardinality(Awake') \in Nat
        /\ "blocked" # "blocked" => At({"blocked"})' \subseteq At({"blocked"})
        /\ pc' \in [Callers -> Places]
    BY <2>1, StepOne
  <2>3. /\ Delta("blocked", {"using", "catch"}, pc[t]) = 0
        /\ Delta("blocked", {"woken", "expired"}, pc[t]) = (IF pc[t] = "out" THEN 0 ELSE 0 - 1)
    BY <1>3 DEF Block, Delta
  <2>4. PoolType'
    BY <1>3, <2>2 DEF Block, PoolType
  <2>5. PoolConserved'
    BY <1>3, <2>2, <2>3 DEF Block, PoolType, PoolConserved
  <2>6. NoLostWakeup'
    BY <1>3, <2>2, <2>3 DEF Block, PoolType, NoLostWakeup
  <2> QED BY <2>4, <2>5, <2>6 DEF PoolInv
<1>4. ASSUME NEW t \in Callers, SpuriousWake(t) PROVE PoolInv'
  <2>1. pc' = [pc EXCEPT ![t] = "woken"] /\ "woken" \in Places
    BY <1>4 DEF SpuriousWake, Places
  <2>2. /\ Cardinality(Holding') =
             Cardinality(Holding) + Delta("woken", {"using", "catch"}, pc[t])
        /\ Cardinality(Awake') =
             Cardinality(Awake) + Delta("woken", {"woken", "expired"}, pc[t])
        /\ Cardinality(Holding) \in Nat /\ Cardinality(Awake) \in Nat
        /\ Cardinality(Awake') \in Nat
        /\ "woken" # "blocked" => At({"blocked"})' \subseteq At({"blocked"})
        /\ pc' \in [Callers -> Places]
    BY <2>1, StepOne
  <2>3. /\ Delta("woken", {"using", "catch"}, pc[t]) = 0
        /\ Delta("woken", {"woken", "expired"}, pc[t]) = 1
    BY <1>4 DEF SpuriousWake, Delta
  <2>4. PoolType'
    BY <1>4, <2>2 DEF SpuriousWake, PoolType
  <2>5. PoolConserved'
    BY <1>4, <2>2, <2>3 DEF SpuriousWake, PoolType, PoolConserved
  <2>6. NoLostWakeup'
    BY <1>4, <2>2, <2>3 DEF SpuriousWake, PoolType, NoLostWakeup
  <2> QED BY <2>4, <2>5, <2>6 DEF PoolInv
<1>5. ASSUME NEW t \in Callers, Deadline(t) PROVE PoolInv'
  <2>1. pc' = [pc EXCEPT ![t] = "expired"] /\ "expired" \in Places
    BY <1>5 DEF Deadline, Places
  <2>2. /\ Cardinality(Holding') =
             Cardinality(Holding) + Delta("expired", {"using", "catch"}, pc[t])
        /\ Cardinality(Awake') =
             Cardinality(Awake) + Delta("expired", {"woken", "expired"}, pc[t])
        /\ Cardinality(Holding) \in Nat /\ Cardinality(Awake) \in Nat
        /\ Cardinality(Awake') \in Nat
        /\ "expired" # "blocked" => At({"blocked"})' \subseteq At({"blocked"})
        /\ pc' \in [Callers -> Places]
    BY <2>1, StepOne
  <2>3. /\ Delta("expired", {"using", "catch"}, pc[t]) = 0
        /\ Delta("expired", {"woken", "expired"}, pc[t]) = 1
    BY <1>5 DEF Deadline, Delta
  <2>4. PoolType'
    BY <1>5, <2>2 DEF Deadline, PoolType
  <2>5. PoolConserved'
    BY <1>5, <2>2, <2>3 DEF Deadline, PoolType, PoolConserved
  <2>6. NoLostWakeup'
    BY <1>5, <2>2, <2>3 DEF Deadline, PoolType, NoLostWakeup
  <2> QED BY <2>4, <2>5, <2>6 DEF PoolInv
<1>6. ASSUME NEW t \in Callers, TimeOut(t) PROVE PoolInv'
  <2>1. pc' = [pc EXCEPT ![t] = "out"] /\ "out" \in Places
    BY <1>6 DEF TimeOut, Places
  <2>2. /\ Cardinality(Holding') =
             Cardinality(Holding) + Delta("out", {"using", "catch"}, pc[t])
        /\ Cardinality(Awake') =
             Cardinality(Awake) + Delta("out", {"woken", "expired"}, pc[t])
        /\ Cardinality(Holding) \in Nat /\ Cardinality(Awake) \in Nat
        /\ Cardinality(Awake') \in Nat
        /\ "out" # "blocked" => At({"blocked"})' \subseteq At({"blocked"})
        /\ pc' \in [Callers -> Places]
    BY <2>1, StepOne
  <2>3. /\ Delta("out", {"using", "catch"}, pc[t]) = 0
        /\ Delta("out", {"woken", "expired"}, pc[t]) = 0 - 1
    BY <1>6 DEF TimeOut, Delta
  <2>4. PoolType'
    BY <1>6, <2>2 DEF TimeOut, PoolType
  <2>5. PoolConserved'
    BY <1>6, <2>2, <2>3 DEF TimeOut, PoolType, PoolConserved
  <2>6. NoLostWakeup'
    BY <1>6, <2>2, <2>3 DEF TimeOut, PoolType, NoLostWakeup
  <2> QED BY <2>4, <2>5, <2>6 DEF PoolInv
<1>7. ASSUME NEW t \in Callers, EnterCatch(t) PROVE PoolInv'
  <2>1. pc' = [pc EXCEPT ![t] = "catch"] /\ "catch" \in Places
    BY <1>7 DEF EnterCatch, Places
  <2>2. /\ Cardinality(Holding') =
             Cardinality(Holding) + Delta("catch", {"using", "catch"}, pc[t])
        /\ Cardinality(Awake') =
             Cardinality(Awake) + Delta("catch", {"woken", "expired"}, pc[t])
        /\ Cardinality(Holding) \in Nat /\ Cardinality(Awake) \in Nat
        /\ Cardinality(Awake') \in Nat
        /\ "catch" # "blocked" => At({"blocked"})' \subseteq At({"blocked"})
        /\ pc' \in [Callers -> Places]
    BY <2>1, StepOne
  <2>3. /\ Delta("catch", {"using", "catch"}, pc[t]) = 0
        /\ Delta("catch", {"woken", "expired"}, pc[t]) = 0
    BY <1>7 DEF EnterCatch, Delta
  <2>4. PoolType'
    BY <1>7, <2>2 DEF EnterCatch, PoolType
  <2>5. PoolConserved'
    BY <1>7, <2>2, <2>3 DEF EnterCatch, PoolType, PoolConserved
  <2>6. NoLostWakeup'
    BY <1>7, <2>2, <2>3 DEF EnterCatch, PoolType, NoLostWakeup
  <2> QED BY <2>4, <2>5, <2>6 DEF PoolInv
<1>8. ASSUME NEW t \in Callers, ReturnFails(t) PROVE PoolInv'
  <2>1. pc' = [pc EXCEPT ![t] = "out"] /\ "out" \in Places
    BY <1>8 DEF ReturnFails, Places
  <2>2. /\ Cardinality(Holding') =
             Cardinality(Holding) + Delta("out", {"using", "catch"}, pc[t])
        /\ Cardinality(Awake') =
             Cardinality(Awake) + Delta("out", {"woken", "expired"}, pc[t])
        /\ Cardinality(Holding) \in Nat /\ Cardinality(Awake) \in Nat
        /\ Cardinality(Awake') \in Nat
        /\ "out" # "blocked" => At({"blocked"})' \subseteq At({"blocked"})
        /\ pc' \in [Callers -> Places]
    BY <2>1, StepOne
  <2>3. /\ Delta("out", {"using", "catch"}, pc[t]) = 0 - 1
        /\ Delta("out", {"woken", "expired"}, pc[t]) = 0
    BY <1>8 DEF ReturnFails, Delta
  <2>4. PoolType'
    BY <1>8, <2>2 DEF ReturnFails, PoolType
  <2>5. PoolConserved'
    BY <1>8, <2>2, <2>3 DEF ReturnFails, PoolType, PoolConserved
  <2>6. NoLostWakeup'
    BY <1>8, <2>2, <2>3 DEF ReturnFails, PoolType, NoLostWakeup
  <2> QED BY <2>4, <2>5, <2>6 DEF PoolInv
<1>9. ASSUME NEW t \in Callers, Return(t) PROVE PoolInv'
  <2>1. pc[t] \in {"using", "catch"} /\ Leave(t, "out") /\ idle' = idle + 1 /\ lost' = lost
    BY <1>9 DEF Return
  <2>2. /\ Cardinality(Holding') = Cardinality(Holding) - 1
        /\ Cardinality(Holding) \in Nat /\ Cardinality(Awake) \in Nat
        /\ \/ At({"blocked"})' = {}
           \/ At({"blocked"}) # {} /\ Cardinality(Awake') = Cardinality(Awake) + 1
        /\ pc' \in [Callers -> Places]
    BY <2>1, StepLeave
  <2> QED BY <2>1, <2>2 DEF PoolInv, PoolType, PoolConserved, NoLostWakeup
<1>10. CASE UNCHANGED vars
  BY <1>10 DEF vars, PoolInv, PoolType, PoolConserved, NoLostWakeup, Holding, Awake, At
<1> QED BY <1>1, <1>2, <1>3, <1>4, <1>5, <1>6, <1>7, <1>8, <1>9, <1>10 DEF Next, Get

LEMMA PoolInvHolds == Spec => []PoolInv
<1> QED BY InitPoolInv, StepPoolInv, PTL DEF Spec

\* The counters never leave the size of the pool.
THEOREM TypeCorrect == Spec => []TypeOK
<1>1. PoolInv => TypeOK
  <2> SUFFICES ASSUME PoolInv PROVE TypeOK
    OBVIOUS
  <2>1. Cardinality(Holding) \in Nat
    BY AtIsFinite DEF Holding
  <2> QED BY <2>1, PoolSizeIsNat DEF PoolInv, PoolType, PoolConserved, TypeOK, Places
<1> QED BY <1>1, PoolInvHolds, PTL

\* However many callers there are and whatever fails, every connection is idle,
\* held, or lost to a failed reconnection.
THEOREM PoolConservedHolds == Spec => []PoolConserved
<1>1. PoolInv => PoolConserved
  BY DEF PoolInv
<1> QED BY <1>1, PoolInvHolds, PTL

\* One notify_one per returned connection is enough, for any number of callers.
THEOREM NoLostWakeupHolds == Spec => []NoLostWakeup
<1>1. PoolInv => NoLostWakeup
  BY DEF PoolInv
<1> QED BY <1>1, PoolInvHolds, PTL

=============================================================================
