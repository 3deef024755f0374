----------------------------- MODULE SlotsProofs -----------------------------
(***************************************************************************)
(* Proofs about Slots, for any finite pool of threads and any limit.       *)
(***************************************************************************)
EXTENDS Slots, FiniteSetTheorems, TLAPS

(* _ACTIVE_LOCK is held between the read and the write of _ACTIVE, and     *)
(* what was read is still true at the write.                               *)
CounterInv ==
  \A t \in Threads :
    /\ lock = t <=> pc[t] \in {"inc", "dec"}
    /\ pc[t] \in {"inc", "dec"} => read[t] = active

(* Counted even while the lock is held: a thread is in the counter from    *)
(* its increment until its decrement.                                      *)
Counted == At({"body", "exit", "dec"})

IInv == TypeOK /\ CounterInv /\ PermitsConserved /\ active = Cardinality(Counted)

(* What one step of one thread does to a set of threads given by labels.   *)
LEMMA AtStep ==
  ASSUME pc \in [Threads -> Labels], NEW t \in Threads, NEW from, NEW to, Step(t, from, to),
         NEW S \in SUBSET Labels
  PROVE  /\ from \in S <=> t \in At(S)
         /\ At(S)' = IF to \in S THEN At(S) \cup {t} ELSE At(S) \ {t}
         /\ IsFiniteSet(At(S)) /\ Cardinality(At(S)) \in Nat
         /\ Cardinality(At(S)') = Cardinality(At(S))
              + (IF to \in S THEN 1 ELSE 0) - (IF from \in S THEN 1 ELSE 0)
<1>1. from \in S <=> t \in At(S)
  BY DEF Step, At
<1>2. At(S)' = IF to \in S THEN At(S) \cup {t} ELSE At(S) \ {t}
  BY DEF Step, At
<1>3. IsFiniteSet(At(S)) /\ Cardinality(At(S)) \in Nat
  <2>1. At(S) \in SUBSET Threads
    BY DEF At
  <2>2. QED
    BY <2>1, ThreadsAssumption, FS_Subset, FS_CardinalityType
<1>4. /\ Cardinality(At(S) \cup {t}) = IF t \in At(S) THEN Cardinality(At(S)) ELSE Cardinality(At(S)) + 1
      /\ Cardinality(At(S) \ {t}) = IF t \in At(S) THEN Cardinality(At(S)) - 1 ELSE Cardinality(At(S))
  BY <1>3, FS_AddElement, FS_RemoveElement
<1>5. QED
  BY <1>1, <1>2, <1>3, <1>4

(* The threads of one set of labels are no more than those of a larger one.*)
LEMMA AtMonotone ==
  ASSUME NEW S \in SUBSET Labels, NEW T \in SUBSET S
  PROVE  /\ Cardinality(At(T)) \in Nat /\ Cardinality(At(S)) \in Nat
         /\ Cardinality(At(T)) <= Cardinality(At(S))
<1>1. At(T) \in SUBSET At(S) /\ At(S) \in SUBSET Threads
  BY DEF At
<1>2. IsFiniteSet(At(S)) /\ IsFiniteSet(At(T))
  BY <1>1, ThreadsAssumption, FS_Subset
<1>3. QED
  BY <1>1, <1>2, FS_Subset, FS_CardinalityType

LEMMA InitIInv == Init => IInv
<1> SUFFICES ASSUME Init PROVE IInv
  OBVIOUS
<1>1. Holders = {} /\ Counted = {}
  BY DEF Init, Holders, Counted, At, Labels
<1>2. TypeOK
  BY LimitAssumption DEF Init, TypeOK, Labels
<1>3. CounterInv
  BY ThreadsAssumption DEF Init, CounterInv
<1>4. PermitsConserved /\ active = Cardinality(Counted)
  BY <1>1, FS_EmptySet, LimitAssumption DEF Init, PermitsConserved
<1>5. QED
  BY <1>2, <1>3, <1>4 DEF IInv

(* How each step of a thread moves the two counts that matter.             *)
LEMMA CountStep ==
  ASSUME TypeOK, NEW t \in Threads, NEW from, NEW to, Step(t, from, to),
         from \in Labels, to \in Labels
  PROVE  LET in(l, S) == IF l \in S THEN 1 ELSE 0
             held == Labels \ {"idle", "acquire"}
             counted == {"body", "exit", "dec"}
         IN  /\ Cardinality(Holders)' = Cardinality(Holders) + in(to, held) - in(from, held)
             /\ Cardinality(Counted)' = Cardinality(Counted) + in(to, counted) - in(from, counted)
             /\ Cardinality(Holders) \in Nat /\ Cardinality(Counted) \in Nat
<1>1. pc \in [Threads -> Labels]
  BY DEF TypeOK
<1>2. (Labels \ {"idle", "acquire"}) \in SUBSET Labels /\ {"body", "exit", "dec"} \in SUBSET Labels
  BY DEF Labels
<1>3. QED
  BY <1>1, <1>2, AtStep DEF Holders, Counted

LEMMA NextIInv == IInv /\ [Next]_vars => IInv'
<1> SUFFICES ASSUME IInv, [Next]_vars PROVE IInv'
  OBVIOUS
<1> USE DEF IInv
<1>1. ASSUME NEW t \in Threads, Call(t)
      PROVE  IInv'
  <2>1. TypeOK' /\ CounterInv'
    BY <1>1 DEF Call, Step, TypeOK, CounterInv, Labels
  <2>2. Cardinality(Holders)' = Cardinality(Holders) /\ Cardinality(Counted)' = Cardinality(Counted)
    BY <1>1, CountStep DEF Call, Labels
  <2>3. QED
    BY <1>1, <2>1, <2>2 DEF Call, PermitsConserved
<1>2. ASSUME NEW t \in Threads, Acquire(t)
      PROVE  IInv'
  <2>1. TypeOK' /\ CounterInv'
    BY <1>2, LimitAssumption DEF Acquire, Step, TypeOK, CounterInv, Labels
  <2>2. /\ Cardinality(Holders)' = Cardinality(Holders) + 1
        /\ Cardinality(Counted)' = Cardinality(Counted)
        /\ Cardinality(Holders) \in Nat
    BY <1>2, CountStep DEF Acquire, Labels
  <2>3. QED
    BY <1>2, <2>1, <2>2, LimitAssumption DEF Acquire, PermitsConserved, TypeOK
<1>3. ASSUME NEW t \in Threads, ReadActive(t)
      PROVE  IInv'
  <2>1. TypeOK' /\ CounterInv'
    BY <1>3, ThreadsAssumption DEF ReadActive, Step, TypeOK, CounterInv, Labels
  <2>2. Cardinality(Holders)' = Cardinality(Holders) /\ Cardinality(Counted)' = Cardinality(Counted)
    BY <1>3, CountStep DEF ReadActive, Labels
  <2>3. QED
    BY <1>3, <2>1, <2>2 DEF ReadActive, PermitsConserved
<1>4. ASSUME NEW t \in Threads, Increment(t)
      PROVE  IInv'
  <2>1. TypeOK' /\ CounterInv'
    BY <1>4, ThreadsAssumption DEF Increment, Step, TypeOK, CounterInv, Labels
  <2>2. /\ Cardinality(Holders)' = Cardinality(Holders)
        /\ Cardinality(Counted)' = Cardinality(Counted) + 1
    BY <1>4, CountStep DEF Increment, Labels
  <2>3. active' = active + 1
    BY <1>4 DEF Increment, Step, CounterInv
  <2>4. QED
    BY <1>4, <2>1, <2>2, <2>3 DEF Increment, PermitsConserved
<1>5. ASSUME NEW t \in Threads, BodyEnds(t)
      PROVE  IInv'
  <2>1. TypeOK' /\ CounterInv'
    BY <1>5 DEF BodyEnds, Step, TypeOK, CounterInv, Labels
  <2>2. Cardinality(Holders)' = Cardinality(Holders) /\ Cardinality(Counted)' = Cardinality(Counted)
    BY <1>5, CountStep DEF BodyEnds, Labels
  <2>3. QED
    BY <1>5, <2>1, <2>2 DEF BodyEnds, PermitsConserved
<1>6. ASSUME NEW t \in Threads, Decrement(t)
      PROVE  IInv'
  <2>1. TypeOK' /\ CounterInv'
    BY <1>6, ThreadsAssumption DEF Decrement, Step, TypeOK, CounterInv, Labels
  <2>2. /\ Cardinality(Holders)' = Cardinality(Holders)
        /\ Cardinality(Counted)' = Cardinality(Counted) - 1
    BY <1>6, CountStep DEF Decrement, Labels
  <2>3. active' = active - 1
    BY <1>6 DEF Decrement, Step, CounterInv
  <2>4. QED
    BY <1>6, <2>1, <2>2, <2>3 DEF Decrement, PermitsConserved
<1>7. ASSUME NEW t \in Threads, Release(t)
      PROVE  IInv'
  <2>1. /\ Cardinality(Holders)' = Cardinality(Holders) - 1
        /\ Cardinality(Counted)' = Cardinality(Counted)
        /\ Cardinality(Holders) \in Nat /\ Cardinality(Holders)' \in Nat
    <3>1. Cardinality(Holders)' \in Nat
      <4>1. Holders' \in SUBSET Threads
        BY DEF Holders, At
      <4>2. QED
        BY <4>1, ThreadsAssumption, FS_Subset, FS_CardinalityType
    <3>2. QED
      BY <1>7, <3>1, CountStep DEF Release, Labels
  <2>2. permits' \in 0 .. MaxConcurrent
    BY <1>7, <2>1, LimitAssumption DEF Release, PermitsConserved, TypeOK
  <2>3. TypeOK' /\ CounterInv'
    BY <1>7, <2>2 DEF Release, Step, TypeOK, CounterInv, Labels
  <2>4. QED
    BY <1>7, <2>1, <2>3, LimitAssumption DEF Release, PermitsConserved, TypeOK
<1>8. CASE UNCHANGED vars
  BY <1>8 DEF vars, TypeOK, CounterInv, PermitsConserved, Holders, Counted, At
<1>9. QED
  BY <1>1, <1>2, <1>3, <1>4, <1>5, <1>6, <1>7, <1>8 DEF Next, Continue

THEOREM SlotsInvariant == Spec => []IInv
  BY InitIInv, NextIInv, PTL DEF Spec

(* The variables keep their types: no release takes the BoundedSemaphore   *)
(* over its initial value, for any number of threads.                      *)
THEOREM SlotsTypeCorrect == Spec => []TypeOK
<1>1. IInv => TypeOK
  BY DEF IInv
<1>2. QED
  BY <1>1, SlotsInvariant, PTL

(* No permit is lost or doubled, for any number of threads.                *)
THEOREM PermitsAreConserved == Spec => []PermitsConserved
<1>1. IInv => PermitsConserved
  BY DEF IInv
<1>2. QED
  BY <1>1, SlotsInvariant, PTL

(* At most MAX_CONCURRENT commands run at once, for any limit and any      *)
(* number of tool threads.                                                 *)
THEOREM CapAlwaysHolds == Spec => []CapHolds
<1>1. IInv => CapHolds
  <2> SUFFICES ASSUME IInv PROVE CapHolds
    OBVIOUS
  <2>1. /\ Cardinality(At({"body"})) \in Nat /\ Cardinality(Holders) \in Nat
        /\ Cardinality(At({"body"})) <= Cardinality(Holders)
    BY AtMonotone DEF Holders, Labels
  <2>2. QED
    BY <2>1, LimitAssumption DEF IInv, TypeOK, PermitsConserved, CapHolds
<1>2. QED
  BY <1>1, SlotsInvariant, PTL

(* The count that bash_mcp_status reports is exact when it is read, and    *)
(* never above the limit.                                                  *)
THEOREM ActiveCountExact == Spec => []ActiveIsExact
<1>1. IInv => ActiveIsExact
  <2> SUFFICES ASSUME IInv, lock = Nil PROVE active = Cardinality(At({"body", "exit"}))
    BY DEF ActiveIsExact
  <2>1. Counted = At({"body", "exit"})
    BY ThreadsAssumption DEF IInv, CounterInv, Counted, At
  <2>2. QED
    BY <2>1 DEF IInv
<1>2. QED
  BY <1>1, SlotsInvariant, PTL

THEOREM ActiveCountWithinCap == Spec => []ActiveWithinCap
<1>1. IInv => ActiveWithinCap
  <2> SUFFICES ASSUME IInv PROVE ActiveWithinCap
    OBVIOUS
  <2>1. /\ Cardinality(Counted) \in Nat /\ Cardinality(Holders) \in Nat
        /\ Cardinality(Counted) <= Cardinality(Holders)
    BY AtMonotone DEF Holders, Counted, Labels
  <2>2. QED
    BY <2>1, LimitAssumption DEF IInv, TypeOK, PermitsConserved, ActiveWithinCap
<1>2. QED
  BY <1>1, SlotsInvariant, PTL
=============================================================================
