-------------------------- MODULE SessionStateProofs --------------------------
(***************************************************************************)
(* What the fold over a command's exports and unsets computes, for any     *)
(* number of them.  Induction over data is done with sets: UpTo follows    *)
(* from the well-ordering of Nat, and is applied to the set of the indexes *)
(* up to which a statement holds.                                          *)
(***************************************************************************)
EXTENDS SessionState, WellFoundedInduction, SequenceTheorems, TLAPS

LEMMA NatIsWellFounded == IsWellFoundedOn({p \in Nat \X Nat : p[1] < p[2]}, Nat)
  BY NatLessThanWellFounded DEF OpToRel

(* A nonempty set of naturals has a least member.                          *)
LEMMA Least ==
  ASSUME NEW T \in SUBSET Nat, T # {}
  PROVE  \E n \in T : \A m \in T : n <= m
<1> DEFINE Less == {p \in Nat \X Nat : p[1] < p[2]}
<1>1. PICK n \in T : \A m \in T : ~(<<m, n>> \in Less)
  <2>1. IsWellFoundedOn(Less, Nat)
    BY NatIsWellFounded
  <2> HIDE DEF Less
  <2>2. QED
    BY <2>1, WFMin
<1>2. \A m \in T : ~(m < n)
  BY <1>1
<1>3. QED
  BY <1>2

(* Induction up to n: what holds of 0, and passes from each number to the  *)
(* next, holds of all.                                                     *)
LEMMA UpTo ==
  ASSUME NEW n \in Nat, NEW T, 0 \in T, \A k \in 1 .. n : k - 1 \in T => k \in T
  PROVE  0 .. n \subseteq T
<1> DEFINE Bad == {k \in 0 .. n : k \notin T}
<1>1. SUFFICES ASSUME Bad # {} PROVE FALSE
  OBVIOUS
<1>2. PICK k \in Bad : \A m \in Bad : k <= m
  <2>1. Bad \in SUBSET Nat
    OBVIOUS
  <2> HIDE DEF Bad
  <2>2. QED
    BY <1>1, <2>1, Least
<1>3. k \in 1 .. n /\ k - 1 \in 0 .. n /\ ~(k <= k - 1)
  BY <1>2
<1>4. k - 1 \in T
  BY <1>2, <1>3
<1>5. QED
  BY <1>2, <1>3, <1>4

(* The last of the indexes a fold has still to take.                       *)
LEMMA MaxOfIndexes ==
  ASSUME NEW n \in Nat, NEW s \in SUBSET (1 .. n), s # {}
  PROVE  Max(s) \in s /\ \A y \in s : y <= Max(s)
<1> DEFINE T == {n - y : y \in s}
<1>1. T \in SUBSET Nat /\ T # {}
  <2>1. \A y \in s : n - y \in Nat
    OBVIOUS
  <2>2. QED
    BY <2>1
<1>2. PICK m \in T : \A k \in T : m <= k
  <2> HIDE DEF T
  <2> QED BY <1>1, Least
<1>3. PICK x \in s : m = n - x
  OBVIOUS
<1>4. \A y \in s : y <= x
  <2> SUFFICES ASSUME NEW y \in s PROVE y <= x
    OBVIOUS
  <2>1. n - x <= n - y
    BY <1>2, <1>3
  <2>2. QED
    BY <2>1
<1>5. QED
  BY <1>4 DEF Max

(* The recursion by which MapThenFoldSet is defined has a solution.        *)
FoldSolution(g, n, base, F) ==
  \A s \in SUBSET (1 .. n) :
    g[s] = IF s = {} THEN base ELSE F[<<Max(s), g[s \ {Max(s)}]>>]

LEMMA FoldRecursion ==
  ASSUME NEW n \in Nat, NEW X, NEW base \in X, NEW F \in [(1 .. n) \X X -> X]
  PROVE  \E g \in [SUBSET (1 .. n) -> X] : FoldSolution(g, n, base, F)
<1> DEFINE Solves(g, k) ==
             \A s \in SUBSET (1 .. k) :
               g[s] = IF s = {} THEN base ELSE F[<<Max(s), g[s \ {Max(s)}]>>]
           Solvable(k) == \E g \in [SUBSET (1 .. k) -> X] : Solves(g, k)
           T == {k \in 0 .. n : Solvable(k)}
<1>1. 0 \in T
  <2> DEFINE g == [s \in SUBSET (1 .. 0) |-> base]
  <2>1. g \in [SUBSET (1 .. 0) -> X] /\ \A s \in SUBSET (1 .. 0) : s = {} /\ g[s] = base
    OBVIOUS
  <2>2. Solves(g, 0)
    BY <2>1
  <2> HIDE DEF Solves
  <2>3. Solvable(0)
    BY <2>1, <2>2
  <2> HIDE DEF Solvable
  <2>4. QED
    BY <2>3
<1>2. ASSUME NEW k \in 1 .. n, k - 1 \in T
      PROVE  k \in T
  <2>1. PICK h \in [SUBSET (1 .. k - 1) -> X] : Solves(h, k - 1)
    BY <1>2
  <2> DEFINE g == [s \in SUBSET (1 .. k) |->
                     IF k \in s THEN F[<<k, h[s \ {k}]>>] ELSE h[s]]
  <2>2. \A s \in SUBSET (1 .. k) :
          IF k \in s THEN s \ {k} \in SUBSET (1 .. k - 1) ELSE s \in SUBSET (1 .. k - 1)
    OBVIOUS
  <2>3. g \in [SUBSET (1 .. k) -> X]
    <3> SUFFICES ASSUME NEW s \in SUBSET (1 .. k) PROVE g[s] \in X
      OBVIOUS
    <3>1. CASE k \in s
      BY <2>2, <3>1
    <3>2. CASE k \notin s
      BY <2>2, <3>2
    <3>3. QED
      BY <3>1, <3>2
  <2>4. Solves(g, k)
    <3> SUFFICES ASSUME NEW s \in SUBSET (1 .. k)
                 PROVE  g[s] = IF s = {} THEN base ELSE F[<<Max(s), g[s \ {Max(s)}]>>]
      OBVIOUS
    <3>1. CASE k \in s
      <4>1. Max(s) = k
        <5>1. s # {} /\ s \in SUBSET (1 .. k) /\ k \in Nat
          BY <3>1
        <5>2. Max(s) \in s /\ \A y \in s : y <= Max(s)
          BY <5>1, MaxOfIndexes
        <5>3. Max(s) \in 1 .. k /\ k <= Max(s)
          BY <3>1, <5>2
        <5>4. QED
          BY <5>1, <5>3
      <4>2. s \ {k} \in SUBSET (1 .. k) /\ k \notin s \ {k}
        OBVIOUS
      <4>3. g[s \ {k}] = h[s \ {k}]
        BY <4>2
      <4>4. QED
        BY <3>1, <4>1, <4>3
    <3>2. CASE k \notin s
      <4>1. s \in SUBSET (1 .. k - 1) /\ g[s] = h[s]
        BY <2>2, <3>2
      <4>2. CASE s = {}
        BY <2>1, <4>1, <4>2
      <4>3. CASE s # {}
        <5>1. s \ {Max(s)} \in SUBSET (1 .. k - 1) /\ s \ {Max(s)} \in SUBSET (1 .. k)
          BY <4>1
        <5>2. g[s \ {Max(s)}] = h[s \ {Max(s)}]
          BY <3>2, <5>1
        <5>3. QED
          BY <2>1, <4>1, <4>3, <5>2
      <4>4. QED
        BY <4>2, <4>3
    <3>3. QED
      BY <3>1, <3>2
  <2> HIDE DEF Solves, g
  <2>5. Solvable(k)
    BY <2>3, <2>4
  <2> HIDE DEF Solvable
  <2>6. QED
    BY <2>5
<1>3. 0 .. n \subseteq T
  <2> HIDE DEF T
  <2> QED BY <1>1, <1>2, UpTo
<1>4. n \in T
  <2> HIDE DEF T
  <2> QED BY <1>3
<1>5. Solvable(n)
  BY <1>4
<1>6. QED
  BY <1>5 DEF FoldSolution

LEMMA MaxOfPrefix ==
  ASSUME NEW n \in Nat, NEW k \in 1 .. n
  PROVE  /\ (1 .. k) \in SUBSET (1 .. n) /\ 1 .. k # {} /\ Max(1 .. k) = k
         /\ (1 .. k) \ {k} = 1 .. k - 1
<1>1. k \in Nat /\ 1 <= k /\ k <= n
  OBVIOUS
<1>2. k \in 1 .. k /\ \A j \in 1 .. k : j \in 1 .. n
  BY <1>1
<1>3. Max(1 .. k) \in 1 .. k /\ \A y \in 1 .. k : y <= Max(1 .. k)
  BY <1>1, <1>2, MaxOfIndexes
<1>4. Max(1 .. k) \in Nat /\ k <= Max(1 .. k) /\ Max(1 .. k) <= k
  BY <1>2, <1>3
<1>5. QED
  BY <1>1, <1>2, <1>4

-----------------------------------------------------------------------------
LEMMA ExportTyped ==
  ASSUME NEW env \in Env, NEW a \in Assignment
  PROVE  Export(env, a) \in Env
  BY DEF Env, Assignment, Export

LEMMA UnsetTyped ==
  ASSUME NEW env \in Env, NEW n \in Names
  PROVE  Unset(env, n) \in Env
  BY DEF Env, Unset

(* The fold applies the exports one after another, from the first to the   *)
(* last.                                                                   *)
LEMMA ExportsInOrder ==
  ASSUME NEW env \in Env, NEW es \in Seq(Assignment)
  PROVE  \E h \in [0 .. Len(es) -> Env] :
           /\ h[0] = env /\ h[Len(es)] = FoldLeft(Export, env, es)
           /\ \A k \in 1 .. Len(es) : h[k] = Export(h[k - 1], es[k])
<1> DEFINE n == Len(es)
           F == [p \in (1 .. n) \X Env |-> Export(p[2], es[p[1]])]
           Solves(g) == g = [s \in SUBSET (1 .. n) |->
                               IF s = {} THEN env
                               ELSE LET x == Max(s) IN Export(g[s \ {x}], es[x])]
           iter == CHOOSE g : Solves(g)
<1>1. n \in Nat /\ DOMAIN es = 1 .. n /\ \A k \in 1 .. n : es[k] \in Assignment
  OBVIOUS
<1> HIDE DEF n
<1>2. F \in [(1 .. n) \X Env -> Env]
  BY <1>1, ExportTyped
<1>3. PICK g \in [SUBSET (1 .. n) -> Env] : FoldSolution(g, n, env, F)
  <2> HIDE DEF F
  <2> QED BY <1>1, <1>2, FoldRecursion
<1>4. Solves(g)
  <2>1. ASSUME NEW s \in SUBSET (1 .. n), s # {}
        PROVE  g[s] = Export(g[s \ {Max(s)}], es[Max(s)])
    <3>1. Max(s) \in s
      BY <1>1, <2>1, MaxOfIndexes
    <3>2. Max(s) \in 1 .. n /\ g[s \ {Max(s)}] \in Env
      BY <3>1
    <3>3. QED
      BY <1>3, <2>1, <3>2 DEF FoldSolution
  <2>2. g = [s \in SUBSET (1 .. n) |->
               IF s = {} THEN env ELSE Export(g[s \ {Max(s)}], es[Max(s)])]
    BY <1>3, <2>1 DEF FoldSolution
  <2>3. QED
    BY <2>2
<1>5. Solves(iter)
  <2> HIDE DEF Solves
  <2> QED BY <1>4
<1>6. FoldLeft(Export, env, es) = iter[1 .. n]
  BY <1>1, Zenon DEF FoldLeft, MapThenFoldSet
<1> DEFINE h == [k \in 0 .. n |-> iter[1 .. k]]
<1>7. h[0] = env
  <2>1. {} \in SUBSET (1 .. n) /\ 0 \in 0 .. n /\ 1 .. 0 = {}
    BY <1>1
  <2>2. iter[{}] = env
    <3> HIDE DEF iter
    <3> QED BY <1>5, <2>1
  <2>3. QED
    BY <2>1, <2>2
<1>8. ASSUME NEW k \in 1 .. n
      PROVE  h[k] = Export(h[k - 1], es[k])
  <2>1. /\ (1 .. k) \in SUBSET (1 .. n) /\ 1 .. k # {} /\ Max(1 .. k) = k
        /\ (1 .. k) \ {k} = 1 .. k - 1
    BY <1>1, MaxOfPrefix
  <2>2. k \in 0 .. n /\ k - 1 \in 0 .. n
    BY <1>1
  <2> HIDE DEF iter
  <2>3. iter[1 .. k] = Export(iter[(1 .. k) \ {k}], es[k])
    BY <1>5, <2>1
  <2>4. QED
    BY <2>1, <2>2, <2>3
<1>9. h \in [0 .. n -> Env]
  <2> DEFINE T == {k \in 0 .. n : h[k] \in Env}
  <2>1. 0 \in T
    BY <1>1, <1>7
  <2>2. ASSUME NEW k \in 1 .. n, k - 1 \in T PROVE k \in T
    <3>1. h[k] = Export(h[k - 1], es[k]) /\ h[k - 1] \in Env /\ es[k] \in Assignment
      BY <1>1, <1>8, <2>2
    <3>2. h[k] \in Env
      BY <3>1, ExportTyped
    <3>3. QED
      BY <3>2
  <2>3. 0 .. n \subseteq T
    <3> HIDE DEF T
    <3> QED BY <1>1, <2>1, <2>2, UpTo
  <2>4. QED
    BY <2>3
<1>10. h[n] = FoldLeft(Export, env, es)
  BY <1>1, <1>6
<1>11. QED
  <2> HIDE DEF h
  <2> QED BY <1>7, <1>8, <1>9, <1>10 DEF n

(* And the unsets.                                                         *)
LEMMA UnsetsInOrder ==
  ASSUME NEW env \in Env, NEW us \in Seq(Names)
  PROVE  \E h \in [0 .. Len(us) -> Env] :
           /\ h[0] = env /\ h[Len(us)] = FoldLeft(Unset, env, us)
           /\ \A k \in 1 .. Len(us) : h[k] = Unset(h[k - 1], us[k])
<1> DEFINE n == Len(us)
           F == [p \in (1 .. n) \X Env |-> Unset(p[2], us[p[1]])]
           Solves(g) == g = [s \in SUBSET (1 .. n) |->
                               IF s = {} THEN env
                               ELSE LET x == Max(s) IN Unset(g[s \ {x}], us[x])]
           iter == CHOOSE g : Solves(g)
<1>1. n \in Nat /\ DOMAIN us = 1 .. n /\ \A k \in 1 .. n : us[k] \in Names
  OBVIOUS
<1> HIDE DEF n
<1>2. F \in [(1 .. n) \X Env -> Env]
  BY <1>1, UnsetTyped
<1>3. PICK g \in [SUBSET (1 .. n) -> Env] : FoldSolution(g, n, env, F)
  <2> HIDE DEF F
  <2> QED BY <1>1, <1>2, FoldRecursion
<1>4. Solves(g)
  <2>1. ASSUME NEW s \in SUBSET (1 .. n), s # {}
        PROVE  g[s] = Unset(g[s \ {Max(s)}], us[Max(s)])
    <3>1. Max(s) \in s
      BY <1>1, <2>1, MaxOfIndexes
    <3>2. Max(s) \in 1 .. n /\ g[s \ {Max(s)}] \in Env
      BY <3>1
    <3>3. QED
      BY <1>3, <2>1, <3>2 DEF FoldSolution
  <2>2. g = [s \in SUBSET (1 .. n) |->
               IF s = {} THEN env ELSE Unset(g[s \ {Max(s)}], us[Max(s)])]
    BY <1>3, <2>1 DEF FoldSolution
  <2>3. QED
    BY <2>2
<1>5. Solves(iter)
  <2> HIDE DEF Solves
  <2> QED BY <1>4
<1>6. FoldLeft(Unset, env, us) = iter[1 .. n]
  BY <1>1, Zenon DEF FoldLeft, MapThenFoldSet
<1> DEFINE h == [k \in 0 .. n |-> iter[1 .. k]]
<1>7. h[0] = env
  <2>1. {} \in SUBSET (1 .. n) /\ 0 \in 0 .. n /\ 1 .. 0 = {}
    BY <1>1
  <2>2. iter[{}] = env
    <3> HIDE DEF iter
    <3> QED BY <1>5, <2>1
  <2>3. QED
    BY <2>1, <2>2
<1>8. ASSUME NEW k \in 1 .. n
      PROVE  h[k] = Unset(h[k - 1], us[k])
  <2>1. /\ (1 .. k) \in SUBSET (1 .. n) /\ 1 .. k # {} /\ Max(1 .. k) = k
        /\ (1 .. k) \ {k} = 1 .. k - 1
    BY <1>1, MaxOfPrefix
  <2>2. k \in 0 .. n /\ k - 1 \in 0 .. n
    BY <1>1
  <2> HIDE DEF iter
  <2>3. iter[1 .. k] = Unset(iter[(1 .. k) \ {k}], us[k])
    BY <1>5, <2>1
  <2>4. QED
    BY <2>1, <2>2, <2>3
<1>9. h \in [0 .. n -> Env]
  <2> DEFINE T == {k \in 0 .. n : h[k] \in Env}
  <2>1. 0 \in T
    BY <1>1, <1>7
  <2>2. ASSUME NEW k \in 1 .. n, k - 1 \in T PROVE k \in T
    <3>1. h[k] = Unset(h[k - 1], us[k]) /\ h[k - 1] \in Env /\ us[k] \in Names
      BY <1>1, <1>8, <2>2
    <3>2. h[k] \in Env
      BY <3>1, UnsetTyped
    <3>3. QED
      BY <3>2
  <2>3. 0 .. n \subseteq T
    <3> HIDE DEF T
    <3> QED BY <1>1, <2>1, <2>2, UpTo
  <2>4. QED
    BY <2>3
<1>10. h[n] = FoldLeft(Unset, env, us)
  BY <1>1, <1>6
<1>11. QED
  <2> HIDE DEF h
  <2> QED BY <1>7, <1>8, <1>9, <1>10 DEF n

(* The first export can be applied before the rest are folded, which is    *)
(* what the loop of apply_state_update does.                               *)
LEMMA ExportsUnfold ==
  ASSUME NEW env \in Env, NEW es \in Seq(Assignment)
  PROVE  /\ FoldLeft(Export, env, es) \in Env
         /\ es = <<>> => FoldLeft(Export, env, es) = env
         /\ es # <<>> =>
              FoldLeft(Export, env, es) = FoldLeft(Export, Export(env, Head(es)), Tail(es))
<1>1. PICK h \in [0 .. Len(es) -> Env] :
        /\ h[0] = env /\ h[Len(es)] = FoldLeft(Export, env, es)
        /\ \A k \in 1 .. Len(es) : h[k] = Export(h[k - 1], es[k])
  BY ExportsInOrder
<1>2. FoldLeft(Export, env, es) \in Env
  BY <1>1
<1>3. es = <<>> => FoldLeft(Export, env, es) = env
  BY <1>1
<1>4. ASSUME es # <<>>
      PROVE  FoldLeft(Export, env, es) = FoldLeft(Export, Export(env, Head(es)), Tail(es))
  <2> DEFINE rest == Tail(es)
             first == Export(env, Head(es))
             n == Len(rest)
  <2>1. /\ rest \in Seq(Assignment) /\ n \in Nat /\ Len(es) = n + 1
        /\ \A k \in 1 .. n : rest[k] = es[k + 1]
        /\ Head(es) = es[1] /\ Head(es) \in Assignment
    BY <1>4
  <2>2. first \in Env
    BY <2>1, ExportTyped
  <2> HIDE DEF rest, first
  <2>3. PICK g \in [0 .. n -> Env] :
          /\ g[0] = first /\ g[n] = FoldLeft(Export, first, rest)
          /\ \A k \in 1 .. n : g[k] = Export(g[k - 1], rest[k])
    BY <2>1, <2>2, ExportsInOrder
  <2> HIDE DEF n
  <2> DEFINE T == {k \in 0 .. n : g[k] = h[k + 1]}
  <2>4. 0 \in T
    <3>1. h[1] = Export(h[0], es[1]) /\ 0 \in 0 .. n
      BY <1>1, <2>1
    <3>2. QED
      BY <1>1, <2>1, <2>3, <3>1 DEF first
  <2>5. ASSUME NEW k \in 1 .. n, k - 1 \in T PROVE k \in T
    <3>1. k \in 0 .. n /\ k + 1 \in 1 .. Len(es) /\ (k - 1) + 1 = k /\ (k + 1) - 1 = k
      <4>1. n \in Nat /\ Len(es) = n + 1
        BY <2>1
      <4>2. k \in Nat /\ 1 <= k /\ k <= n
        BY <4>1
      <4>3. k \in 0 .. n /\ k + 1 \in 1 .. n + 1
        BY <4>1, <4>2
      <4>4. (k - 1) + 1 = k /\ (k + 1) - 1 = k
        BY <4>2
      <4>5. QED
        BY <4>1, <4>3, <4>4
    <3>2. g[k - 1] = h[k]
      BY <2>5, <3>1
    <3>3. g[k] = Export(h[k], es[k + 1])
      BY <2>1, <2>3, <3>2
    <3>4. h[k + 1] = Export(h[k], es[k + 1])
      BY <1>1, <3>1
    <3>5. QED
      BY <3>1, <3>3, <3>4
  <2>6. 0 .. n \subseteq T
    <3> HIDE DEF T
    <3> QED BY <2>1, <2>4, <2>5, UpTo
  <2>7. g[n] = h[n + 1]
    BY <2>1, <2>6
  <2>8. QED
    BY <1>1, <2>1, <2>3, <2>7 DEF first, rest
<1>5. QED
  BY <1>2, <1>3, <1>4

(* So can the first unset.                                                 *)
LEMMA UnsetsUnfold ==
  ASSUME NEW env \in Env, NEW us \in Seq(Names)
  PROVE  /\ FoldLeft(Unset, env, us) \in Env
         /\ us = <<>> => FoldLeft(Unset, env, us) = env
         /\ us # <<>> =>
              FoldLeft(Unset, env, us) = FoldLeft(Unset, Unset(env, Head(us)), Tail(us))
<1>1. PICK h \in [0 .. Len(us) -> Env] :
        /\ h[0] = env /\ h[Len(us)] = FoldLeft(Unset, env, us)
        /\ \A k \in 1 .. Len(us) : h[k] = Unset(h[k - 1], us[k])
  BY UnsetsInOrder
<1>2. FoldLeft(Unset, env, us) \in Env
  BY <1>1
<1>3. us = <<>> => FoldLeft(Unset, env, us) = env
  BY <1>1
<1>4. ASSUME us # <<>>
      PROVE  FoldLeft(Unset, env, us) = FoldLeft(Unset, Unset(env, Head(us)), Tail(us))
  <2> DEFINE rest == Tail(us)
             first == Unset(env, Head(us))
             n == Len(rest)
  <2>1. /\ rest \in Seq(Names) /\ n \in Nat /\ Len(us) = n + 1
        /\ \A k \in 1 .. n : rest[k] = us[k + 1]
        /\ Head(us) = us[1] /\ Head(us) \in Names
    BY <1>4
  <2>2. first \in Env
    BY <2>1, UnsetTyped
  <2> HIDE DEF rest, first
  <2>3. PICK g \in [0 .. n -> Env] :
          /\ g[0] = first /\ g[n] = FoldLeft(Unset, first, rest)
          /\ \A k \in 1 .. n : g[k] = Unset(g[k - 1], rest[k])
    BY <2>1, <2>2, UnsetsInOrder
  <2> HIDE DEF n
  <2> DEFINE T == {k \in 0 .. n : g[k] = h[k + 1]}
  <2>4. 0 \in T
    <3>1. h[1] = Unset(h[0], us[1]) /\ 0 \in 0 .. n
      BY <1>1, <2>1
    <3>2. QED
      BY <1>1, <2>1, <2>3, <3>1 DEF first
  <2>5. ASSUME NEW k \in 1 .. n, k - 1 \in T PROVE k \in T
    <3>1. k \in 0 .. n /\ k + 1 \in 1 .. Len(us) /\ (k - 1) + 1 = k /\ (k + 1) - 1 = k
      <4>1. n \in Nat /\ Len(us) = n + 1
        BY <2>1
      <4>2. k \in Nat /\ 1 <= k /\ k <= n
        BY <4>1
      <4>3. k \in 0 .. n /\ k + 1 \in 1 .. n + 1
        BY <4>1, <4>2
      <4>4. (k - 1) + 1 = k /\ (k + 1) - 1 = k
        BY <4>2
      <4>5. QED
        BY <4>1, <4>3, <4>4
    <3>2. g[k - 1] = h[k]
      BY <2>5, <3>1
    <3>3. g[k] = Unset(h[k], us[k + 1])
      BY <2>1, <2>3, <3>2
    <3>4. h[k + 1] = Unset(h[k], us[k + 1])
      BY <1>1, <3>1
    <3>5. QED
      BY <3>1, <3>3, <3>4
  <2>6. 0 .. n \subseteq T
    <3> HIDE DEF T
    <3> QED BY <2>1, <2>4, <2>5, UpTo
  <2>7. g[n] = h[n + 1]
    BY <2>1, <2>6
  <2>8. QED
    BY <1>1, <2>1, <2>3, <2>7 DEF first, rest
<1>5. QED
  BY <1>2, <1>3, <1>4

(* One more export at the end is applied to what the others leave.         *)
LEMMA ExportsAppend ==
  ASSUME NEW env \in Env, NEW es \in Seq(Assignment), NEW a \in Assignment
  PROVE  FoldLeft(Export, env, Append(es, a)) = Export(FoldLeft(Export, env, es), a)
<1> DEFINE more == Append(es, a)
           n == Len(es)
<1>1. /\ more \in Seq(Assignment) /\ n \in Nat /\ Len(more) = n + 1 /\ more[n + 1] = a
      /\ \A k \in 1 .. n : more[k] = es[k]
  OBVIOUS
<1>2. PICK h \in [0 .. n -> Env] :
        /\ h[0] = env /\ h[n] = FoldLeft(Export, env, es)
        /\ \A k \in 1 .. n : h[k] = Export(h[k - 1], es[k])
  BY ExportsInOrder
<1> HIDE DEF more, n
<1>3. PICK g \in [0 .. n + 1 -> Env] :
        /\ g[0] = env /\ g[n + 1] = FoldLeft(Export, env, more)
        /\ \A k \in 1 .. n + 1 : g[k] = Export(g[k - 1], more[k])
  <2>1. PICK g \in [0 .. Len(more) -> Env] :
          /\ g[0] = env /\ g[Len(more)] = FoldLeft(Export, env, more)
          /\ \A k \in 1 .. Len(more) : g[k] = Export(g[k - 1], more[k])
    BY <1>1, ExportsInOrder
  <2>2. QED
    BY <1>1, <2>1
<1> DEFINE T == {k \in 0 .. n : g[k] = h[k]}
<1>4. 0 \in T
  BY <1>1, <1>2, <1>3
<1>5. ASSUME NEW k \in 1 .. n, k - 1 \in T PROVE k \in T
  <2>1. k \in 0 .. n /\ k \in 1 .. n + 1 /\ g[k - 1] = h[k - 1]
    BY <1>1, <1>5
  <2>2. g[k] = Export(g[k - 1], es[k]) /\ h[k] = Export(h[k - 1], es[k])
    BY <1>1, <1>2, <1>3, <2>1
  <2>3. QED
    BY <2>1, <2>2
<1>6. 0 .. n \subseteq T
  <2> HIDE DEF T
  <2> QED BY <1>1, <1>4, <1>5, UpTo
<1>7. g[n] = h[n]
  BY <1>1, <1>6
<1>8. g[n + 1] = Export(g[n], a)
  <2>1. n + 1 \in 1 .. n + 1 /\ (n + 1) - 1 = n
    BY <1>1
  <2>2. QED
    BY <1>1, <1>3, <2>1
<1>9. QED
  BY <1>2, <1>3, <1>7, <1>8 DEF more, n

(* The unsets clear the names they list and leave the others.              *)
LEMMA UnsetsResult ==
  ASSUME NEW env \in Env, NEW us \in Seq(Names)
  PROVE  /\ FoldLeft(Unset, env, us) \in Env
         /\ \A x \in Names :
              FoldLeft(Unset, env, us)[x] = IF \E i \in DOMAIN us : us[i] = x THEN Nil ELSE env[x]
<1> DEFINE n == Len(us)
<1>1. n \in Nat /\ DOMAIN us = 1 .. n /\ \A k \in 1 .. n : us[k] \in Names
  OBVIOUS
<1>2. PICK h \in [0 .. n -> Env] :
        /\ h[0] = env /\ h[n] = FoldLeft(Unset, env, us)
        /\ \A k \in 1 .. n : h[k] = Unset(h[k - 1], us[k])
  BY UnsetsInOrder
<1> HIDE DEF n
<1> DEFINE Cleared(k, x) == \E i \in 1 .. k : us[i] = x
           T == {k \in 0 .. n : \A x \in Names : h[k][x] = IF Cleared(k, x) THEN Nil ELSE env[x]}
<1>3. 0 \in T
  BY <1>1, <1>2
<1>4. ASSUME NEW k \in 1 .. n, k - 1 \in T PROVE k \in T
  <2>1. k \in 0 .. n /\ k - 1 \in 0 .. n /\ h[k - 1] \in Env /\ us[k] \in Names
    BY <1>1, <1>2
  <2>2. \A x \in Names : h[k][x] = IF x = us[k] THEN Nil ELSE h[k - 1][x]
    BY <1>2, <2>1 DEF Unset, Env
  <2>3. \A x : Cleared(k, x) <=> x = us[k] \/ Cleared(k - 1, x)
    <3>1. \A i \in 1 .. k : i = k \/ i \in 1 .. k - 1
      BY <2>1
    <3>2. k \in 1 .. k /\ \A i \in 1 .. k - 1 : i \in 1 .. k
      BY <2>1
    <3>3. QED
      BY <3>1, <3>2
  <2>4. \A x \in Names : h[k - 1][x] = IF Cleared(k - 1, x) THEN Nil ELSE env[x]
    BY <1>4
  <2> HIDE DEF Cleared
  <2>5. QED
    BY <2>1, <2>2, <2>3, <2>4
<1>5. 0 .. n \subseteq T
  <2> HIDE DEF T
  <2> QED BY <1>1, <1>3, <1>4, UpTo
<1>6. n \in T
  <2> HIDE DEF T
  <2> QED BY <1>1, <1>5
<1>7. \A x \in Names : h[n][x] = IF \E i \in 1 .. n : us[i] = x THEN Nil ELSE env[x]
  BY <1>6
<1>8. h[n] \in Env
  BY <1>1, <1>2
<1>9. QED
  BY <1>1, <1>2, <1>7, <1>8

=============================================================================
