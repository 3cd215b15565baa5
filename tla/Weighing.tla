------------------------------ MODULE Weighing ------------------------------
(***************************************************************************)
(* Sums over finite sets, for the proofs.                                  *)
(*                                                                         *)
(* What a set of keys weighs, stated without a recursive sum: a weighing   *)
(* is a function c on the subsets of S with c[{}] = 0 and                  *)
(* c[T \union {k}] = c[T] + w[k].  It exists only for a sum of the weights *)
(* of finitely many keys; adding a key extends it and dropping a key       *)
(* restricts it, so no proof about a reserved sum needs an induction.      *)
(* Used by CopyTradingProofs for the in-flight reservations of a session   *)
(* (aa-trigger/src/copySession.ts, inflight).                              *)
(*                                                                         *)
(* The library's sum, in the second half, for what the modules compare as  *)
(* a sum: it is shown to add and drop one element like any sum.            *)
(***************************************************************************)
EXTENDS Integers, FiniteSetTheorems, WellFoundedInduction, Functions, TLAPS

Weighs(c, S, w) ==
    /\ c \in [SUBSET S -> Nat]
    /\ c[{}] = 0
    /\ \A T \in SUBSET S : \A k \in S \ T : c[T \union {k}] = c[T] + w[k]

\* The keys of S, weighted by w, weigh n altogether.
WeighsTo(S, w, n) == \E c : Weighs(c, S, w) /\ c[S] = n

\* No key weighs nothing (an inflight entry that is deleted when its last key goes).
LEMMA WeightEmpty ==
    ASSUME NEW w
    PROVE  WeighsTo({}, w, 0)
<1> DEFINE c == [T \in SUBSET {} |-> 0]
<1>1. Weighs(c, {}, w) /\ c[{}] = 0
  BY DEF Weighs
<1> QED BY <1>1 DEF WeighsTo

LEMMA WeightNat ==
    ASSUME NEW S, NEW w, NEW n, WeighsTo(S, w, n)
    PROVE  n \in Nat /\ (S = {} => n = 0)
<1>1. PICK c : Weighs(c, S, w) /\ c[S] = n
  BY DEF WeighsTo
<1> QED BY <1>1 DEF Weighs

\* Reserving a new key adds its amount.
LEMMA WeightAdd ==
    ASSUME NEW D, NEW S \in SUBSET D, NEW w \in [D -> Nat], NEW n, WeighsTo(S, w, n),
           NEW k \in D, k \notin S, NEW a \in Nat
    PROVE  WeighsTo(S \union {k}, [w EXCEPT ![k] = a], n + a)
<1>1. PICK c : Weighs(c, S, w) /\ c[S] = n
  BY DEF WeighsTo
<1> DEFINE v == [w EXCEPT ![k] = a]
           d == [T \in SUBSET (S \union {k}) |-> IF k \in T THEN c[T \ {k}] + a ELSE c[T]]
<1>2. d \in [SUBSET (S \union {k}) -> Nat]
  <2> SUFFICES ASSUME NEW T \in SUBSET (S \union {k})
               PROVE  (IF k \in T THEN c[T \ {k}] + a ELSE c[T]) \in Nat
    OBVIOUS
  <2>1. CASE k \in T
    <3>1. T \ {k} \in SUBSET S
      OBVIOUS
    <3> QED BY <1>1, <2>1, <3>1 DEF Weighs
  <2>2. CASE k \notin T
    <3>1. T \in SUBSET S
      BY <2>2
    <3> QED BY <1>1, <2>2, <3>1 DEF Weighs
  <2> QED BY <2>1, <2>2
<1>3. d[{}] = 0
  BY <1>1 DEF Weighs
<1>4. ASSUME NEW T \in SUBSET (S \union {k}), NEW j \in (S \union {k}) \ T
      PROVE  d[T \union {j}] = d[T] + v[j]
  <2>0. T \union {j} \in SUBSET (S \union {k})
    OBVIOUS
  <2>1. CASE j = k
    <3>1. T \in SUBSET S /\ (T \union {j}) \ {k} = T /\ k \notin T
      BY <2>1
    <3>2. d[T \union {j}] = c[T] + a /\ d[T] = c[T]
      BY <2>0, <2>1, <3>1
    <3> QED BY <2>1, <3>2
  <2>2. CASE j # k /\ k \in T
    <3> DEFINE U == T \ {k}
    <3>1. U \in SUBSET S /\ j \in S \ U /\ (T \union {j}) \ {k} = U \union {j}
      BY <2>2
    <3>2. c[U \union {j}] = c[U] + w[j]
      BY <1>1, <3>1 DEF Weighs
    <3>3. c[U] \in Nat
      BY <1>1, <3>1 DEF Weighs
    <3>4. d[T \union {j}] = c[U \union {j}] + a /\ d[T] = c[U] + a
      BY <2>0, <2>2, <3>1
    <3>5. w[j] \in Nat /\ v[j] = w[j]
      BY <2>2, <3>1
    <3> HIDE DEF U, v, d
    <3> QED BY <3>2, <3>3, <3>4, <3>5
  <2>3. CASE j # k /\ k \notin T
    <3>1. T \in SUBSET S /\ j \in S \ T /\ k \notin T \union {j}
      BY <2>3
    <3>2. c[T \union {j}] = c[T] + w[j]
      BY <1>1, <3>1 DEF Weighs
    <3> QED BY <2>0, <2>3, <3>1, <3>2
  <2> QED BY <2>1, <2>2, <2>3
<1>5. d[S \union {k}] = n + a
  <2>1. (S \union {k}) \ {k} = S
    OBVIOUS
  <2> QED BY <1>1, <2>1
<1>6. Weighs(d, S \union {k}, v)
  BY <1>2, <1>3, <1>4 DEF Weighs
<1> HIDE DEF d
<1> QED BY <1>5, <1>6 DEF WeighsTo

\* Releasing a key takes exactly its amount away, and never more than there is.
LEMMA WeightDrop ==
    ASSUME NEW D, NEW S \in SUBSET D, NEW w \in [D -> Nat], NEW n, WeighsTo(S, w, n), NEW k \in S
    PROVE  WeighsTo(S \ {k}, w, n - w[k]) /\ n \in Nat /\ w[k] <= n
<1>1. PICK c : Weighs(c, S, w) /\ c[S] = n
  BY DEF WeighsTo
<1> DEFINE U == S \ {k}
           d == [T \in SUBSET U |-> c[T]]
<1>2. U \in SUBSET S /\ k \in S \ U /\ U \union {k} = S
  OBVIOUS
<1>3. c[S] = c[U] + w[k] /\ c[U] \in Nat /\ w[k] \in Nat
  BY <1>1, <1>2 DEF Weighs
<1>4. Weighs(d, U, w)
  <2>1. ASSUME NEW T \in SUBSET U PROVE T \in SUBSET S
    OBVIOUS
  <2>2. d \in [SUBSET U -> Nat] /\ d[{}] = 0
    BY <1>1, <2>1 DEF Weighs
  <2>3. ASSUME NEW T \in SUBSET U, NEW j \in U \ T PROVE d[T \union {j}] = d[T] + w[j]
    <3>1. T \union {j} \in SUBSET U /\ j \in S \ T
      OBVIOUS
    <3> QED BY <1>1, <2>1, <3>1 DEF Weighs
  <2> QED BY <2>2, <2>3 DEF Weighs
<1>5. d[U] = n - w[k]
  BY <1>1, <1>3
<1> HIDE DEF d
<1> QED BY <1>1, <1>3, <1>4, <1>5 DEF WeighsTo

\* A non-empty set of naturals has a least element (the first approve of a batch): the sets of
\* smaller elements are ordered by inclusion, which is well-founded on a finite interval.
LEMMA LeastOfNat ==
    ASSUME NEW T \in SUBSET Nat, T # {}
    PROVE  \E x \in T : \A y \in T : x <= y
<1>1. PICK n : n \in T
  OBVIOUS
<1> DEFINE S == 0 .. n
           Below(x) == {y \in T : y <= x}
           F == {Below(x) : x \in T \intersect S}
<1>2. IsWellFoundedOn(StrictSubsetOrdering(S), SUBSET S)
  <2>1. IsFiniteSet(S)
    BY <1>1, FS_Interval
  <2>2. FiniteSubsetsOf(S) = SUBSET S
    BY <2>1, FS_FiniteSubsetsOfFinite
  <2> QED BY <2>2, FS_StrictSubsetOrderingWellFounded
<1>3. F \subseteq SUBSET S
  <2>1. ASSUME NEW x \in T \intersect S, NEW y \in Below(x) PROVE y \in S
    BY <1>1, <2>1
  <2> QED BY <2>1
<1>4. F # {}
  <2>1. n \in T \intersect S
    BY <1>1
  <2>2. Below(n) \in F
    BY <2>1
  <2> QED BY <2>2
<1>5. PICK B \in F : \A C \in F : <<C, B>> \notin StrictSubsetOrdering(S)
  <2> HIDE DEF F, S
  <2> QED BY <1>2, <1>3, <1>4, WFMin
<1>6. PICK x \in T \intersect S : B = Below(x)
  BY <1>5
<1>7. ASSUME NEW y \in T, ~ (x <= y) PROVE FALSE
  <2>1. y \in T \intersect S /\ Below(y) \in F
    BY <1>1, <1>6, <1>7
  <2>2. Below(y) \subseteq Below(x) /\ x \in Below(x) /\ x \notin Below(y)
    <3>1. x \in T /\ x \in Nat /\ y \in Nat /\ y < x
      BY <1>6, <1>7
    <3>2. ASSUME NEW z \in Below(y) PROVE z \in Below(x)
      BY <3>1, <3>2
    <3>3. x \in Below(x) /\ x \notin Below(y)
      BY <3>1
    <3> QED BY <3>2, <3>3
  <2>3. Below(x) \in SUBSET S /\ Below(y) \in SUBSET S
    BY <1>3, <1>6, <2>1
  <2>4. <<Below(y), Below(x)>> \in StrictSubsetOrdering(S)
    BY <2>2, <2>3 DEF StrictSubsetOrdering
  <2> HIDE DEF F, S, Below
  <2> QED BY <1>5, <1>6, <2>1, <2>4
<1> QED BY <1>6, <1>7
-----------------------------------------------------------------------------
(* Sums over finite sets as the library defines them, by a recursion that  *)
(* takes the elements in an order of its own.  The sum of w over S is      *)
(* shown to be the value at S of the one function that adds up w, after    *)
(* which a proof only adds and drops elements.                             *)

\* A set of subsets that has T whenever it has T less any one element has all of them.
LEMMA FiniteInduction ==
    ASSUME NEW S, IsFiniteSet(S), NEW F,
           \A T \in SUBSET S : (\A k \in T : T \ {k} \in F) => T \in F
    PROVE  SUBSET S \subseteq F
<1> DEFINE Bad == (SUBSET S) \ F
<1> SUFFICES ASSUME Bad # {} PROVE FALSE
  OBVIOUS
<1>1. IsWellFoundedOn(StrictSubsetOrdering(S), SUBSET S)
  <2>1. FiniteSubsetsOf(S) = SUBSET S
    BY FS_FiniteSubsetsOfFinite
  <2> HIDE DEF Bad
  <2> QED BY <2>1, FS_StrictSubsetOrderingWellFounded
<1>2. Bad \subseteq SUBSET S
  OBVIOUS
<1>3. PICK T \in Bad : \A U \in Bad : <<U, T>> \notin StrictSubsetOrdering(S)
  <2> HIDE DEF Bad
  <2> QED BY <1>1, <1>2, WFMin
<1>4. ASSUME NEW k \in T PROVE T \ {k} \in F
  <2>1. T \ {k} \in SUBSET S
    BY <1>3
  <2>2. <<T \ {k}, T>> \in StrictSubsetOrdering(S)
    BY <1>3, <1>4, <2>1 DEF StrictSubsetOrdering
  <2> QED BY <1>3, <2>1, <2>2
<1> QED
  BY <1>3, <1>4

\* c adds up the values of w on the subsets of S.
Adds(c, S, w) ==
    /\ c \in [SUBSET S -> Int]
    /\ c[{}] = 0
    /\ \A T \in SUBSET S : \A k \in S \ T : c[T \union {k}] = c[T] + w[k]

\* The recursion of the library.
Pick(T) == CHOOSE x \in T : TRUE
Recurs(c, S, w) == c = [T \in SUBSET S |-> IF T = {} THEN 0 ELSE w[Pick(T)] + c[T \ {Pick(T)}]]

LEMMA SumIsChosen ==
    ASSUME NEW S, NEW w
    PROVE  SumFunctionOnSet(w, S) = (CHOOSE c : Recurs(c, S, w))[S]
BY DEF SumFunctionOnSet, FoldFunctionOnSet, MapThenFoldSet, Recurs, Pick

LEMMA AddingRecurs ==
    ASSUME NEW S, NEW w, \A k \in S : w[k] \in Int, NEW c, Adds(c, S, w)
    PROVE  Recurs(c, S, w)
<1> SUFFICES ASSUME NEW T \in SUBSET S, T # {}
             PROVE  c[T] = w[Pick(T)] + c[T \ {Pick(T)}]
  BY DEF Recurs, Adds
<1>1. Pick(T) \in T
  BY DEF Pick
<1> DEFINE U == T \ {Pick(T)}
<1>2. U \in SUBSET S /\ Pick(T) \in S \ U /\ U \union {Pick(T)} = T
  BY <1>1
<1>3. c[T] = c[U] + w[Pick(T)] /\ c[U] \in Int /\ w[Pick(T)] \in Int
  BY <1>2 DEF Adds
<1> QED
  BY <1>3

LEMMA RecursUnique ==
    ASSUME NEW S, IsFiniteSet(S), NEW w, NEW c, NEW d, Recurs(c, S, w), Recurs(d, S, w)
    PROVE  c[S] = d[S]
<1> DEFINE F == {T \in SUBSET S : c[T] = d[T]}
<1>1. ASSUME NEW T \in SUBSET S, \A k \in T : T \ {k} \in F PROVE T \in F
  <2>1. CASE T = {}
    BY <2>1 DEF Recurs
  <2>2. CASE T # {}
    <3>1. Pick(T) \in T
      BY <2>2 DEF Pick
    <3>2. T \ {Pick(T)} \in SUBSET S /\ c[T \ {Pick(T)}] = d[T \ {Pick(T)}]
      BY <1>1, <3>1
    <3>3. c[T] = w[Pick(T)] + c[T \ {Pick(T)}]
      BY <2>2 DEF Recurs
    <3>4. d[T] = w[Pick(T)] + d[T \ {Pick(T)}]
      BY <2>2 DEF Recurs
    <3> QED
      BY <3>2, <3>3, <3>4
  <2> QED BY <2>1, <2>2
<1> HIDE DEF F
<1>2. SUBSET S \subseteq F
  BY <1>1, FiniteInduction
<1> QED
  BY <1>2 DEF F

\* One more key.
LEMMA AddsOneMore ==
    ASSUME NEW S, NEW w, NEW k, k \notin S, \A j \in S \union {k} : w[j] \in Int, NEW c, Adds(c, S, w)
    PROVE  \E d : Adds(d, S \union {k}, w)
<1> DEFINE d == [T \in SUBSET (S \union {k}) |-> IF k \in T THEN c[T \ {k}] + w[k] ELSE c[T]]
<1>0. \A T \in SUBSET (S \union {k}) : T \ {k} \in SUBSET S /\ c[T \ {k}] \in Int /\ (k \notin T => T \ {k} = T)
  BY DEF Adds
<1>1. d \in [SUBSET (S \union {k}) -> Int]
  <2>1. ASSUME NEW T \in SUBSET (S \union {k}) PROVE (IF k \in T THEN c[T \ {k}] + w[k] ELSE c[T]) \in Int
    BY <1>0
  <2> QED BY <2>1
<1>2. d[{}] = 0
  BY DEF Adds
<1>3. ASSUME NEW T \in SUBSET (S \union {k}), NEW j \in (S \union {k}) \ T
      PROVE  d[T \union {j}] = d[T] + w[j]
  <2> DEFINE U == T \ {k}
  <2>0. T \union {j} \in SUBSET (S \union {k}) /\ U \in SUBSET S /\ c[U] \in Int /\ w[k] \in Int /\ w[j] \in Int
    BY <1>0
  <2>1. CASE j = k
    <3>1. (T \union {j}) \ {k} = T /\ U = T /\ k \notin T
      BY <2>1
    <3>2. d[T \union {j}] = c[T] + w[k] /\ d[T] = c[T]
      BY <2>0, <2>1, <3>1
    <3> QED BY <2>1, <3>2
  <2>2. CASE j # k /\ k \in T
    <3>1. (T \union {j}) \ {k} = U \union {j} /\ j \in S \ U
      BY <2>2
    <3>2. c[U \union {j}] = c[U] + w[j]
      BY <2>0, <3>1 DEF Adds
    <3>3. d[T \union {j}] = c[U \union {j}] + w[k] /\ d[T] = c[U] + w[k]
      BY <2>0, <2>2, <3>1
    <3> HIDE DEF d, U
    <3> QED BY <2>0, <3>2, <3>3
  <2>3. CASE j # k /\ k \notin T
    <3>1. j \in S \ T /\ T \in SUBSET S /\ k \notin T \union {j}
      BY <2>3
    <3>2. c[T \union {j}] = c[T] + w[j]
      BY <3>1 DEF Adds
    <3>3. d[T \union {j}] = c[T \union {j}] /\ d[T] = c[T]
      BY <2>0, <2>3, <3>1
    <3> QED BY <3>2, <3>3
  <2> QED BY <2>1, <2>2, <2>3
<1>4. Adds(d, S \union {k}, w)
  BY <1>1, <1>2, <1>3 DEF Adds
<1> QED BY <1>4

LEMMA AddsExists ==
    ASSUME NEW S, IsFiniteSet(S), NEW w, \A k \in S : w[k] \in Int
    PROVE  \E c : Adds(c, S, w)
<1> DEFINE F == {T \in SUBSET S : \E c : Adds(c, T, w)}
<1>1. ASSUME NEW T \in SUBSET S, \A k \in T : T \ {k} \in F PROVE T \in F
  <2>1. CASE T = {}
    <3> DEFINE c == [U \in SUBSET {} |-> 0]
    <3>1. Adds(c, {}, w)
      BY DEF Adds
    <3> QED BY <2>1, <3>1
  <2>2. CASE T # {}
    <3>1. PICK k \in T : TRUE
      BY <2>2
    <3>2. PICK c : Adds(c, T \ {k}, w)
      BY <1>1, <3>1
    <3>3. (T \ {k}) \union {k} = T /\ k \notin T \ {k} /\ \A j \in T : w[j] \in Int
      BY <3>1
    <3>4. \E d : Adds(d, (T \ {k}) \union {k}, w)
      BY <3>2, <3>3, AddsOneMore
    <3> QED BY <3>3, <3>4
  <2> QED BY <2>1, <2>2
<1> HIDE DEF F
<1>2. SUBSET S \subseteq F
  BY <1>1, FiniteInduction
<1> QED BY <1>2 DEF F

\* The sum is what any adding function says.
LEMMA SumAdds ==
    ASSUME NEW S, IsFiniteSet(S), NEW w, \A k \in S : w[k] \in Int, NEW c, Adds(c, S, w)
    PROVE  SumFunctionOnSet(w, S) = c[S]
<1>1. Recurs(c, S, w)
  BY AddingRecurs
<1>2. Recurs((CHOOSE d : Recurs(d, S, w)), S, w)
  BY <1>1
<1> QED
  BY <1>1, <1>2, RecursUnique, SumIsChosen

LEMMA SumIsAdded ==
    ASSUME NEW S, IsFiniteSet(S), NEW w, \A k \in S : w[k] \in Int
    PROVE  Adds([T \in SUBSET S |-> SumFunctionOnSet(w, T)], S, w)
<1>1. PICK c : Adds(c, S, w)
  BY AddsExists
<1>2. ASSUME NEW T \in SUBSET S PROVE SumFunctionOnSet(w, T) = c[T]
  <2> DEFINE d == [U \in SUBSET T |-> c[U]]
  <2>1. IsFiniteSet(T)
    BY FS_Subset
  <2>2. Adds(d, T, w)
    <3>1. \A U \in SUBSET T : U \in SUBSET S /\ c[U] \in Int
      BY <1>1 DEF Adds
    <3>2. \A U \in SUBSET T : \A k \in T \ U : U \union {k} \in SUBSET T /\ d[U \union {k}] = d[U] + w[k]
      BY <1>1 DEF Adds
    <3>3. d[{}] = 0
      BY <1>1 DEF Adds
    <3> HIDE DEF d
    <3>4. d \in [SUBSET T -> Int]
      BY <3>1 DEF d
    <3> QED BY <3>2, <3>3, <3>4 DEF Adds
  <2>3. SumFunctionOnSet(w, T) = d[T]
    <3> HIDE DEF d
    <3> QED BY <2>1, <2>2, SumAdds
  <2> QED BY <2>3
<1>3. [T \in SUBSET S |-> SumFunctionOnSet(w, T)] = c
  BY <1>1, <1>2 DEF Adds
<1> QED BY <1>1, <1>3

LEMMA SumEmpty == ASSUME NEW w PROVE SumFunctionOnSet(w, {}) = 0
<1>1. Adds([T \in SUBSET {} |-> SumFunctionOnSet(w, T)], {}, w)
  BY FS_EmptySet, SumIsAdded
<1> QED BY <1>1 DEF Adds

LEMMA SumInt ==
    ASSUME NEW S, IsFiniteSet(S), NEW w, \A k \in S : w[k] \in Int
    PROVE  SumFunctionOnSet(w, S) \in Int
<1>1. Adds([T \in SUBSET S |-> SumFunctionOnSet(w, T)], S, w)
  BY SumIsAdded
<1> QED BY <1>1 DEF Adds

\* One more element adds its value, one less takes it away.
LEMMA SumMore ==
    ASSUME NEW S, IsFiniteSet(S), NEW w, NEW k, k \notin S, \A j \in S \union {k} : w[j] \in Int
    PROVE  SumFunctionOnSet(w, S \union {k}) = SumFunctionOnSet(w, S) + w[k]
<1>1. IsFiniteSet(S \union {k})
  BY FS_AddElement
<1>2. Adds([T \in SUBSET (S \union {k}) |-> SumFunctionOnSet(w, T)], S \union {k}, w)
  BY <1>1, SumIsAdded
<1>3. S \in SUBSET (S \union {k}) /\ k \in (S \union {k}) \ S
  OBVIOUS
<1> QED BY <1>2, <1>3 DEF Adds

LEMMA SumLess ==
    ASSUME NEW S, IsFiniteSet(S), NEW w, NEW k \in S, \A j \in S : w[j] \in Int
    PROVE  /\ SumFunctionOnSet(w, S) = SumFunctionOnSet(w, S \ {k}) + w[k]
           /\ SumFunctionOnSet(w, S \ {k}) \in Int
<1>1. IsFiniteSet(S \ {k}) /\ (S \ {k}) \union {k} = S
  BY FS_RemoveElement
<1>2. k \notin S \ {k} /\ w[k] \in Int /\ \A j \in S \ {k} : w[j] \in Int
  OBVIOUS
<1>3. SumFunctionOnSet(w, (S \ {k}) \union {k}) = SumFunctionOnSet(w, S \ {k}) + w[k]
  BY <1>1, <1>2, SumMore
<1>4. SumFunctionOnSet(w, S \ {k}) \in Int
  BY <1>1, <1>2, SumInt
<1> QED BY <1>1, <1>3, <1>4

\* Only the values at the elements count.
LEMMA SumSame ==
    ASSUME NEW S, IsFiniteSet(S), NEW w, NEW v, \A k \in S : w[k] \in Int /\ v[k] = w[k]
    PROVE  SumFunctionOnSet(v, S) = SumFunctionOnSet(w, S)
<1>1. PICK c : Adds(c, S, w)
  BY AddsExists
<1>2. Adds(c, S, v)
  BY <1>1 DEF Adds
<1> QED BY <1>1, <1>2, SumAdds

\* A value that changes changes the sum by as much.
LEMMA SumChanges ==
    ASSUME NEW S, IsFiniteSet(S), NEW w, NEW v, NEW k \in S, \A j \in S : w[j] \in Int, v[k] \in Int,
           \A j \in S : j # k => v[j] = w[j]
    PROVE  SumFunctionOnSet(v, S) = SumFunctionOnSet(w, S) - w[k] + v[k]
<1>1. SumFunctionOnSet(v, S \ {k}) = SumFunctionOnSet(w, S \ {k})
  BY FS_RemoveElement, SumSame
<1>2. SumFunctionOnSet(v, S) = SumFunctionOnSet(v, S \ {k}) + v[k]
  BY SumLess
<1> QED BY <1>1, <1>2, SumLess

\* Where no value is larger, the sum is not.
LEMMA SumAtMost ==
    ASSUME NEW S, IsFiniteSet(S), NEW w, NEW v, \A k \in S : w[k] \in Int /\ v[k] \in Int /\ w[k] <= v[k]
    PROVE  SumFunctionOnSet(w, S) <= SumFunctionOnSet(v, S)
<1> DEFINE F == {T \in SUBSET S : SumFunctionOnSet(w, T) <= SumFunctionOnSet(v, T)}
<1>1. ASSUME NEW T \in SUBSET S, \A k \in T : T \ {k} \in F PROVE T \in F
  <2>1. CASE T = {}
    BY <2>1, SumEmpty
  <2>2. CASE T # {}
    <3>1. PICK k \in T : TRUE
      BY <2>2
    <3>2. SumFunctionOnSet(w, T \ {k}) <= SumFunctionOnSet(v, T \ {k})
      BY <1>1, <3>1
    <3>3. IsFiniteSet(T)
      BY FS_Subset
    <3>4. /\ SumFunctionOnSet(w, T) = SumFunctionOnSet(w, T \ {k}) + w[k]
          /\ SumFunctionOnSet(w, T \ {k}) \in Int
      BY <3>1, <3>3, SumLess
    <3>5. /\ SumFunctionOnSet(v, T) = SumFunctionOnSet(v, T \ {k}) + v[k]
          /\ SumFunctionOnSet(v, T \ {k}) \in Int
      BY <3>1, <3>3, SumLess
    <3>6. w[k] \in Int /\ v[k] \in Int /\ w[k] <= v[k]
      BY <3>1
    <3> QED BY <3>2, <3>4, <3>5, <3>6
  <2> QED BY <2>1, <2>2
<1> HIDE DEF F
<1>2. SUBSET S \subseteq F
  BY <1>1, FiniteInduction
<1> QED BY <1>2 DEF F

\* A sum of naturals is one, and no part of it is larger.
LEMMA SumNat ==
    ASSUME NEW S, IsFiniteSet(S), NEW w, \A k \in S : w[k] \in Nat
    PROVE  /\ SumFunctionOnSet(w, S) \in Nat
           /\ \A k \in S : w[k] <= SumFunctionOnSet(w, S)
<1> DEFINE F == {T \in SUBSET S : SumFunctionOnSet(w, T) \in Nat}
<1>1. ASSUME NEW T \in SUBSET S, \A k \in T : T \ {k} \in F PROVE T \in F
  <2>1. CASE T = {}
    BY <2>1, SumEmpty
  <2>2. CASE T # {}
    <3>1. PICK k \in T : TRUE
      BY <2>2
    <3>2. SumFunctionOnSet(w, T \ {k}) \in Nat /\ w[k] \in Nat
      BY <1>1, <3>1
    <3>3. IsFiniteSet(T)
      BY FS_Subset
    <3>4. SumFunctionOnSet(w, T) = SumFunctionOnSet(w, T \ {k}) + w[k]
      BY <3>1, <3>3, SumLess
    <3> QED BY <3>2, <3>4
  <2> QED BY <2>1, <2>2
<1> HIDE DEF F
<1>2. SUBSET S \subseteq F
  BY <1>1, FiniteInduction
<1>3. \A T \in SUBSET S : SumFunctionOnSet(w, T) \in Nat
  BY <1>2 DEF F
<1>4. ASSUME NEW k \in S PROVE w[k] <= SumFunctionOnSet(w, S)
  <2>1. SumFunctionOnSet(w, S) = SumFunctionOnSet(w, S \ {k}) + w[k]
    BY SumLess
  <2>2. SumFunctionOnSet(w, S \ {k}) \in Nat /\ w[k] \in Nat
    BY <1>3
  <2> QED BY <2>1, <2>2
<1> QED BY <1>3, <1>4

\* The sum over two sets that share nothing.
LEMMA SumUnion ==
    ASSUME NEW S, IsFiniteSet(S), NEW R, IsFiniteSet(R), R \intersect S = {}, NEW w,
           \A k \in S \union R : w[k] \in Int
    PROVE  SumFunctionOnSet(w, S \union R) = SumFunctionOnSet(w, S) + SumFunctionOnSet(w, R)
<1> DEFINE F == {T \in SUBSET R : SumFunctionOnSet(w, S \union T) = SumFunctionOnSet(w, S) + SumFunctionOnSet(w, T)}
<1>1. ASSUME NEW T \in SUBSET R, \A k \in T : T \ {k} \in F PROVE T \in F
  <2>0. SumFunctionOnSet(w, S) \in Int
    BY SumInt
  <2>1. CASE T = {}
    <3>1. S \union T = S
      BY <2>1
    <3> QED BY <2>0, <2>1, <3>1, SumEmpty
  <2>2. CASE T # {}
    <3>1. PICK k \in T : TRUE
      BY <2>2
    <3>2. SumFunctionOnSet(w, S \union (T \ {k})) = SumFunctionOnSet(w, S) + SumFunctionOnSet(w, T \ {k})
      BY <1>1, <3>1
    <3>3. IsFiniteSet(T) /\ IsFiniteSet(S \union T)
      BY FS_Subset, FS_Union
    <3>4. (S \union T) \ {k} = S \union (T \ {k}) /\ k \in S \union T /\ \A j \in S \union T : w[j] \in Int
      BY <3>1
    <3>5. SumFunctionOnSet(w, S \union T) = SumFunctionOnSet(w, S \union (T \ {k})) + w[k]
      BY <3>3, <3>4, SumLess
    <3>6. SumFunctionOnSet(w, T) = SumFunctionOnSet(w, T \ {k}) + w[k] /\ SumFunctionOnSet(w, T \ {k}) \in Int
      BY <3>1, <3>3, SumLess
    <3>7. w[k] \in Int
      BY <3>1
    <3> QED BY <2>0, <3>2, <3>5, <3>6, <3>7
  <2> QED BY <2>1, <2>2
<1> HIDE DEF F
<1>2. SUBSET R \subseteq F
  BY <1>1, FiniteInduction
<1> QED BY <1>2 DEF F

\* The sum of all values of a function: of none, of one, and of one more.
LEMMA SumOfNone == ASSUME NEW f, DOMAIN f = {} PROVE SumFunction(f) = 0
BY SumEmpty DEF SumFunction

LEMMA SumOfMore ==
    ASSUME NEW f, NEW g, NEW k, IsFiniteSet(DOMAIN f), k \notin DOMAIN f, DOMAIN g = DOMAIN f \union {k},
           \A j \in DOMAIN f : f[j] \in Int /\ g[j] = f[j], g[k] \in Int
    PROVE  SumFunction(g) = SumFunction(f) + g[k] /\ SumFunction(f) \in Int
<1>1. SumFunctionOnSet(g, DOMAIN f \union {k}) = SumFunctionOnSet(g, DOMAIN f) + g[k]
  BY SumMore
<1>2. SumFunctionOnSet(g, DOMAIN f) = SumFunctionOnSet(f, DOMAIN f)
  BY SumSame
<1>3. SumFunctionOnSet(f, DOMAIN f) \in Int
  BY SumInt
<1> QED BY <1>1, <1>2, <1>3 DEF SumFunction

LEMMA SumOfOne == ASSUME NEW f, NEW k, DOMAIN f = {k}, f[k] \in Int PROVE SumFunction(f) = f[k]
<1> DEFINE e == [j \in {} |-> 0]
<1>1. DOMAIN e = {} /\ IsFiniteSet(DOMAIN e) /\ DOMAIN f = DOMAIN e \union {k}
  BY FS_EmptySet
<1> HIDE DEF e
<1>2. SumFunction(f) = SumFunction(e) + f[k]
  BY <1>1, SumOfMore
<1> QED BY <1>1, <1>2, SumOfNone

\* A function that is nowhere larger, on fewer arguments, sums up to no more.
LEMMA SumOfFewer ==
    ASSUME NEW f, NEW g, IsFiniteSet(DOMAIN g), DOMAIN f \subseteq DOMAIN g,
           \A j \in DOMAIN g : g[j] \in Nat, \A j \in DOMAIN f : f[j] \in Int /\ f[j] <= g[j]
    PROVE  SumFunction(f) \in Int /\ SumFunction(g) \in Int /\ SumFunction(f) <= SumFunction(g)
<1> DEFINE S == DOMAIN f
           R == DOMAIN g \ S
<1>1. IsFiniteSet(S) /\ IsFiniteSet(R) /\ R \intersect S = {} /\ S \union R = DOMAIN g
  BY FS_Subset
<1>2. \A j \in S : f[j] \in Int /\ g[j] \in Int /\ f[j] <= g[j]
  OBVIOUS
<1>3. \A j \in R : g[j] \in Nat
  OBVIOUS
<1>4. SumFunctionOnSet(g, DOMAIN g) = SumFunctionOnSet(g, S) + SumFunctionOnSet(g, R)
  <2>1. \A j \in S \union R : g[j] \in Int
    BY <1>2, <1>3
  <2> HIDE DEF S, R
  <2>2. SumFunctionOnSet(g, S \union R) = SumFunctionOnSet(g, S) + SumFunctionOnSet(g, R)
    BY <1>1, <2>1, SumUnion
  <2> QED BY <1>1, <2>2
<1> HIDE DEF R
<1>5. SumFunctionOnSet(f, S) <= SumFunctionOnSet(g, S)
  BY <1>1, <1>2, SumAtMost
<1>6. SumFunctionOnSet(g, R) \in Nat
  BY <1>1, <1>3, SumNat
<1>7. SumFunctionOnSet(f, S) \in Int /\ SumFunctionOnSet(g, S) \in Int
  BY <1>1, <1>2, SumInt
<1> QED BY <1>4, <1>5, <1>6, <1>7 DEF SumFunction
=============================================================================
