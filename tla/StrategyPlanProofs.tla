-------------------------- MODULE StrategyPlanProofs --------------------------
(***************************************************************************)
(* Proofs about StrategyPlan.  The Sell-Caps cover what the owner agreed   *)
(* to at the snapshot prices, rounded up by less than one unit, for every  *)
(* basket, budget, turnover and price, in whatever order quotes answer.    *)
(* The legs of a tick never cross the target, and only a cap keeps them    *)
(* from reaching it, for any number of tokens on either side.              *)
(***************************************************************************)
EXTENDS StrategyPlan, Weighing, SequenceTheorems

-----------------------------------------------------------------------------
(* Arithmetic of the caps.                                                 *)

\* The quotient rounded up is the smallest one that is enough.
Covers(c, unit, want) == c * unit >= want /\ (c - 1) * unit < want

LEMMA CeilDivCovers ==
    ASSUME NEW a \in Nat, NEW b \in Nat \ {0}
    PROVE  CeilDiv(a, b) \in Int /\ Covers(CeilDiv(a, b), b, a)
<1> DEFINE n == a + b - 1
           c == n \div b
<1>1. n \in Nat /\ b \in Int /\ b > 0
  OBVIOUS
<1> HIDE DEF n
<1>2. c \in Int /\ b * c <= n /\ n < b * c + b
  BY <1>1
<1> HIDE DEF c
<1>3. c * b = b * c /\ (c - 1) * b = b * c - b
  BY <1>1, <1>2
<1>4. c * b >= a /\ (c - 1) * b < a
  BY <1>1, <1>2, <1>3 DEF n
<1>5. CeilDiv(a, b) = c
  BY DEF CeilDiv, c, n
<1> QED
  BY <1>2, <1>4, <1>5 DEF Covers

LEMMA ProductNat == \A x, y \in Nat : x * y \in Nat
OBVIOUS

LEMMA ProductPositive == \A x, y \in Nat \ {0} : x * y \in Nat \ {0}
OBVIOUS

LEMMA MaxOne == \A a \in Int : Max({a}) = a
BY DEF Max

LEMMA MaxTwo == \A a, b \in Int : Max({a, b}) \in {a, b} /\ Max({a, b}) >= a /\ Max({a, b}) >= b
<1> SUFFICES ASSUME NEW a \in Int, NEW b \in Int
             PROVE  Max({a, b}) \in {a, b} /\ Max({a, b}) >= a /\ Max({a, b}) >= b
  OBVIOUS
<1>1. \E x \in {a, b} : \A y \in {a, b} : x >= y
  BY a >= b \/ b >= a
<1> QED
  BY <1>1 DEF Max

LEMMA MaxZero == \A a \in Int : Max({a, 0}) \in Int /\ Max({a, 0}) >= a /\ Max({a, 0}) >= 0
BY MaxTwo

-----------------------------------------------------------------------------
(* The invariant of a prepare.                                             *)

Derived == phase \in {"prepared", "drift", "pair", "done"}

\* Every snapshot is an answer of the quoter, for a live pool.
SnapshotOK ==
    /\ intent \in Intents
    /\ DOMAIN quotes \subseteq Tokens
    /\ \A t \in DOMAIN quotes : quotes[t] \in Prices /\ quotes[t].out # 0

\* The caps are those of the snapshot for the whole life of the session.
CapsInv ==
    /\ SnapshotOK
    /\ Derived => /\ Derivable
                  /\ caps = [t \in Weighted \union {BudgetToken} |-> SellCap(t)]

LEMMA SnapshotParts ==
    ASSUME SnapshotOK
    PROVE  /\ intent.budget \in Nat /\ intent.turnover \in Nat
           /\ \A t \in Basket : t \in Tokens /\ intent.weight[t] \in Nat
           /\ \A t \in Priced : quotes[t].in \in Nat \ {0} /\ quotes[t].out \in Nat \ {0}
<1>1. /\ intent.budget \in Nat /\ intent.turnover \in Nat /\ DOMAIN intent.weight \subseteq Tokens
      /\ \A t \in DOMAIN intent.weight : intent.weight[t] \in 0 .. BPS
  BY IntentAssumption DEF SnapshotOK
<1>2. \A t \in Priced : quotes[t].in \in Nat \ {0} /\ quotes[t].out \in Nat /\ quotes[t].out # 0
  BY IntentAssumption DEF SnapshotOK, Priced
<1>3. \A n \in 0 .. BPS : n \in Nat
  BY DEF BPS
<1> QED
  BY <1>1, <1>2, <1>3 DEF Basket

\* What the owner agreed to trade of t over the life of the session, and what one unit of it is.
Want(t) == intent.budget * intent.weight[t] * intent.turnover * quotes[t].in
Unit(t) == BPS * quotes[t].out

LEMMA BasketCapCovers ==
    ASSUME SnapshotOK, NEW t \in Weighted, t \in Priced
    PROVE  BasketCap(t) \in Int /\ Covers(BasketCap(t), Unit(t), Want(t))
<1>1. intent.budget \in Nat /\ intent.turnover \in Nat /\ intent.weight[t] \in Nat
  BY SnapshotParts DEF Weighted
<1>2. quotes[t].in \in Nat /\ quotes[t].out \in Nat \ {0}
  BY SnapshotParts
<1>3. Want(t) \in Nat
  <2>1. intent.budget * intent.weight[t] \in Nat
    BY <1>1, ProductNat
  <2>2. intent.budget * intent.weight[t] * intent.turnover \in Nat
    BY <1>1, <2>1, ProductNat
  <2> QED
    BY <1>2, <2>2, ProductNat DEF Want
<1>4. Unit(t) \in Nat \ {0}
  BY <1>2 DEF Unit, BPS
<1>5. BasketCap(t) = CeilDiv(Want(t), Unit(t))
  BY DEF BasketCap, Want, Unit
<1> QED
  BY <1>3, <1>4, <1>5, CeilDivCovers

LEMMA SellCapCovers ==
    ASSUME SnapshotOK, Weighted \subseteq Priced
    PROVE  /\ \A t \in Weighted \ {BudgetToken} : Covers(SellCap(t), Unit(t), Want(t))
           /\ SellCap(BudgetToken) >= SourceCap
<1>1. SourceCap \in Int
  BY SnapshotParts, ProductNat DEF SourceCap
<1>2. ASSUME NEW t \in Weighted \ {BudgetToken} PROVE Covers(SellCap(t), Unit(t), Want(t))
  <2>1. {BasketCap(u) : u \in Weighted \intersect {t}} \union {SourceCap : u \in {BudgetToken} \intersect {t}}
          = {BasketCap(t)}
    BY <1>2
  <2>2. BasketCap(t) \in Int /\ Covers(BasketCap(t), Unit(t), Want(t))
    BY <1>2, BasketCapCovers
  <2>3. SellCap(t) = Max({BasketCap(t)})
    BY <2>1 DEF SellCap
  <2> QED
    BY <2>2, <2>3, MaxOne
<1>3. SellCap(BudgetToken) >= SourceCap
  <2> DEFINE S == {BasketCap(u) : u \in Weighted \intersect {BudgetToken}}
                    \union {SourceCap : u \in {BudgetToken} \intersect {BudgetToken}}
  <2>0. SellCap(BudgetToken) = Max(S)
    BY DEF SellCap
  <2>1. CASE BudgetToken \in Weighted
    <3>1. S = {BasketCap(BudgetToken), SourceCap}
      BY <2>1
    <3>2. BasketCap(BudgetToken) \in Int
      BY <2>1, BasketCapCovers
    <3> HIDE DEF S
    <3> QED
      BY <1>1, <2>0, <3>1, <3>2, MaxTwo
  <2>2. CASE BudgetToken \notin Weighted
    <3>1. S = {SourceCap}
      BY <2>2
    <3> HIDE DEF S
    <3> QED
      BY <1>1, <2>0, <3>1, MaxOne
  <2> QED
    BY <2>1, <2>2
<1> QED
  BY <1>2, <1>3

LEMMA InitCaps == Init => CapsInv
<1> SUFFICES ASSUME Init PROVE CapsInv
  OBVIOUS
<1>1. DOMAIN quotes = {}
  BY DEF Init
<1> QED
  BY <1>1 DEF Init, CapsInv, SnapshotOK, Derived

LEMMA CapsKeep == CapsInv /\ [Next]_vars => CapsInv'
<1> SUFFICES ASSUME CapsInv, [Next]_vars PROVE CapsInv'
  OBVIOUS
\* A step that keeps intent, quotes and caps and does not end the snapshot.
<1>0. ASSUME UNCHANGED <<intent, quotes, caps>>, Derived' => Derived PROVE CapsInv'
  BY <1>0 DEF CapsInv, SnapshotOK, Derivable, WellFormedIntent, Weighted, Basket, Priced, SellCap, BasketCap, SourceCap
<1>1. CASE SkipsBudgetToken \/ DeriveThrows
  BY <1>0, <1>1 DEF SkipsBudgetToken, DeriveThrows, prepareVars, Derived
<1>2. CASE Derives
  <2>1. /\ UNCHANGED <<intent, quotes>> /\ Derivable
        /\ caps' = [t \in Weighted \union {BudgetToken} |-> SellCap(t)]
    BY <1>2 DEF Derives
  <2> QED
    BY <2>1 DEF CapsInv, SnapshotOK, Derivable, WellFormedIntent, Weighted, Basket, Priced, SellCap, BasketCap, SourceCap
<1>3. ASSUME NEW t \in Tokens, Quotes(t) PROVE CapsInv'
  <2>1. PICK q \in Prices :
           /\ intent' = intent /\ caps' = caps /\ phase = "snapshot"
           /\ \/ q.out = 0 /\ phase' = "dead" /\ quotes' = quotes
              \/ q.out # 0 /\ phase' = phase /\ quotes' = Extend(quotes, t, q)
    BY <1>3 DEF Quotes
  <2>2. CASE quotes' = quotes
    BY <1>0, <2>1, <2>2 DEF Derived
  <2>3. CASE q.out # 0 /\ phase' = phase /\ quotes' = Extend(quotes, t, q)
    <3>1. /\ DOMAIN quotes' = DOMAIN quotes \union {t}
          /\ \A u \in DOMAIN quotes' : quotes'[u] = IF u = t THEN q ELSE quotes[u]
      BY <2>3 DEF Extend
    <3>2. SnapshotOK'
      BY <2>1, <2>3, <3>1 DEF CapsInv, SnapshotOK
    <3> QED
      BY <2>1, <2>3, <3>2 DEF CapsInv, Derived
  <2> QED
    BY <2>1, <2>2, <2>3
<1>4. CASE TickStarts \/ TickStep
  BY <1>0, <1>4 DEF TickStarts, TickStep, NoChurn, SortsDrift, Pairs, TickEnds, prepareVars, Derived
<1>5. CASE UNCHANGED vars
  BY <1>0, <1>5 DEF vars, prepareVars, Derived
<1> QED
  BY <1>1, <1>2, <1>3, <1>4, <1>5 DEF Next, PrepareStep

-----------------------------------------------------------------------------
(* The invariant of a tick.  Both sides of the pairing keep the same       *)
(* books: a list s of the tokens of W that are not done, with what is left *)
(* of each, next to what they moved so far and what they have to move.     *)

Listed(s) == {s[i].token : i \in DOMAIN s}

\* A listed token has left what it still has to move; one that dropped out moved all of it or is in
\* stop, and the others moved nothing.
Side(s, W, moved, goal, stop) ==
    /\ s \in Entries
    /\ \A i, j \in DOMAIN s : i # j => s[i].token # s[j].token
    /\ \A i \in DOMAIN s : s[i].token \in W /\ moved[s[i].token] + s[i].left = goal[s[i].token]
    /\ \A t \in W \ Listed(s) : moved[t] <= goal[t] /\ (moved[t] = goal[t] \/ t \in stop)
    /\ \A t \in Tokens \ W : moved[t] = 0

Excess == [t \in Tokens |-> Drift(t)]
Need == [t \in Tokens |-> -Drift(t)]
SoldOf == [t \in Tokens |-> Sold(t)]
BoughtOf == [t \in Tokens |-> Bought(t)]

\* The tokens a leg of which was as large as the cap.
SoldCap == {t \in Tokens : \E i \in LegsFrom(t) : legs[i].amount \in CapOf(t)}

\* The pairing has begun, and what NoChurn ends has not.
Pairing == phase = "pair" \/ (phase = "done" /\ legs # <<>>)

Sides ==
    /\ Side(overs, OverWeight, SoldOf, Excess, SoldCap)
    /\ Side(unders, UnderWeight, BoughtOf, Need, {})

TickInv ==
    /\ Pairing => Sides
    /\ ~Pairing => legs = <<>>
    /\ phase = "done" /\ legs # <<>> => overs = <<>> \/ unders = <<>>

LEMMA MinOf ==
    ASSUME NEW a \in Nat \ {0}, NEW b \in Nat \ {0}, NEW C, C = {} \/ (\E c \in Nat \ {0} : C = {c})
    PROVE  /\ Min({a, b} \union C) \in Nat \ {0} /\ Min({a, b} \union C) \in {a, b} \union C
           /\ Min({a, b} \union C) <= a /\ Min({a, b} \union C) <= b
<1> DEFINE S == {a, b} \union C
<1>1. S \subseteq Nat \ {0} /\ a \in S /\ b \in S
  OBVIOUS
<1>2. \E x \in S : \A y \in S : x <= y
  <2>1. CASE C = {}
    <3>1. S = {a, b}
      BY <2>1
    <3>2. a <= b \/ b <= a
      OBVIOUS
    <3> HIDE DEF S
    <3> QED BY <3>1, <3>2
  <2>2. ASSUME NEW c \in Nat \ {0}, C = {c} PROVE \E x \in S : \A y \in S : x <= y
    <3>1. S = {a, b, c}
      BY <2>2
    <3>2. \/ a <= b /\ a <= c
          \/ b <= a /\ b <= c
          \/ c <= a /\ c <= b
      OBVIOUS
    <3> HIDE DEF S
    <3> QED BY <3>1, <3>2
  <2> QED BY <2>1, <2>2
<1> HIDE DEF S
<1>3. Min(S) \in S /\ \A y \in S : Min(S) <= y
  BY <1>2 DEF Min
<1> QED
  BY <1>1, <1>3 DEF S

\* Every cap a derivation gives is positive, so a leg is never clamped to nothing.
LEMMA CapPositive ==
    ASSUME SnapshotOK, Derivable, NEW t \in Weighted \union {BudgetToken}
    PROVE  SellCap(t) \in Nat \ {0}
<1>1. /\ intent.budget \in Nat \ {0} /\ intent.turnover \in Nat \ {0}
      /\ \A u \in Weighted : intent.weight[u] \in Nat \ {0} /\ u \in Priced
  BY SnapshotParts DEF Derivable, WellFormedIntent, Weighted
<1>2. SourceCap \in Nat \ {0}
  BY <1>1, ProductPositive DEF SourceCap
<1>3. ASSUME NEW u \in Weighted PROVE BasketCap(u) \in Nat \ {0}
  <2>1. quotes[u].in \in Nat \ {0} /\ quotes[u].out \in Nat \ {0}
    BY <1>1, SnapshotParts
  <2>2. Want(u) \in Nat \ {0}
    <3>1. intent.budget * intent.weight[u] \in Nat \ {0}
      BY <1>1, ProductPositive
    <3>2. intent.budget * intent.weight[u] * intent.turnover \in Nat \ {0}
      BY <1>1, <3>1, ProductPositive
    <3> QED
      BY <2>1, <3>2, ProductPositive DEF Want
  <2>3. Unit(u) \in Nat \ {0}
    BY <2>1, ProductPositive DEF Unit, BPS
  <2>4. BasketCap(u) \in Int /\ BasketCap(u) * Unit(u) >= Want(u)
    BY <1>1, BasketCapCovers DEF Covers
  <2>5. ASSUME NEW c \in Int, NEW n \in Nat \ {0}, c * n >= 1 PROVE c >= 1
    BY <2>5
  <2>6. BasketCap(u) * Unit(u) >= 1
    <3>1. \A x \in Int, y \in Nat \ {0} : x >= y => x >= 1
      OBVIOUS
    <3>2. BasketCap(u) * Unit(u) \in Int
      BY <2>3, <2>4
    <3> QED BY <2>2, <2>4, <3>1, <3>2
  <2> QED
    BY <2>3, <2>4, <2>5, <2>6
<1> DEFINE A == {BasketCap(u) : u \in Weighted \intersect {t}}
           B == {SourceCap : u \in {BudgetToken} \intersect {t}}
<1>4. SellCap(t) = Max(A \union B)
  BY DEF SellCap
<1>5. CASE t \in Weighted /\ t = BudgetToken
  <2>1. A \union B = {BasketCap(t), SourceCap}
    BY <1>5
  <2> HIDE DEF A, B
  <2>2. BasketCap(t) \in Int /\ SourceCap \in Int
    BY <1>2, <1>3, <1>5
  <2> QED BY <1>2, <1>3, <1>4, <1>5, <2>1, <2>2, MaxTwo
<1>6. CASE t \in Weighted /\ t # BudgetToken
  <2>1. A \union B = {BasketCap(t)}
    BY <1>6
  <2> HIDE DEF A, B
  <2> QED BY <1>3, <1>4, <1>6, <2>1, MaxOne
<1>7. CASE t \notin Weighted
  <2>1. A \union B = {SourceCap}
    BY <1>7
  <2> HIDE DEF A, B
  <2> QED BY <1>2, <1>4, <2>1, MaxOne
<1> QED BY <1>5, <1>6, <1>7

\* What the budget leaves of the caps once they are derived.
LEMMA CapsArePositive ==
    ASSUME CapsInv, Derived
    PROVE  DOMAIN caps \subseteq Tokens /\ \A t \in DOMAIN caps : caps[t] \in Nat \ {0}
<1>1. /\ SnapshotOK /\ Derivable
      /\ caps = [t \in Weighted \union {BudgetToken} |-> SellCap(t)]
  BY DEF CapsInv
<1>2. DOMAIN caps = Weighted \union {BudgetToken} /\ \A t \in DOMAIN caps : caps[t] = SellCap(t)
  BY <1>1
<1>3. Weighted \union {BudgetToken} \subseteq Tokens
  BY <1>1, SnapshotParts, IntentAssumption DEF Weighted
<1> QED
  BY <1>1, <1>2, <1>3, CapPositive

LEMMA DriftInt ==
    ASSUME SnapshotOK, holding \in [Tokens -> Nat]
    PROVE  Total \in Nat /\ \A t \in Tokens : Drift(t) \in Int
<1>1. Total \in Nat
  BY IntentAssumption, SumNat DEF Total
<1>2. ASSUME NEW t \in Tokens PROVE Weight(t) \in Nat
  BY SnapshotParts DEF Weight
<1>3. ASSUME NEW t \in Tokens PROVE Total * Weight(t) \in Nat
  BY <1>1, <1>2, ProductNat
<1>4. ASSUME NEW n \in Nat PROVE n \div BPS \in Int
  BY DEF BPS
<1>5. ASSUME NEW t \in Tokens PROVE FloorDiv(Total * Weight(t), BPS) \in Int
  BY <1>3, <1>4 DEF FloorDiv
<1>6. ASSUME NEW t \in Tokens PROVE Drift(t) \in Int
  BY <1>5 DEF Drift
<1> QED BY <1>1, <1>6

\* The sorted list of a set of drifted tokens has each of them once, with its whole drift left.
LEMMA DescendingLists ==
    ASSUME NEW W \in SUBSET Tokens, \A t \in W : Drift(t) \in Int /\ Drift(t) # 0,
           NEW s \in Descending(Legs(W))
    PROVE  /\ s \in Entries
           /\ \A i, j \in DOMAIN s : i # j => s[i].token # s[j].token
           /\ \A i \in DOMAIN s : s[i].token \in W /\ s[i].left = Magnitude(Drift(s[i].token))
           /\ W \subseteq Listed(s)
<1> DEFINE T == Legs(W)
           e == [t \in W |-> [token |-> t, left |-> Magnitude(Drift(t))]]
           n == Cardinality(T)
<1>1. IsFiniteSet(T) /\ n \in Nat
  <2>1. IsFiniteSet(W)
    BY IntentAssumption, FS_Subset
  <2>2. e \in Surjection(W, T)
    BY DEF Surjection, Legs
  <2>3. IsFiniteSet(T)
    BY <2>1, <2>2, FS_Surjection
  <2> QED BY <2>3, FS_CardinalityType
<1>2. s \in [1 .. n -> T] /\ \A i, j \in 1 .. n : i # j => s[i] # s[j]
  BY DEF Descending, SetToSeqs
<1>3. \A l \in T : l.token \in W /\ l = [token |-> l.token, left |-> Magnitude(Drift(l.token))]
  BY DEF Legs
<1>4. T \subseteq [token: Tokens, left: Nat \ {0}]
  <2>1. ASSUME NEW t \in W PROVE Magnitude(Drift(t)) \in Nat \ {0}
    BY DEF Magnitude
  <2> QED BY <2>1 DEF Legs
<1>5. s \in Surjection(1 .. n, T)
  <2>1. IsFiniteSet(1 .. n) /\ Cardinality(1 .. n) = n
    BY <1>1, FS_Interval
  <2>2. s \in Injection(1 .. n, T)
    BY <1>2 DEF Injection, IsInjective
  <2> HIDE DEF T, n
  <2>3. Cardinality(1 .. n) = Cardinality(T)
    BY <2>1 DEF n
  <2> QED BY <1>1, <2>2, <2>3, FS_Injection
<1>6. s \in Entries
  <2> DEFINE E == [token: Tokens, left: Nat \ {0}]
  <2> HIDE DEF T, n, E
  <2>1. s \in [1 .. n -> E]
    BY <1>2, <1>4 DEF E
  <2>2. s \in Seq(E)
    BY <1>1, <2>1
  <2> QED BY <2>2 DEF Entries, E
<1>7. DOMAIN s = 1 .. n
  BY <1>2
<1>8. \A i, j \in DOMAIN s : i # j => s[i].token # s[j].token
  <2> HIDE DEF T, n
  <2>1. ASSUME NEW i \in DOMAIN s, NEW j \in DOMAIN s, s[i].token = s[j].token PROVE s[i] = s[j]
    BY <1>2, <1>3, <1>7, <2>1
  <2> QED BY <1>2, <1>7, <2>1
<1>9. ASSUME NEW t \in W PROVE t \in Listed(s)
  <2>1. [token |-> t, left |-> Magnitude(Drift(t))] \in T
    BY DEF Legs
  <2>2. PICK i \in 1 .. n : s[i] = [token |-> t, left |-> Magnitude(Drift(t))]
    <3> HIDE DEF T, n
    <3> QED BY <1>5, <2>1 DEF Surjection
  <2> QED BY <1>7, <2>2 DEF Listed
<1>10. \A i \in DOMAIN s : s[i].token \in W /\ s[i].left = Magnitude(Drift(s[i].token))
  <2> HIDE DEF T, n
  <2>1. ASSUME NEW i \in DOMAIN s PROVE s[i] \in T
    BY <1>2, <1>7
  <2>2. ASSUME NEW i \in DOMAIN s PROVE s[i].left = Magnitude(Drift(s[i].token))
    BY <1>3, <2>1
  <2> QED BY <1>3, <2>1, <2>2
<1> HIDE DEF T, n
<1> QED
  BY <1>6, <1>8, <1>9, <1>10

LEMMA EntryParts ==
    ASSUME NEW s \in Entries, NEW i \in DOMAIN s
    PROVE  s[i].token \in Tokens /\ s[i].left \in Nat \ {0}
<1> DEFINE E == [token: Tokens, left: Nat \ {0}]
<1>1. s \in Seq(E)
  BY DEF Entries
<1>2. s[i] \in E
  <2> HIDE DEF E
  <2> QED BY <1>1
<1> QED BY <1>2

\* The rest of a list after its head moved part of what it had left, or all of it.
LEMMA RestOf ==
    ASSUME NEW s \in Entries, s # <<>>, NEW move \in Nat \ {0}, move <= Head(s).left
    PROVE  /\ Head(s) = s[1] /\ 1 \in DOMAIN s /\ s[1] \in [token: Tokens, left: Nat \ {0}]
           /\ Tail(s) \in Entries /\ DOMAIN Tail(s) = 1 .. Len(s) - 1
           /\ Len(s) \in Nat /\ DOMAIN s = 1 .. Len(s)
           /\ \A i \in DOMAIN Tail(s) : Tail(s)[i] = s[i + 1]
           /\ s[1].left = move => Rest(s, move) = Tail(s)
           /\ s[1].left > move =>
                 /\ Rest(s, move) \in Entries /\ DOMAIN Rest(s, move) = DOMAIN s
                 /\ Rest(s, move)[1] = [token |-> s[1].token, left |-> s[1].left - move]
                 /\ \A i \in DOMAIN s \ {1} : Rest(s, move)[i] = s[i]
<1> DEFINE E == [token: Tokens, left: Nat \ {0}]
<1>0. s \in Seq(E)
  BY DEF Entries
<1>a. \A l \in E : l.left \in Nat \ {0} /\ l.token \in Tokens
  OBVIOUS
<1>b. \A l \in E, m \in Nat \ {0} : m < l.left => [l EXCEPT !.left = @ - m] = [token |-> l.token, left |-> l.left - m]
                                          /\ [l EXCEPT !.left = @ - m] \in E
  OBVIOUS
<1> HIDE DEF E
<1>1. /\ s \in Seq(E) /\ Len(s) \in Nat \ {0} /\ DOMAIN s = 1 .. Len(s) /\ Head(s) = s[1] /\ s[1] \in E
      /\ s[1].left \in Nat \ {0}
  BY <1>0, <1>a
<1>2. /\ Tail(s) \in Seq(E) /\ Len(Tail(s)) = Len(s) - 1 /\ DOMAIN Tail(s) = 1 .. Len(s) - 1
      /\ \A i \in 1 .. Len(s) - 1 : Tail(s)[i] = s[i + 1]
  BY <1>1
<1>3. ASSUME s[1].left > move
      PROVE /\ Rest(s, move) \in Seq(E) /\ DOMAIN Rest(s, move) = DOMAIN s
            /\ Rest(s, move)[1] = [token |-> s[1].token, left |-> s[1].left - move]
            /\ \A i \in DOMAIN s \ {1} : Rest(s, move)[i] = s[i]
  <2> DEFINE h == [Head(s) EXCEPT !.left = @ - move]
             r == <<h>> \o Tail(s)
  <2>1. Rest(s, move) = r
    BY <1>1, <1>3 DEF Rest
  <2>2. h = [token |-> s[1].token, left |-> s[1].left - move] /\ h \in E
    BY <1>1, <1>3, <1>b
  <2> HIDE DEF h
  <2>3. <<h>> \in Seq(E) /\ Len(<<h>>) = 1 /\ <<h>>[1] = h
    BY <2>2
  <2>4. /\ r \in Seq(E) /\ Len(r) = Len(s)
        /\ \A i \in 1 .. Len(s) : r[i] = IF i = 1 THEN h ELSE Tail(s)[i - 1]
    <3>1. /\ r \in Seq(E) /\ Len(r) = 1 + Len(Tail(s))
          /\ \A i \in 1 .. 1 + Len(Tail(s)) : r[i] = IF i <= 1 THEN <<h>>[i] ELSE Tail(s)[i - 1]
      BY <1>2, <2>3, ConcatProperties
    <3> HIDE DEF r
    <3> QED BY <1>1, <1>2, <2>3, <3>1
  <2>5. \A i \in DOMAIN s \ {1} : r[i] = s[i]
    <3>1. ASSUME NEW i \in DOMAIN s \ {1} PROVE i - 1 \in 1 .. Len(s) - 1 /\ i \in 1 .. Len(s) /\ (i - 1) + 1 = i
      BY <1>1
    <3> HIDE DEF r
    <3> QED BY <1>2, <2>4, <3>1
  <2>6. DOMAIN r = DOMAIN s
    <3> HIDE DEF r
    <3> QED BY <1>1, <2>4, LenProperties
  <2> HIDE DEF r
  <2> QED BY <1>1, <2>1, <2>2, <2>4, <2>5, <2>6
<1>4. ASSUME s[1].left = move PROVE Rest(s, move) = Tail(s)
  <2>1. ~ (Head(s).left > move)
    BY <1>1, <1>4
  <2> QED BY <2>1, Zenon DEF Rest
<1> QED
  BY <1>1, <1>2, <1>3, <1>4 DEF Entries, E

\* A pairing keeps the books of a side: the head moved as much as was moved, and it stays with the
\* rest, drops out with nothing left, or drops out for good.
LEMMA SideKeeps ==
    ASSUME NEW s, NEW W \in SUBSET Tokens, NEW moved \in [Tokens -> Nat], NEW goal \in [Tokens -> Int], NEW stop,
           Side(s, W, moved, goal, stop), s # <<>>,
           NEW move \in Nat \ {0}, move <= Head(s).left,
           NEW now \in [Tokens -> Nat], NEW halt, stop \subseteq halt,
           \A t \in Tokens : now[t] = IF t = Head(s).token THEN moved[t] + move ELSE moved[t],
           NEW r, r = Rest(s, move) \/ (r = Tail(s) /\ Head(s).token \in halt)
    PROVE  Side(r, W, now, goal, halt)
<1> DEFINE h == s[1].token
<1>0. s \in Entries
  BY DEF Side
<1>1. /\ Head(s) = s[1] /\ 1 \in DOMAIN s /\ s[1] \in [token: Tokens, left: Nat \ {0}]
      /\ Tail(s) \in Entries /\ DOMAIN Tail(s) = 1 .. Len(s) - 1
      /\ Len(s) \in Nat /\ DOMAIN s = 1 .. Len(s)
      /\ \A i \in DOMAIN Tail(s) : Tail(s)[i] = s[i + 1]
  BY <1>0, RestOf
<1>2. h \in W /\ moved[h] + s[1].left = goal[h] /\ now[h] = moved[h] + move /\ now[h] <= goal[h]
  <2>1. h \in W /\ moved[h] + s[1].left = goal[h]
    BY <1>1 DEF Side
  <2>2. h \in Tokens /\ now[h] = moved[h] + move /\ moved[h] \in Nat /\ s[1].left \in Nat /\ move <= s[1].left
    BY <1>1
  <2> QED BY <2>1, <2>2
<1>3. \A t \in Tokens \ {h} : now[t] = moved[t]
  BY <1>1
<1>4. \A i \in DOMAIN s \ {1} : s[i].token \in W \ {h} /\ moved[s[i].token] + s[i].left = goal[s[i].token]
  BY <1>1 DEF Side
<1>5. \A t \in Tokens \ W : now[t] = 0
  BY <1>2, <1>3 DEF Side
<1>6. CASE s[1].left > move /\ r = Rest(s, move)
  <2>1. /\ r \in Entries /\ DOMAIN r = DOMAIN s
        /\ r[1] = [token |-> h, left |-> s[1].left - move]
        /\ \A i \in DOMAIN s \ {1} : r[i] = s[i]
    BY <1>0, <1>6, RestOf
  <2>2. \A i \in DOMAIN s : r[i].token = s[i].token
    <3>1. r[1].token = s[1].token
      BY <2>1
    <3> QED BY <2>1, <3>1
  <2>3. Listed(r) = Listed(s)
    BY <2>1, <2>2 DEF Listed
  <2>4. h \in Listed(s)
    BY <1>1 DEF Listed
  <2>5. now[h] + r[1].left = goal[h]
    <3>1. r[1].left = s[1].left - move
      BY <2>1
    <3>2. h \in Tokens /\ moved[h] \in Nat /\ s[1].left \in Nat
      BY <1>1
    <3> QED BY <1>2, <3>1, <3>2
  <2>6. \A i \in DOMAIN r : r[i].token \in W /\ now[r[i].token] + r[i].left = goal[r[i].token]
    BY <1>2, <1>3, <1>4, <2>1, <2>5
  <2>7. \A t \in W \ Listed(r) : now[t] <= goal[t] /\ (now[t] = goal[t] \/ t \in halt)
    BY <1>3, <2>3, <2>4 DEF Side
  <2>8. \A i, j \in DOMAIN r : i # j => r[i].token # r[j].token
    BY <2>1, <2>2 DEF Side
  <2> QED BY <1>5, <2>1, <2>6, <2>7, <2>8 DEF Side
<1>7. CASE r = Tail(s) /\ (now[h] = goal[h] \/ h \in halt)
  <2>1. \A i \in DOMAIN r : i + 1 \in DOMAIN s \ {1} /\ r[i] = s[i + 1]
    BY <1>1, <1>7
  <2>2. Listed(r) = Listed(s) \ {h}
    <3>1. ASSUME NEW t \in Listed(r) PROVE t \in Listed(s) \ {h}
      BY <1>4, <2>1, <3>1 DEF Listed
    <3>2. ASSUME NEW t \in Listed(s) \ {h} PROVE t \in Listed(r)
      <4>1. PICK i \in DOMAIN s : t = s[i].token
        BY <3>2 DEF Listed
      <4>2. i - 1 \in DOMAIN r /\ r[i - 1] = s[i]
        <5>1. i # 1 /\ i \in 1 .. Len(s) /\ Len(s) \in Int
          BY <1>0, <1>1, <3>2, <4>1 DEF Entries
        <5>2. i - 1 \in 1 .. Len(s) - 1 /\ (i - 1) + 1 = i
          BY <5>1
        <5> QED BY <1>1, <1>7, <5>2
      <4> QED BY <4>1, <4>2 DEF Listed
    <3> QED BY <3>1, <3>2
  <2>3. \A i \in DOMAIN r : r[i].token \in W /\ now[r[i].token] + r[i].left = goal[r[i].token]
    BY <1>3, <1>4, <2>1
  <2>4. \A t \in W \ Listed(r) : now[t] <= goal[t] /\ (now[t] = goal[t] \/ t \in halt)
    BY <1>2, <1>3, <1>7, <2>2 DEF Side
  <2>5. \A i, j \in DOMAIN r : i # j => r[i].token # r[j].token
    <3>1. ASSUME NEW i \in DOMAIN r, NEW j \in DOMAIN r, i # j PROVE i + 1 # j + 1
      BY <1>1, <1>7, <3>1
    <3> QED BY <2>1, <3>1 DEF Side
  <2>6. r \in Entries
    BY <1>1, <1>7
  <2> QED BY <1>5, <2>3, <2>4, <2>5, <2>6 DEF Side
<1>8. s[1].left = move => now[h] = goal[h] /\ Rest(s, move) = Tail(s)
  BY <1>0, <1>2, RestOf
<1>9. s[1].left > move \/ s[1].left = move
  BY <1>1
<1> QED
  BY <1>1, <1>6, <1>7, <1>8, <1>9

\* A leg adds its amount to what its two tokens moved.
LEMMA LegMoves ==
    ASSUME legs \in Seq([from: Tokens, to: Tokens, amount: Nat]),
           NEW f \in Tokens, NEW g \in Tokens, NEW m \in Nat,
           legs' = Append(legs, [from |-> f, to |-> g, amount |-> m])
    PROVE  \A t \in Tokens :
              /\ Sold(t) \in Nat /\ Sold(t)' = IF t = f THEN Sold(t) + m ELSE Sold(t)
              /\ Bought(t) \in Nat /\ Bought(t)' = IF t = g THEN Bought(t) + m ELSE Bought(t)
<1> DEFINE n == Len(legs) + 1
           E == [from: Tokens, to: Tokens, amount: Nat]
<1>0. [from |-> f, to |-> g, amount |-> m] \in E /\ \A l \in E : l.amount \in Nat
  OBVIOUS
<1>1. /\ Len(legs) \in Nat /\ DOMAIN legs = 1 .. Len(legs) /\ DOMAIN legs' = 1 .. n
      /\ \A i \in DOMAIN legs : legs'[i] = legs[i] /\ legs[i].amount \in Nat
      /\ legs'[n] = [from |-> f, to |-> g, amount |-> m]
  <2> HIDE DEF E
  <2>1. legs \in Seq(E)
    BY DEF E
  <2> QED BY <1>0, <2>1
<1>2. DOMAIN legs' = DOMAIN legs \union {n} /\ n \notin DOMAIN legs
  BY <1>1
<1>3. /\ \A i \in DOMAIN legs : Amounts[i] \in Nat /\ Amounts'[i] = Amounts[i]
      /\ Amounts'[n] = m
  BY <1>1, <1>2 DEF Amounts
<1>4. ASSUME NEW S \in SUBSET DOMAIN legs
      PROVE  /\ SumFunctionOnSet(Amounts, S) \in Nat
             /\ SumFunctionOnSet(Amounts', S) = SumFunctionOnSet(Amounts, S)
             /\ SumFunctionOnSet(Amounts', S \union {n}) = SumFunctionOnSet(Amounts, S) + m
  <2> HIDE DEF n
  <2>1. IsFiniteSet(S)
    <3>1. IsFiniteSet(1 .. Len(legs))
      BY <1>1, FS_Interval
    <3> QED BY <1>1, <3>1, FS_Subset
  <2>2. SumFunctionOnSet(Amounts, S) \in Nat
    BY <1>3, <2>1, SumNat
  <2>3. SumFunctionOnSet(Amounts', S) = SumFunctionOnSet(Amounts, S)
    <3>1. \A i \in S : Amounts[i] \in Int /\ Amounts'[i] = Amounts[i]
      BY <1>3
    <3> QED BY <2>1, <3>1, SumSame
  <2>4. SumFunctionOnSet(Amounts', S \union {n}) = SumFunctionOnSet(Amounts', S) + Amounts'[n]
    <3>1. \A i \in S \union {n} : Amounts'[i] \in Int
      BY <1>3
    <3> QED BY <1>2, <2>1, <3>1, SumMore
  <2> QED BY <1>3, <2>2, <2>3, <2>4
<1>5. ASSUME NEW t \in Tokens
      PROVE  /\ LegsFrom(t) \in SUBSET DOMAIN legs /\ LegsTo(t) \in SUBSET DOMAIN legs
             /\ LegsFrom(t)' = IF t = f THEN LegsFrom(t) \union {n} ELSE LegsFrom(t)
             /\ LegsTo(t)' = IF t = g THEN LegsTo(t) \union {n} ELSE LegsTo(t)
  <2> HIDE DEF n
  <2> QED BY <1>1, <1>2 DEF LegsFrom, LegsTo
<1>6. ASSUME NEW t \in Tokens PROVE Sold(t) \in Nat /\ Sold(t)' = IF t = f THEN Sold(t) + m ELSE Sold(t)
  BY <1>4, <1>5 DEF Sold
<1>7. ASSUME NEW t \in Tokens PROVE Bought(t) \in Nat /\ Bought(t)' = IF t = g THEN Bought(t) + m ELSE Bought(t)
  BY <1>4, <1>5 DEF Bought
<1> QED BY <1>6, <1>7

-----------------------------------------------------------------------------
(* Every step keeps the types, the caps and the books of both sides.       *)

PlanInv == TypeOK /\ CapsInv /\ TickInv

LegType == [from: Tokens, to: Tokens, amount: Nat]

LEMMA NothingMoved ==
    ASSUME legs = <<>>
    PROVE  \A t : Sold(t) = 0 /\ Bought(t) = 0
<1>1. \A t : LegsFrom(t) = {} /\ LegsTo(t) = {}
  BY DEF LegsFrom, LegsTo
<1> QED
  BY <1>1, SumEmpty DEF Sold, Bought

\* What was moved counts base units.
LEMMA MovedNat ==
    ASSUME legs \in Seq(LegType)
    PROVE  \A t \in Tokens : Sold(t) \in Nat /\ Bought(t) \in Nat
<1>1. ASSUME NEW S \in SUBSET DOMAIN legs PROVE SumFunctionOnSet(Amounts, S) \in Nat
  <2>1. DOMAIN legs = 1 .. Len(legs) /\ Len(legs) \in Nat
    OBVIOUS
  <2>2. \A i \in DOMAIN legs : legs[i] \in LegType
    OBVIOUS
  <2>3. \A i \in S : Amounts[i] \in Nat
    BY <2>2 DEF Amounts, LegType
  <2>4. IsFiniteSet(1 .. Len(legs))
    BY <2>1, FS_Interval
  <2>5. IsFiniteSet(S)
    BY <2>1, <2>4, FS_Subset
  <2> QED BY <2>3, <2>5, SumNat
<1>2. \A t : LegsFrom(t) \in SUBSET DOMAIN legs /\ LegsTo(t) \in SUBSET DOMAIN legs
  BY DEF LegsFrom, LegsTo
<1> QED
  BY <1>1, <1>2 DEF Sold, Bought

LEMMA InitPlan == Init => PlanInv
<1> SUFFICES ASSUME Init PROVE PlanInv
  OBVIOUS
<1>1. DOMAIN quotes = {} /\ DOMAIN caps = {}
  BY DEF Init
<1>2. TypeOK
  <2>1. unquoted \subseteq Tokens
    BY IntentAssumption DEF Init
  <2>2. <<>> \in Entries /\ <<>> \in Seq(LegType)
    BY DEF Entries
  <2> QED BY <1>1, <2>1, <2>2 DEF Init, TypeOK, LegType, Priced
<1>3. TickInv
  BY DEF Init, TickInv, Pairing
<1> QED BY <1>2, <1>3, InitCaps DEF PlanInv

\* A prepare does not touch the tick, and a tick that starts finds no legs.
LEMMA PrepareKeeps == PlanInv /\ (PrepareStep \/ TickStarts) => PlanInv'
<1> SUFFICES ASSUME PlanInv, PrepareStep \/ TickStarts PROVE PlanInv'
  OBVIOUS
<1>0. CapsInv'
  BY CapsKeep DEF PlanInv, Next
<1>1. phase \in {"snapshot", "prepared"} /\ phase' \in {"snapshot", "dead", "threw", "prepared", "drift"}
  BY DEF PlanInv, TypeOK, PrepareStep, SkipsBudgetToken, Quotes, Derives, DeriveThrows, TickStarts
<1>2. UNCHANGED <<overs, unders, legs>>
  BY DEF PrepareStep, SkipsBudgetToken, Quotes, Derives, DeriveThrows, TickStarts, tickVars
<1>3. TickInv'
  BY <1>1, <1>2 DEF PlanInv, TickInv, Pairing
<1>4. holding' \in [Tokens -> Nat]
  <2>1. CASE TickStarts
    BY <2>1, IntentAssumption DEF TickStarts
  <2>2. CASE PrepareStep
    BY <2>2 DEF PrepareStep, SkipsBudgetToken, Quotes, Derives, DeriveThrows, tickVars, PlanInv, TypeOK
  <2> QED BY <2>1, <2>2
<1>5. unquoted' \subseteq Tokens
  BY DEF PrepareStep, SkipsBudgetToken, Quotes, Derives, DeriveThrows, TickStarts, prepareVars, PlanInv, TypeOK
<1>6. DOMAIN caps' \subseteq Tokens /\ \A t \in DOMAIN caps' : caps'[t] \in Nat
  <2>1. CASE Derives
    <3>1. DOMAIN caps' \subseteq Tokens /\ \A t \in DOMAIN caps' : caps'[t] \in Nat \ {0}
      <4>1. Derived'
        BY <2>1 DEF Derives, Derived
      <4>2. (CapsInv /\ Derived =>
               DOMAIN caps \subseteq Tokens /\ \A t \in DOMAIN caps : caps[t] \in Nat \ {0})'
        BY CapsArePositive, PTL
      <4> QED BY <1>0, <4>1, <4>2
    <3> QED BY <3>1
  <2>2. CASE UNCHANGED caps
    BY <2>2 DEF PlanInv, TypeOK
  <2>3. Derives \/ UNCHANGED caps
    BY DEF PrepareStep, SkipsBudgetToken, Quotes, DeriveThrows, TickStarts, prepareVars
  <2> QED BY <2>1, <2>2, <2>3
<1>7. TypeOK'
  BY <1>0, <1>1, <1>2, <1>4, <1>5, <1>6 DEF TypeOK, PlanInv, CapsInv, SnapshotOK, Priced
<1> QED BY <1>0, <1>3, <1>7 DEF PlanInv

\* A tick that has nothing to do, or no pair left.
LEMMA EndKeeps == PlanInv /\ (NoChurn \/ TickEnds \/ UNCHANGED vars) => PlanInv'
<1> SUFFICES ASSUME PlanInv, NoChurn \/ TickEnds \/ UNCHANGED vars PROVE PlanInv'
  OBVIOUS
<1>0. CapsInv'
  BY CapsKeep DEF PlanInv, Next, TickStep
<1>1. UNCHANGED <<prepareVars, tickVars>>
  BY DEF NoChurn, TickEnds, vars
<1>2. TypeOK'
  <2>1. phase' \in {phase, "done"}
    BY DEF NoChurn, TickEnds, vars
  <2> QED BY <1>1, <2>1 DEF PlanInv, TypeOK, Priced, prepareVars, tickVars
<1>3. Sides => Sides'
  <2>1. /\ OverWeight' = OverWeight /\ UnderWeight' = UnderWeight
        /\ Excess' = Excess /\ Need' = Need
    BY <1>1 DEF OverWeight, UnderWeight, Excess, Need, Drift, Total, Weight, Basket, prepareVars, tickVars
  <2>2. SoldOf' = SoldOf /\ BoughtOf' = BoughtOf
    BY <1>1 DEF SoldOf, BoughtOf, Sold, Bought, Amounts, LegsFrom, LegsTo, tickVars
  <2>3. SoldCap' = SoldCap
    BY <1>1 DEF SoldCap, LegsFrom, CapOf, prepareVars, tickVars
  <2> QED
    BY <1>1, <2>1, <2>2, <2>3 DEF Sides, Side, Listed, tickVars
<1>4. TickInv'
  <2>1. CASE NoChurn
    BY <1>1, <2>1 DEF NoChurn, PlanInv, TickInv, Pairing, tickVars
  <2>2. CASE TickEnds
    BY <1>1, <1>3, <2>2 DEF TickEnds, PlanInv, TickInv, Pairing, tickVars
  <2>3. CASE UNCHANGED vars
    BY <1>1, <1>3, <2>3 DEF vars, PlanInv, TickInv, Pairing, tickVars
  <2> QED BY <2>1, <2>2, <2>3
<1> QED BY <1>0, <1>2, <1>4 DEF PlanInv

\* The two lists hold every drifted token, with its whole drift to go.
LEMMA SortKeeps == PlanInv /\ SortsDrift => PlanInv'
<1> SUFFICES ASSUME PlanInv, SortsDrift PROVE PlanInv'
  OBVIOUS
<1>0. CapsInv'
  BY CapsKeep DEF PlanInv, Next, TickStep
<1>1. /\ UNCHANGED <<prepareVars, holding, legs>> /\ phase = "drift" /\ phase' = "pair"
      /\ overs' \in Descending(Legs(OverWeight)) /\ unders' \in Descending(Legs(UnderWeight))
      /\ legs = <<>>
  BY DEF SortsDrift, PlanInv, TickInv, Pairing
<1>2. \A t \in Tokens : Drift(t) \in Int
  BY DriftInt DEF PlanInv, TypeOK, CapsInv
<1>3. /\ OverWeight \subseteq Tokens /\ \A t \in OverWeight : Drift(t) # 0 /\ Magnitude(Drift(t)) = Drift(t)
      /\ UnderWeight \subseteq Tokens /\ \A t \in UnderWeight : Drift(t) # 0 /\ Magnitude(Drift(t)) = -Drift(t)
  BY <1>2 DEF OverWeight, UnderWeight, Magnitude
<1>4. /\ overs' \in Entries
      /\ \A i, j \in DOMAIN overs' : i # j => overs'[i].token # overs'[j].token
      /\ \A i \in DOMAIN overs' : overs'[i].token \in OverWeight /\ overs'[i].left = Drift(overs'[i].token)
      /\ OverWeight \subseteq Listed(overs')
  BY <1>1, <1>2, <1>3, DescendingLists
<1>5. /\ unders' \in Entries
      /\ \A i, j \in DOMAIN unders' : i # j => unders'[i].token # unders'[j].token
      /\ \A i \in DOMAIN unders' : unders'[i].token \in UnderWeight /\ unders'[i].left = -Drift(unders'[i].token)
      /\ UnderWeight \subseteq Listed(unders')
  BY <1>1, <1>2, <1>3, DescendingLists
<1>6. \A t \in Tokens : SoldOf'[t] = 0 /\ BoughtOf'[t] = 0
  <2>1. \A t : Sold(t) = 0 /\ Bought(t) = 0
    BY <1>1, NothingMoved
  <2>2. SoldOf' = SoldOf /\ BoughtOf' = BoughtOf
    BY <1>1 DEF SoldOf, BoughtOf, Sold, Bought, Amounts, LegsFrom, LegsTo
  <2> QED BY <2>1, <2>2 DEF SoldOf, BoughtOf
<1>7. /\ OverWeight' = OverWeight /\ UnderWeight' = UnderWeight
      /\ \A t \in Tokens : Excess'[t] = Drift(t) /\ Need'[t] = -Drift(t)
  BY <1>1 DEF OverWeight, UnderWeight, Excess, Need, Drift, Total, Weight, Basket, prepareVars
<1>8. \A t \in Tokens : \A n \in Int : n = Drift(t) \/ n = -Drift(t) => 0 + n = n
  OBVIOUS
<1>9. Side(overs', OverWeight', SoldOf', Excess', SoldCap')
  <2>1. \A i \in DOMAIN overs' : SoldOf'[overs'[i].token] + overs'[i].left = Excess'[overs'[i].token]
    BY <1>2, <1>3, <1>4, <1>6, <1>7
  <2>2. \A t \in Tokens \ OverWeight' : SoldOf'[t] = 0
    BY <1>6
  <2> QED BY <1>4, <1>7, <2>1, <2>2 DEF Side
<1>10. Side(unders', UnderWeight', BoughtOf', Need', {})
  <2>1. \A i \in DOMAIN unders' : BoughtOf'[unders'[i].token] + unders'[i].left = Need'[unders'[i].token]
    BY <1>2, <1>3, <1>5, <1>6, <1>7
  <2>2. \A t \in Tokens \ UnderWeight' : BoughtOf'[t] = 0
    BY <1>6
  <2> QED BY <1>5, <1>7, <2>1, <2>2 DEF Side
<1>11. Sides'
  BY <1>9, <1>10 DEF Sides, Side, Listed
<1>12. TickInv'
  BY <1>1, <1>11 DEF TickInv, Pairing
<1>13. TypeOK'
  BY <1>1, <1>4, <1>5 DEF TypeOK, PlanInv, Priced, prepareVars
<1> QED BY <1>0, <1>12, <1>13 DEF PlanInv

\* One leg moves as much out of one side as into the other.
LEMMA PairKeeps == PlanInv /\ Pairs => PlanInv'
<1> SUFFICES ASSUME PlanInv, Pairs PROVE PlanInv'
  OBVIOUS
<1> DEFINE o == Head(overs)
           u == Head(unders)
           move == Move(o, u)
<1>0. CapsInv'
  BY CapsKeep DEF PlanInv, Next, TickStep
<1>1. /\ phase = "pair" /\ phase' = "pair" /\ overs # <<>> /\ unders # <<>>
      /\ UNCHANGED <<prepareVars, holding>>
      /\ overs' = RestOvers(move) /\ unders' = RestUnders(move)
  BY DEF Pairs
<1>2. /\ Side(overs, OverWeight, SoldOf, Excess, SoldCap)
      /\ Side(unders, UnderWeight, BoughtOf, Need, {})
      /\ overs \in Entries /\ unders \in Entries
  BY <1>1 DEF PlanInv, TickInv, Pairing, Sides, Side
<1>3. o \in [token: Tokens, left: Nat \ {0}] /\ u \in [token: Tokens, left: Nat \ {0}]
  BY <1>1, <1>2, HeadTailProperties DEF Entries
<1>4. CapOf(o.token) = {} \/ \E c \in Nat \ {0} : CapOf(o.token) = {c}
  BY <1>1, CapsArePositive DEF CapOf, PlanInv, Derived
<1>5. move \in Nat \ {0} /\ move <= o.left /\ move <= u.left
  <2>1. o.left \in Nat \ {0} /\ u.left \in Nat \ {0}
    BY <1>3
  <2> QED BY <1>4, <2>1, MinOf DEF Move
<1>6. legs' = Append(legs, [from |-> o.token, to |-> u.token, amount |-> move])
  <2>1. move > 0
    BY <1>5
  <2> QED BY <2>1 DEF Pairs
<1> HIDE DEF move
<1>7. legs \in Seq(LegType) /\ o.token \in Tokens /\ u.token \in Tokens /\ move \in Nat
  BY <1>3, <1>5 DEF PlanInv, TypeOK, LegType
<1>8. \A t \in Tokens :
         /\ Sold(t) \in Nat /\ Sold(t)' = IF t = o.token THEN Sold(t) + move ELSE Sold(t)
         /\ Bought(t) \in Nat /\ Bought(t)' = IF t = u.token THEN Bought(t) + move ELSE Bought(t)
  BY <1>6, <1>7, LegMoves DEF LegType
<1>9. /\ SoldOf \in [Tokens -> Nat] /\ SoldOf' \in [Tokens -> Nat]
      /\ \A t \in Tokens : SoldOf'[t] = IF t = o.token THEN SoldOf[t] + move ELSE SoldOf[t]
  BY <1>7, <1>8 DEF SoldOf
<1>10. /\ BoughtOf \in [Tokens -> Nat] /\ BoughtOf' \in [Tokens -> Nat]
       /\ \A t \in Tokens : BoughtOf'[t] = IF t = u.token THEN BoughtOf[t] + move ELSE BoughtOf[t]
  BY <1>7, <1>8 DEF BoughtOf
<1>11. \A t \in Tokens : Drift(t) \in Int
  BY DriftInt DEF PlanInv, TypeOK, CapsInv
<1>12. Excess \in [Tokens -> Int] /\ Need \in [Tokens -> Int]
  BY <1>11 DEF Excess, Need
<1>13. OverWeight \in SUBSET Tokens /\ UnderWeight \in SUBSET Tokens
  BY DEF OverWeight, UnderWeight
<1>14. /\ OverWeight' = OverWeight /\ UnderWeight' = UnderWeight /\ Excess' = Excess /\ Need' = Need
       /\ \A t : CapOf(t)' = CapOf(t)
  BY <1>1 DEF OverWeight, UnderWeight, Excess, Need, Drift, Total, Weight, Basket, CapOf, prepareVars
<1>15. SoldCap \subseteq SoldCap' /\ (move \in CapOf(o.token) => o.token \in SoldCap')
  <2>1. /\ DOMAIN legs = 1 .. Len(legs) /\ DOMAIN legs' = 1 .. Len(legs) + 1 /\ Len(legs) \in Nat
        /\ \A i \in DOMAIN legs : legs'[i] = legs[i]
        /\ legs'[Len(legs) + 1] = [from |-> o.token, to |-> u.token, amount |-> move]
    <3> HIDE DEF o, u
    <3>1. [from |-> o.token, to |-> u.token, amount |-> move] \in LegType
      BY <1>7 DEF LegType
    <3> QED BY <1>6, <1>7, <3>1
  <2>2. ASSUME NEW t \in SoldCap PROVE t \in SoldCap'
    <3>1. PICK i \in DOMAIN legs : legs[i].from = t /\ legs[i].amount \in CapOf(t)
      BY DEF SoldCap, LegsFrom
    <3>2. i \in DOMAIN legs' /\ legs'[i] = legs[i]
      BY <2>1
    <3> QED BY <1>14, <3>1, <3>2 DEF SoldCap, LegsFrom
  <2>3. ASSUME move \in CapOf(o.token) PROVE o.token \in SoldCap'
    <3>0. PICK f \in Tokens : f = o.token
      BY <1>7
    <3>1. Len(legs) + 1 \in DOMAIN legs'
      BY <2>1
    <3>2. legs'[Len(legs) + 1].from = f /\ legs'[Len(legs) + 1].amount = move
      BY <2>1, <3>0
    <3>3. legs'[Len(legs) + 1].amount \in CapOf(f)'
      BY <1>14, <2>3, <3>0, <3>2
    <3>4. f \in SoldCap'
      BY <3>1, <3>2, <3>3 DEF SoldCap, LegsFrom
    <3> QED BY <3>0, <3>4
  <2> QED BY <2>2, <2>3
<1>16. overs' = Rest(overs, move) \/ (overs' = Tail(overs) /\ o.token \in SoldCap')
  BY <1>1, <1>15 DEF RestOvers
<1>17. unders' = Rest(unders, move)
  BY <1>1 DEF RestUnders
<1>18. Side(overs', OverWeight, SoldOf', Excess, SoldCap')
  <2>1. \A t \in Tokens : SoldOf'[t] = IF t = Head(overs).token THEN SoldOf[t] + move ELSE SoldOf[t]
    BY <1>9
  <2>2. overs' = Rest(overs, move) \/ (overs' = Tail(overs) /\ Head(overs).token \in SoldCap')
    BY <1>16
  <2>3. overs # <<>> /\ move \in Nat \ {0} /\ move <= Head(overs).left /\ SoldCap \subseteq SoldCap'
    BY <1>1, <1>5, <1>15
  <2>4. SoldOf \in [Tokens -> Nat] /\ SoldOf' \in [Tokens -> Nat] /\ Excess \in [Tokens -> Int]
    BY <1>9, <1>12
  <2> HIDE DEF o, u
  <2> QED
    BY <1>2, <1>13, <2>1, <2>2, <2>3, <2>4, SideKeeps
<1>19. Side(unders', UnderWeight, BoughtOf', Need, {})
  <2>1. \A t \in Tokens : BoughtOf'[t] = IF t = Head(unders).token THEN BoughtOf[t] + move ELSE BoughtOf[t]
    BY <1>10
  <2>2. unders # <<>> /\ move \in Nat \ {0} /\ move <= Head(unders).left /\ {} \subseteq {}
    BY <1>1, <1>5
  <2>3. BoughtOf \in [Tokens -> Nat] /\ BoughtOf' \in [Tokens -> Nat] /\ Need \in [Tokens -> Int]
    BY <1>10, <1>12
  <2> HIDE DEF o, u
  <2> QED
    BY <1>2, <1>13, <1>17, <2>1, <2>2, <2>3, SideKeeps
<1>20. Sides'
  BY <1>14, <1>18, <1>19 DEF Sides, Side, Listed
<1>21. TickInv'
  BY <1>1, <1>20 DEF TickInv, Pairing
<1>22. TypeOK'
  <2>1. legs' \in Seq(LegType)
    <3> HIDE DEF o, u
    <3>1. [from |-> o.token, to |-> u.token, amount |-> move] \in LegType
      BY <1>7 DEF LegType
    <3> QED BY <1>6, <1>7, <3>1
  <2>2. overs' \in Entries /\ unders' \in Entries
    BY <1>18, <1>19 DEF Side
  <2> QED BY <1>1, <2>1, <2>2 DEF TypeOK, PlanInv, LegType, Priced, prepareVars
<1> QED BY <1>0, <1>21, <1>22 DEF PlanInv

LEMMA PlanKeeps == PlanInv /\ [Next]_vars => PlanInv'
BY PrepareKeeps, EndKeeps, SortKeeps, PairKeeps DEF Next, TickStep

LEMMA PlanHolds == Spec => []PlanInv
BY InitPlan, PlanKeeps, PTL DEF Spec

-----------------------------------------------------------------------------
(* The theorems.                                                           *)

\* The cap of a basket token is the smallest amount that does not fall below budget x weight x
\* turnover at the snapshot price, and the budget token may rotate whole, for every basket, price
\* and order of the answers, and for as long as the session lives (strategyCaps.ts deriveSellCaps).
THEOREM CapsCover == Spec => []CapsCoverSnapshot
<1>1. CapsInv => CapsCoverSnapshot
  <2> SUFFICES ASSUME CapsInv, Derived PROVE
        /\ \A t \in Weighted \ {BudgetToken} :
              LET want == intent.budget * intent.weight[t] * intent.turnover * quotes[t].in
                  unit == BPS * quotes[t].out
              IN  caps[t] * unit >= want /\ (caps[t] - 1) * unit < want
        /\ caps[BudgetToken] >= intent.budget * intent.turnover
    BY DEF CapsCoverSnapshot, Derived
  <2>1. SnapshotOK /\ Weighted \subseteq Priced
    BY DEF CapsInv, Derivable
  <2>2. caps[BudgetToken] = SellCap(BudgetToken) /\ \A t \in Weighted : caps[t] = SellCap(t)
    BY DEF CapsInv
  <2> QED
    BY <2>1, <2>2, SellCapCovers DEF Covers, Unit, Want, SourceCap
<1> QED
  BY <1>1, InitCaps, CapsKeep, PTL DEF Spec

\* Every variable keeps its type; in particular every amount still to move is positive, since a
\* derived cap is (strategyRebalance.ts computeRebalanceLegs).
THEOREM TypeCorrect == Spec => []TypeOK
<1>1. PlanInv => TypeOK
  BY DEF PlanInv
<1> QED BY <1>1, PlanHolds, PTL

\* Over all legs of a tick no token sells more than its excess or buys more than it needs, for every
\* basket, valuation, cap and order of equal drifts (computeRebalanceLegs).
THEOREM TargetIsNotCrossed == Spec => []NeverCrossesTarget
<1>1. ASSUME PlanInv, NEW t \in Tokens PROVE Sold(t) <= Max({Drift(t), 0}) /\ Bought(t) <= Max({-Drift(t), 0})
  <2>0. Drift(t) \in Int /\ -Drift(t) \in Int
    BY <1>1, DriftInt DEF PlanInv, TypeOK, CapsInv
  <2>1. Sold(t) \in Nat /\ Bought(t) \in Nat
    BY <1>1, MovedNat DEF PlanInv, TypeOK, LegType
  <2>2. /\ Max({Drift(t), 0}) \in Int /\ Max({Drift(t), 0}) >= Drift(t) /\ Max({Drift(t), 0}) >= 0
        /\ Max({-Drift(t), 0}) \in Int /\ Max({-Drift(t), 0}) >= -Drift(t) /\ Max({-Drift(t), 0}) >= 0
    BY <2>0, MaxZero
  <2>3. CASE ~Pairing
    <3>1. Sold(t) = 0 /\ Bought(t) = 0
      BY <1>1, <2>3, NothingMoved DEF PlanInv, TickInv
    <3> QED BY <2>2, <3>1
  <2>4. CASE Pairing
    <3>1. Sides
      BY <1>1, <2>4 DEF PlanInv, TickInv
    <3>2. Sold(t) = 0 \/ Sold(t) <= Drift(t)
      <4>1. CASE t \in OverWeight /\ t \in Listed(overs)
        <5>1. PICK i \in DOMAIN overs : overs[i].token = t
          BY <4>1 DEF Listed
        <5>2. SoldOf[t] + overs[i].left = Excess[t]
          BY <3>1, <5>1 DEF Sides, Side
        <5>3. overs[i].left \in Nat
          BY <1>1, <5>1, EntryParts DEF PlanInv, TypeOK
        <5>4. SoldOf[t] = Sold(t) /\ Excess[t] = Drift(t)
          BY DEF SoldOf, Excess
        <5> QED BY <2>0, <2>1, <5>2, <5>3, <5>4
      <4>2. CASE t \in OverWeight /\ t \notin Listed(overs)
        BY <3>1, <4>2 DEF Sides, Side, SoldOf, Excess
      <4>3. CASE t \notin OverWeight
        BY <3>1, <4>3 DEF Sides, Side, SoldOf
      <4> QED BY <4>1, <4>2, <4>3
    <3>3. Bought(t) = 0 \/ Bought(t) <= -Drift(t)
      <4>1. CASE t \in UnderWeight /\ t \in Listed(unders)
        <5>1. PICK i \in DOMAIN unders : unders[i].token = t
          BY <4>1 DEF Listed
        <5>2. BoughtOf[t] + unders[i].left = Need[t]
          BY <3>1, <5>1 DEF Sides, Side
        <5>3. unders[i].left \in Nat
          BY <1>1, <5>1, EntryParts DEF PlanInv, TypeOK
        <5>4. BoughtOf[t] = Bought(t) /\ Need[t] = -Drift(t)
          BY DEF BoughtOf, Need
        <5> QED BY <2>0, <2>1, <5>2, <5>3, <5>4
      <4>2. CASE t \in UnderWeight /\ t \notin Listed(unders)
        BY <3>1, <4>2 DEF Sides, Side, BoughtOf, Need
      <4>3. CASE t \notin UnderWeight
        BY <3>1, <4>3 DEF Sides, Side, BoughtOf
      <4> QED BY <4>1, <4>2, <4>3
    <3> QED BY <2>0, <2>1, <2>2, <3>2, <3>3
  <2> QED BY <2>3, <2>4
<1>2. PlanInv => NeverCrossesTarget
  BY <1>1 DEF NeverCrossesTarget
<1> QED BY <1>2, PlanHolds, PTL

\* When a finished tick leaves an under-weight token short, every over-weight token has sold its
\* whole excess or a leg as large as its cap: nothing but a Sell-Cap stops a rebalance, for every
\* basket and any number of tokens on either side (computeRebalanceLegs).
THEOREM OnlyCapsStop == Spec => []OnlyCapsBlock
<1>1. ASSUME PlanInv, phase = "done", legs # <<>>, NEW u \in UnderWeight, Bought(u) < -Drift(u), NEW t \in OverWeight
      PROVE  Sold(t) = Drift(t) \/ \E i \in LegsFrom(t) : legs[i].amount \in CapOf(t)
  <2>0. u \in Tokens /\ t \in Tokens
    BY <1>1 DEF UnderWeight, OverWeight
  <2>1. Sides /\ (overs = <<>> \/ unders = <<>>)
    BY <1>1 DEF PlanInv, TickInv, Pairing
  <2>2. u \in Listed(unders)
    <3>1. SUFFICES ASSUME u \notin Listed(unders) PROVE FALSE
      OBVIOUS
    <3>2. BoughtOf[u] = Need[u]
      BY <2>1, <3>1 DEF Sides, Side
    <3>3. Bought(u) = -Drift(u) /\ Bought(u) \in Nat
      BY <1>1, <2>0, <3>2, MovedNat DEF BoughtOf, Need, PlanInv, TypeOK, LegType
    <3> QED BY <1>1, <3>3
  <2>3. unders # <<>>
    BY <2>2 DEF Listed
  <2>4. t \notin Listed(overs)
    BY <2>1, <2>3 DEF Listed
  <2> QED BY <2>0, <2>1, <2>4 DEF Sides, Side, SoldOf, Excess, SoldCap
<1>2. PlanInv => OnlyCapsBlock
  BY <1>1 DEF OnlyCapsBlock
<1> QED BY <1>2, PlanHolds, PTL

\* Every leg finishes a token for this tick, on one side or the other: the inner loop of
\* computeRebalanceLegs runs at most as often as there are over-weight and under-weight tokens
\* together, whatever the caps are.
PairingShrinks == [][Pairs => Len(overs') + Len(unders') < Len(overs) + Len(unders)]_vars

THEOREM PairingEnds == Spec => PairingShrinks
<1>1. ASSUME PlanInv, Pairs PROVE Len(overs') + Len(unders') < Len(overs) + Len(unders)
  <2> DEFINE o == Head(overs)
             u == Head(unders)
             move == Move(o, u)
  <2>1. /\ phase = "pair" /\ overs # <<>> /\ unders # <<>> /\ overs \in Entries /\ unders \in Entries
        /\ overs' = RestOvers(move) /\ unders' = RestUnders(move)
    BY <1>1 DEF Pairs, PlanInv, TypeOK
  <2>2. o.left \in Nat \ {0} /\ u.left \in Nat \ {0}
    <3>1. Head(overs) = overs[1] /\ 1 \in DOMAIN overs /\ Head(unders) = unders[1] /\ 1 \in DOMAIN unders
      BY <2>1 DEF Entries
    <3> QED BY <2>1, <3>1, EntryParts
  <2>3. CapOf(o.token) = {} \/ \E c \in Nat \ {0} : CapOf(o.token) = {c}
    BY <1>1, <2>1, CapsArePositive DEF CapOf, PlanInv, Derived
  <2>4. /\ move \in Nat \ {0} /\ move <= o.left /\ move <= u.left
        /\ move = o.left \/ move = u.left \/ move \in CapOf(o.token)
    <3>1. move = Min({o.left, u.left} \union CapOf(o.token))
      BY DEF Move
    <3> HIDE DEF o, u, move
    <3>2. move \in Nat \ {0} /\ move <= o.left /\ move <= u.left /\ move \in {o.left, u.left} \union CapOf(o.token)
      BY <2>2, <2>3, <3>1, MinOf
    <3> QED BY <3>2
  <2> HIDE DEF move
  <2>5. ASSUME NEW s \in Entries, s # <<>>, move <= Head(s).left
        PROVE  /\ Len(s) \in Nat /\ Len(Tail(s)) = Len(s) - 1
               /\ Len(Rest(s, move)) \in {Len(s), Len(s) - 1}
               /\ Head(s).left = move => Len(Rest(s, move)) = Len(s) - 1
    <3>1. /\ Head(s) = s[1] /\ s[1] \in [token: Tokens, left: Nat \ {0}] /\ Len(s) \in Nat /\ DOMAIN s = 1 .. Len(s)
          /\ Tail(s) \in Entries /\ DOMAIN Tail(s) = 1 .. Len(s) - 1
          /\ s[1].left = move => Rest(s, move) = Tail(s)
          /\ s[1].left > move => Rest(s, move) \in Entries /\ DOMAIN Rest(s, move) = DOMAIN s
      BY <2>4, <2>5, RestOf
    <3>2. \A q \in Entries : Len(q) \in Nat /\ DOMAIN q = 1 .. Len(q)
      BY LenProperties DEF Entries
    <3>3. Len(Tail(s)) = Len(s) - 1
      BY <2>5, HeadTailProperties DEF Entries
    <3>4. ASSUME s[1].left > move PROVE Len(Rest(s, move)) = Len(s)
      <4>1. Rest(s, move) \in Entries /\ 1 .. Len(Rest(s, move)) = 1 .. Len(s)
        BY <3>1, <3>2, <3>4
      <4>2. \A m, n \in Nat : 1 .. m = 1 .. n => m = n
        <5>1. ASSUME NEW m \in Nat, NEW n \in Nat, 1 .. m = 1 .. n, m < n PROVE FALSE
          <6>1. n \in 1 .. n /\ n \notin 1 .. m
            BY <5>1
          <6> QED BY <5>1, <6>1
        <5>2. \A m, n \in Nat : m < n \/ n < m \/ m = n
          OBVIOUS
        <5> QED BY <5>1, <5>2
      <4> QED BY <3>1, <3>2, <4>1, <4>2
    <3>5. s[1].left > move \/ s[1].left = move
      BY <2>4, <2>5, <3>1
    <3> QED BY <3>1, <3>3, <3>4, <3>5
  <2>6. /\ Len(overs) \in Nat /\ Len(unders) \in Nat
        /\ Len(overs') \in {Len(overs), Len(overs) - 1}
        /\ o.left = move \/ move \in CapOf(o.token) => Len(overs') = Len(overs) - 1
    BY <2>1, <2>4, <2>5 DEF RestOvers
  <2>7. /\ Len(unders') \in {Len(unders), Len(unders) - 1}
        /\ u.left = move => Len(unders') = Len(unders) - 1
    BY <2>1, <2>4, <2>5 DEF RestUnders
  <2> HIDE DEF o, u
  <2> QED BY <2>4, <2>6, <2>7
<1> QED BY <1>1, PlanHolds, PTL DEF PairingShrinks, Spec
=============================================================================
