---------------------------- MODULE StrategyPlan ----------------------------
(***************************************************************************)
(* What a strategy session may sell and what one rebalance sells.          *)
(*                                                                         *)
(* prepareStrategySession (strategyService.ts) takes one price snapshot    *)
(* per basket token, an await each, and derives the per-token Sell-Caps    *)
(* from it (strategyCaps.ts).  A later tick computes the legs of a drifted *)
(* basket, clamped to those caps (strategyRebalance.ts): the greedy        *)
(* pairing is one step per iteration of its inner loop.                    *)
(*                                                                         *)
(* A position, a cap and a leg count base units of one accounting unit, as *)
(* in the code's v1.  Submitting the legs is not part of this module.      *)
(***************************************************************************)
EXTENDS Integers, Sequences, SequencesExt

CONSTANTS
    Tokens,       \* tokens of the basket and the budget token
    BudgetToken,
    Intents,      \* prepare requests: [budget, turnover, weight: basket token -> bps]
    Prices,       \* answers of the quoter: [in, out]
    Values,       \* values a position can have
    Thresholds    \* driftThresholdBps of the caller

VARIABLES
    intent,
    unquoted,  \* basket tokens snapshotSellQuotes has not looked at yet
    quotes,    \* token -> snapshot, for the tokens quoted so far
    caps,      \* token -> Sell-Cap, for the capped tokens
    holding,   \* token -> value of the position, at the tick
    overs,     \* over-weight tokens still to sell: [token, left]
    unders,    \* under-weight tokens still to buy: [token, left]
    legs,      \* legs pushed so far: [from, to, amount]
    phase

prepareVars == <<intent, unquoted, quotes, caps>>
tickVars == <<holding, overs, unders, legs>>
vars == <<prepareVars, tickVars, phase>>

BPS == 10000
Basket == DOMAIN intent.weight

ASSUME IntentAssumption ==
    /\ IsFiniteSet(Tokens) /\ BudgetToken \in Tokens
    /\ \A i \in Intents : /\ i.budget \in Nat /\ i.turnover \in Nat
                          /\ DOMAIN i.weight \subseteq Tokens
                          /\ \A t \in DOMAIN i.weight : i.weight[t] \in 0 .. BPS
    /\ \A q \in Prices : q.in \in Nat \ {0} /\ q.out \in Nat
    /\ Values \subseteq Nat /\ Thresholds \subseteq Nat

Init ==
    /\ intent \in Intents
    /\ unquoted = DOMAIN intent.weight
    /\ quotes = <<>>
    /\ caps = <<>>
    /\ holding = [t \in Tokens |-> 0]
    /\ overs = <<>>
    /\ unders = <<>>
    /\ legs = <<>>
    /\ phase = "snapshot"

-----------------------------------------------------------------------------
(* POST /v1/strategy/session/prepare.                                      *)

CeilDivRoundsDown(a, b) == a \div b
CeilDiv(a, b) == (a + b - 1) \div b
FloorDiv(a, b) == a \div b

Extend(f, t, v) == [u \in DOMAIN f \union {t} |-> IF u = t THEN v ELSE f[u]]

\* The budget token is its own price and is not quoted.
SkipsBudgetToken ==
    /\ phase = "snapshot"
    /\ BudgetToken \in unquoted
    /\ unquoted' = unquoted \ {BudgetToken}
    /\ UNCHANGED <<intent, quotes, caps, tickVars, phase>>

\* decimals() and quoteExactInputSingle() answer; a pool without liquidity is refused.
Quotes(t) ==
    /\ phase = "snapshot"
    /\ t \in unquoted \ {BudgetToken}
    /\ \E q \in Prices :
         IF q.out = 0
         THEN phase' = "dead" /\ UNCHANGED <<unquoted, quotes>>
         ELSE /\ quotes' = Extend(quotes, t, q)
              /\ unquoted' = unquoted \ {t}
              /\ UNCHANGED phase
    /\ UNCHANGED <<intent, caps, tickVars>>

Weighted == {t \in Basket : intent.weight[t] > 0}
Priced == DOMAIN quotes

\* What deriveSellCaps insists on.
WellFormedIntent == intent.budget > 0 /\ intent.turnover >= 1
Derivable == WellFormedIntent /\ Weighted \subseteq Priced

BasketCap(t) ==
    CeilDiv(intent.budget * intent.weight[t] * intent.turnover * quotes[t].in, BPS * quotes[t].out)
SourceCap == intent.budget * intent.turnover

\* The larger cap wins when the budget token is a basket token too.
SellCap(t) ==
    Max({BasketCap(u) : u \in Weighted \intersect {t}} \union {SourceCap : u \in {BudgetToken} \intersect {t}})

Derives ==
    /\ phase = "snapshot"
    /\ unquoted = {}
    /\ Derivable
    /\ caps' = [t \in Weighted \union {BudgetToken} |-> SellCap(t)]
    /\ phase' = "prepared"
    /\ UNCHANGED <<intent, unquoted, quotes, tickVars>>

\* deriveSellCaps throws: 500, nothing is recorded.
DeriveThrows ==
    /\ phase = "snapshot"
    /\ unquoted = {}
    /\ ~Derivable
    /\ phase' = "threw"
    /\ UNCHANGED <<prepareVars, tickVars>>

-----------------------------------------------------------------------------
(* computeRebalanceLegs.                                                   *)

Total == SumFunctionOnSet(holding, Tokens)
Weight(t) == IF t \in Basket THEN intent.weight[t] ELSE 0
Drift(t) == holding[t] - FloorDiv(Total * Weight(t), BPS)
Magnitude(n) == IF n < 0 THEN -n ELSE n
Calm(threshold) == \A t \in Tokens : Magnitude(Drift(t)) * BPS <= threshold * Total

\* Largest first; the comparator leaves the order of equal entries to the engine.
Descending(S) ==
    {s \in SetToSeqs(S) : \A i, j \in 1 .. Len(s) : i < j => s[i].left >= s[j].left}

OverWeight == {t \in Tokens : Drift(t) > 0}
UnderWeight == {t \in Tokens : Drift(t) < 0}
Legs(S) == {[token |-> t, left |-> Magnitude(Drift(t))] : t \in S}

\* The engine values the basket and asks for legs.
TickStarts ==
    /\ phase = "prepared"
    /\ holding' \in [Tokens -> Values]
    /\ phase' = "drift"
    /\ UNCHANGED <<prepareVars, overs, unders, legs>>

NoChurn ==
    /\ phase = "drift"
    /\ Total = 0 \/ \E threshold \in Thresholds : Calm(threshold)
    /\ phase' = "done"
    /\ UNCHANGED <<prepareVars, tickVars>>

SortsDrift ==
    /\ phase = "drift"
    /\ Total > 0
    /\ \E threshold \in Thresholds : ~Calm(threshold)
    /\ overs' \in Descending(Legs(OverWeight))
    /\ unders' \in Descending(Legs(UnderWeight))
    /\ phase' = "pair"
    /\ UNCHANGED <<prepareVars, holding, legs>>

\* One iteration of the inner loop: the largest over-weight sells into the current
\* under-weight, at most its cap.
CapOf(t) == IF t \in DOMAIN caps THEN {caps[t]} ELSE {}
MoveIgnoringNeed(over, under) == Min({over.left} \union CapOf(over.token))
Move(over, under) == Min({over.left, under.left} \union CapOf(over.token))

\* What a pairing leaves of the entry at the head of a list.
Rest(entries, move) ==
    IF Head(entries).left > move
    THEN <<[Head(entries) EXCEPT !.left = @ - move]>> \o Tail(entries)
    ELSE Tail(entries)

\* A token that sold its cap in one leg is done for this tick.
RestOversGivesUp(move) == Tail(overs)
RestOvers(move) ==
    IF move \in CapOf(Head(overs).token) THEN Tail(overs) ELSE Rest(overs, move)

RestUndersKeepsEmpty(move) == <<[Head(unders) EXCEPT !.left = @ - move]>> \o Tail(unders)
RestUnders(move) == Rest(unders, move)

Pairs ==
    /\ phase = "pair"
    /\ overs # <<>> /\ unders # <<>>
    /\ LET move == Move(Head(overs), Head(unders))
       IN  /\ legs' = IF move > 0
                       THEN Append(legs, [from |-> Head(overs).token, to |-> Head(unders).token, amount |-> move])
                       ELSE legs
           /\ overs' = RestOvers(move)
           /\ unders' = RestUnders(move)
    /\ UNCHANGED <<prepareVars, holding, phase>>

TickEnds ==
    /\ phase = "pair"
    /\ overs = <<>> \/ unders = <<>>
    /\ phase' = "done"
    /\ UNCHANGED <<prepareVars, tickVars>>

-----------------------------------------------------------------------------
PrepareStep ==
    \/ SkipsBudgetToken \/ Derives \/ DeriveThrows
    \/ \E t \in Tokens : Quotes(t)

TickStep == NoChurn \/ SortsDrift \/ Pairs \/ TickEnds

Next == PrepareStep \/ TickStarts \/ TickStep

Spec == Init /\ [][Next]_vars

\* The quoter answers or its client times out, and a synchronous function runs to its end.
Fairness == WF_vars(PrepareStep) /\ WF_vars(TickStep)

FairSpec == Spec /\ Fairness

-----------------------------------------------------------------------------
(* Properties.                                                             *)

Entries == Seq([token: Tokens, left: Nat \ {0}])

\* Every variable has its type; the lists of the pairing hold only positive drifts.
TypeOK ==
    /\ intent \in Intents
    /\ unquoted \subseteq Tokens
    /\ DOMAIN quotes \subseteq Tokens /\ \A t \in Priced : quotes[t] \in Prices
    /\ DOMAIN caps \subseteq Tokens /\ \A t \in DOMAIN caps : caps[t] \in Nat
    /\ holding \in [Tokens -> Nat]
    /\ overs \in Entries
    /\ unders \in Entries
    /\ legs \in Seq([from: Tokens, to: Tokens, amount: Nat])
    /\ phase \in {"snapshot", "dead", "threw", "prepared", "drift", "pair", "done"}

LegsFrom(t) == {i \in DOMAIN legs : legs[i].from = t}
LegsTo(t) == {i \in DOMAIN legs : legs[i].to = t}
Amounts == [i \in DOMAIN legs |-> legs[i].amount]
Sold(t) == SumFunctionOnSet(Amounts, LegsFrom(t))
Bought(t) == SumFunctionOnSet(Amounts, LegsTo(t))

\* The cap of a basket token is the smallest amount that does not fall below budget x weight x
\* turnover at the snapshot price, and the budget token may rotate whole (deriveSellCaps):
\* whatever order the tokens are quoted in, none keeps another one's price.
CapsCoverSnapshot ==
    phase \in {"prepared", "drift", "pair", "done"} =>
        /\ \A t \in Weighted \ {BudgetToken} :
              LET want == intent.budget * intent.weight[t] * intent.turnover * quotes[t].in
                  unit == BPS * quotes[t].out
              IN  caps[t] * unit >= want /\ (caps[t] - 1) * unit < want
        /\ caps[BudgetToken] >= intent.budget * intent.turnover

\* Trading towards the target never crosses it: over all legs of a tick no token sells more
\* than its excess or buys more than its need, so none is both sold and bought
\* (computeRebalanceLegs).
NeverCrossesTarget ==
    \A t \in Tokens : /\ Sold(t) <= Max({Drift(t), 0})
                      /\ Bought(t) <= Max({-Drift(t), 0})

\* Only a Sell-Cap can leave the basket unbalanced: when a finished tick leaves an under-weight
\* token short, every over-weight token has sold its whole excess or a leg as large as its cap.
OnlyCapsBlock ==
    phase = "done" /\ legs # <<>> /\ (\E u \in UnderWeight : Bought(u) < -Drift(u)) =>
        \A t \in OverWeight : Sold(t) = Drift(t) \/ \E i \in LegsFrom(t) : legs[i].amount \in CapOf(t)

\* A prepare is answered and a tick returns (computeRebalanceLegs is a nested loop whose
\* bounds both depend on what the last leg left).
TickReturns == phase \in {"drift", "pair"} ~> phase = "done"
=============================================================================
