---------------------------- MODULE SessionScope ----------------------------
(***************************************************************************)
(* The actions a Smart Session enables, and the calls the service sends    *)
(* through it: a copy session (copySession.ts buildSession with the        *)
(* UniversalRouter adapter), a strategy session (strategySession.ts        *)
(* buildStrategySession) and a DCA session (dcaAdapter.ts).  A scope is    *)
(*   [kind |-> "copy" | "strategy" | "dca", salt, legs]                    *)
(* where legs lists [token, cap]; copy and DCA sessions have one leg.  An  *)
(* action is a target with a selector.  Time windows, routers of other     *)
(* chains and the byte layout are left out.                                *)
(***************************************************************************)
EXTENDS Naturals, Sequences

CONSTANT Tokens

\* Permit2 is a contract of its own, none of the tokens.
ASSUME TokensAssumption == "permit2" \notin Tokens

Approve(t) == <<t, "approve">>
Permit2Approve == <<"permit2", "approve">>
Execute == <<"universalRouter", "execute">>
Multicall == <<"swapRouter02", "multicall">>

Lists(legs, t) == {i \in 1 .. Len(legs) : legs[i].token = t}

\* A sum instead of the last cap for a token that is listed twice.
SortLegsAdds(legs) ==
    [t \in {legs[i].token : i \in 1 .. Len(legs)} |->
        IF \E i, j \in Lists(legs, t) : i # j
        THEN LET i == CHOOSE i \in Lists(legs, t) : TRUE
                 j == CHOOSE j \in Lists(legs, t) : i # j
             IN  legs[i].cap + legs[j].cap
        ELSE legs[CHOOSE i \in Lists(legs, t) : TRUE].cap]

\* Deduplicated, the last cap wins; the order only fixes the bytes of the session.
SortLegs(legs) ==
    [t \in {legs[i].token : i \in 1 .. Len(legs)} |->
        legs[CHOOSE i \in Lists(legs, t) : \A j \in Lists(legs, t) : j <= i].cap]

\* The time-boxed actions next to the capped approves.
SharedActions(kind) == IF kind = "dca" THEN {Multicall} ELSE {Permit2Approve, Execute}

Enabled(scope) == {Approve(t) : t \in DOMAIN SortLegs(scope.legs)} \union SharedActions(scope.kind)
CapOf(scope, t) == SortLegs(scope.legs)[t]

\* The actions of one swap of token t, in any order: the batch is atomic.
CallsOf(kind, t) ==
    {Approve(t)} \union IF kind = "dca" THEN {Multicall} ELSE {Permit2Approve, Execute}

\* The policies on-chain: every call enabled, and the approved amount within what is left of the cap.
PolicyAllows(scope, t, amount, drawn) ==
    /\ CallsOf(scope.kind, t) \subseteq Enabled(scope)
    /\ drawn + amount <= CapOf(scope, t)
=============================================================================
