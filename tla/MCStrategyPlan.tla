--------------------------- MODULE MCStrategyPlan ---------------------------
(***************************************************************************)
(* Instances of StrategyPlan: three basket tokens and the budget token, so *)
(* that two tokens can be over-weight while two are under-weight.          *)
(***************************************************************************)
EXTENDS StrategyPlan, TLC

CONSTANTS usdc, weth, wbtc, dai

FourTokens == {usdc, weth, wbtc, dai}
Intent(budget, turnover, weight) == [budget |-> budget, turnover |-> turnover, weight |-> weight]
Thirds == (weth :> 3333) @@ (wbtc :> 3333) @@ (dai :> 3334) @@ (usdc :> 0)
Uneven == (weth :> 5000) @@ (wbtc :> 4000) @@ (dai :> 0)

\* Two baskets that want none of the budget token, one with half of it in the budget token, and a
\* turnover that is refused.
Baskets == {Intent(2, 1, Thirds), Intent(3, 1, Uneven), Intent(2, 1, (usdc :> 5000) @@ (weth :> 5000)),
            Intent(2, 0, Thirds)}

Quoter == {[in |-> 2, out |-> 0], [in |-> 2, out |-> 2], [in |-> 3, out |-> 2]}
SmallValues == {0, 1, 3, 5}
LowAndHigh == {0, 2000}
=============================================================================
