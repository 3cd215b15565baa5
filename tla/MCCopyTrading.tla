--------------------------- MODULE MCCopyTrading ---------------------------
(***************************************************************************)
(* Instances of CopyTrading for TLC.  One push of the trader tr holds two  *)
(* legs of one transaction on the test network sep, plus the activities    *)
(* the parser has to drop.                                                 *)
(***************************************************************************)
EXTENDS CopyTrading, TLC

CONSTANTS h1, h2, h3, h4, p1, p2, f1, tx, none, bad, nobody

Act(cat, from, to, token, value, leg) ==
    [ok |-> TRUE, chain |-> "sep", cat |-> cat, from |-> from, to |-> to, tx |-> tx,
     token |-> token, value |-> value, leg |-> leg]

\* Two spends of 4 and 6 usdc, the output leg, and two malformed entries.
Spend0 == Act("token", "tr", "router", "usdc", 4, none)
Spend1 == Act("token", "tr", "router", "usdc", 6, 1)
Output == Act("token", "router", "tr", "weth", 3, 2)
NoAmount == [Spend1 EXCEPT !.ok = FALSE]
NoToken == [Spend1 EXCEPT !.token = bad]
Push == <<Spend0, NoAmount, NoToken, Output, Spend1>>
OneSpend == <<Spend0, Output>>

ScopeOf(tokenOut, allocation, cap) ==
    [chain |-> "sep", source |-> "tr", follower |-> f1, token |-> "usdc", router |-> "router",
     selector |-> "execute", tokenOut |-> tokenOut, feeTier |-> none, allocationBps |-> allocation, cap |-> cap]

Granted == [FreshRecord("granted") EXCEPT !.spentTotal = 1, !.mirroredTx = <<<<tx, 9>>>>]
New == FreshRecord("none")

Webhook(payload) == [kind |-> "webhook", signed |-> TRUE, payload |-> payload]
Unsigned == [kind |-> "webhook", signed |-> FALSE, payload |-> <<>>]
Call(to, sel, amount) == [to |-> to, sel |-> sel, amount |-> amount]
SwapCalls(amount) == <<Call("usdc", "approve", amount), Call("permit2", "permit2Approve", amount), Call("router", "execute", 0)>>
Trigger(p, calls) == [kind |-> "trigger", perm |-> p, tx |-> tx, calls |-> calls, declared |-> none]
List == [kind |-> "list", follower |-> f1]
RevokeOf(p) == [kind |-> "revoke", perm |-> p]

Routers == {<<"sep", "router">>}
Allowed == {<<"sep", "weth">>}
AdapterSet == {"router"}
Floors == {"sep"}
AllKeys == {<<tx, i>> : i \in {-1, 0, 1, 2, 9}}
OneFollower == {f1}
One == {p1}
Both == {p1, p2}

\* A dynamic session that copies half, budget 6 with 1 already spent; a second one with a pinned token.
ScopeOne == (p1 :> ScopeOf(none, 5000, 6))
ScopeBoth == (p1 :> ScopeOf(none, 5000, 6)) @@ (p2 :> ScopeOf("weth", 10000, 5))
\* The second session has a fee tier that no path can carry.
ScopeBad == (p1 :> ScopeOf(none, 5000, 6))
              @@ (p2 :> [ScopeOf("weth", 10000, 5) EXCEPT !.feeTier = Uint24Max + 1])
BootOne == (p1 :> Granted)
BootBoth == (p1 :> Granted) @@ (p2 :> New)
BootGranted == (p1 :> Granted) @@ (p2 :> Granted)

TwoHandlers == {h1, h2}
ThreeHandlers == {h1, h2, h3}
FourHandlers == {h1, h2, h3, h4}
\* A delivery and its retry.
Retry == (h1 :> Webhook(OneSpend)) @@ (h2 :> Webhook(OneSpend))
\* A delivery, its retry, a trigger for the same transaction, and an under-declared trigger.
RetryAndTriggers == (h1 :> Webhook(Push)) @@ (h2 :> Webhook(Push)) @@ (h3 :> Trigger(p1, SwapCalls(2)))
                      @@ (h4 :> [Trigger(p1, SwapCalls(2)) EXCEPT !.declared = 1])
\* A delivery, the owner's revoke, and the retry of the delivery.
DeliverAndRevoke == (h1 :> Webhook(OneSpend)) @@ (h2 :> RevokeOf(p1)) @@ (h3 :> Webhook(OneSpend))
\* The app's list, the owner's revoke, a trigger, and a push without a valid signature.
ListAndRevoke == (h1 :> List) @@ (h2 :> RevokeOf(p1)) @@ (h3 :> Trigger(p1, SwapCalls(2))) @@ (h4 :> Unsigned)

Lifecycle == {"prepare", "grant", "enable", "remove"}
=============================================================================
