----------------------------- MODULE MirrorPlan -----------------------------
(***************************************************************************)
(* The pure half of copy-trading detection (aa-trigger/src/copyWebhook.ts, *)
(* swapAdapter.ts and the per-session decision inside the webhook handler  *)
(* of server.ts): which activities of an Alchemy push are spends of a      *)
(* followed trader, how large the mirror of a spend is, whether a session  *)
(* mirrors it at all, and whether its calldata can be built.               *)
(*                                                                         *)
(* Addresses, hashes and tokens are opaque values compared for equality    *)
(* (the code lower-cases both sides before it compares them).  An activity *)
(* is a record                                                             *)
(*   [ok, chain, cat, from, to, tx, token, value, leg]                     *)
(* where ok says that token and value are there and the value parses, and  *)
(* from, to, tx and leg are NoValue when the push carries none.            *)
(***************************************************************************)
EXTENDS Integers, Sequences, FiniteSets

CONSTANTS
    NoValue,            \* an absent optional field (undefined / null)
    BadAddress,         \* a token address getAddress() rejects
    RouterAllowlist,    \* pairs <<chain, router>>: copyWebhook.ts ROUTER_ALLOWLIST
    TokenOutAllowlist,  \* pairs <<chain, token>>:  copyWebhook.ts TOKENOUT_ALLOWLIST
    Adapters,           \* routers with a registered swap adapter (swapAdapter.ts ADAPTERS)
    FloorChains,        \* chains on which a slippage floor is known (server.ts minOutFor)
    Uint160Max          \* largest amount Permit2 accepts

BPS == 10000
Uint24Max == 2 ^ 24 - 1
DefaultFeeTier == 3000

IsAllowlistedRouter(chain, router) == <<chain, router>> \in RouterAllowlist

IsAllowlistedTokenOut(chain, token) == <<chain, token>> \in TokenOutAllowlist

-----------------------------------------------------------------------------
(* Parsing a push.                                                         *)

\* The tokens the trader received in the same transaction, the input token aside.
ReceivedTokens(acts, a) ==
    {acts[j].token : j \in {k \in DOMAIN acts :
        /\ acts[k].ok
        /\ acts[k].cat = "token"
        /\ acts[k].tx = a.tx
        /\ acts[k].to = a.from
        /\ acts[k].token # a.token
        /\ acts[k].value > 0}}

\* The output leg of a swap: the one token received, nothing when it is not unique.
DeriveOutputLeg(acts, a) ==
    LET received == ReceivedTokens(acts, a)
    IN  IF Cardinality(received) = 1 THEN CHOOSE t \in received : TRUE ELSE NoValue

\* The activity is an ERC-20 transfer of a followed trader into an allowlisted router; one
\* whose token, or whose output leg, is not an address is dropped as malformed.
IsFollowedSpend(acts, a, followed) ==
    /\ a.ok
    /\ a.cat = "token"
    /\ a.tx # NoValue
    /\ a.from \in followed
    /\ IsAllowlistedRouter(a.chain, a.to)
    /\ a.value > 0
    /\ BadAddress \notin {a.token, DeriveOutputLeg(acts, a)}

\* The idempotency key txHash:logIndex; an absent log index counts as 0.
SpendKey(a) == <<a.tx, IF a.leg = NoValue THEN 0 ELSE a.leg>>

-----------------------------------------------------------------------------
(* Sizing and deciding one mirror.                                         *)

ScaleMirror(amountIn, allocationBps, remainingCap) ==
    IF allocationBps <= 0 \/ remainingCap <= 0 THEN 0
    ELSE LET scaled == (amountIn * allocationBps) \div BPS
         IN  IF scaled > remainingCap THEN remainingCap ELSE scaled

\* The token a mirror buys: pinned by the session, or the trader's output leg (dynamic mode).
TokenOut(acts, a, scope) ==
    IF scope.tokenOut # NoValue THEN scope.tokenOut ELSE DeriveOutputLeg(acts, a)

\* The amount the handler computes from the session snapshot it holds.
MirrorAmount(a, scope, spentSeen) ==
    ScaleMirror(a.value, scope.allocationBps, scope.cap - spentSeen)

\* None of the handler's skip reasons applies, so it goes on to reserve.
WantsMirror(acts, a, scope, spentSeen) ==
    LET out == TokenOut(acts, a, scope)
    IN  /\ a.token = scope.token
        /\ a.to = scope.router
        /\ MirrorAmount(a, scope, spentSeen) > 0
        /\ out # NoValue
        /\ scope.tokenOut = NoValue => IsAllowlistedTokenOut(a.chain, out)
        /\ a.chain \in FloorChains

\* The pool fee of the swap: the session's, or the default of the dynamic mode.
FeeTier(scope) == IF scope.feeTier = NoValue THEN DefaultFeeTier ELSE scope.feeTier

\* buildMirrorCalls returns calls; otherwise it throws: no adapter for the router, an amount
\* Permit2 cannot carry, or a path that cannot be encoded (token, uint24 fee).
BuildMirrorCallsOk(acts, a, scope, amount) ==
    /\ a.to \in Adapters
    /\ amount > 0
    /\ amount <= Uint160Max
    /\ TokenOut(acts, a, scope) # BadAddress
    /\ FeeTier(scope) \in 0 .. Uint24Max

-----------------------------------------------------------------------------
(* The caller-supplied calls of /v1/session/trigger.  A call is a record   *)
(* [to, sel, amount]; amount is the second argument of an approve.         *)

IsCapApprove(c, scope) == c.to = scope.token /\ c.sel = "approve"

\* The (target, selector) pairs the session enabled on-chain.
EnabledActionKeys(scope) ==
    IF scope.router \in Adapters
    THEN {<<scope.token, "approve">>, <<"permit2", "permit2Approve">>, <<scope.router, "execute">>}
    ELSE {<<scope.token, "approve">>, <<scope.router, scope.selector>>}

CallsEnabled(calls, scope) ==
    \A i \in DOMAIN calls : <<calls[i].to, calls[i].sel>> \in EnabledActionKeys(scope)

CapApproves(calls, scope) == {i \in DOMAIN calls : IsCapApprove(calls[i], scope)}

\* The spend charged for the calls: the amount of the FIRST approve on the spend token.
DeriveSpendFromCalls(calls, scope) ==
    LET approves == CapApproves(calls, scope)
    IN  calls[CHOOSE i \in approves : \A j \in approves : i <= j].amount
=============================================================================
