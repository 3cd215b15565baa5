---------------------------- MODULE MCAccountOps ----------------------------
(* Instances of AccountOps for TLC. *)
EXTENDS AccountOps, TLC

CONSTANTS s1, s2, d1, device, b1, b2, j1, j2, j3

Leg(t, cap) == [token |-> t, cap |-> cap]
Parity == [s \in 1 .. 6 |-> s % 2]
TokenSet == {"usdc", "weth"}

\* Two strategy sessions, the first one listing a token twice, and a DCA session.
PermSet == {s1, s2, d1}
Scopes ==
    (s1 :> [kind |-> "strategy", salt |-> 1, legs |-> <<Leg("usdc", 1), Leg("weth", 1), Leg("usdc", 2)>>])
    @@ (s2 :> [kind |-> "strategy", salt |-> 2, legs |-> <<Leg("usdc", 1)>>])
    @@ (d1 :> [kind |-> "dca", salt |-> 3, legs |-> <<Leg("usdc", 1)>>])

BuildSet == {b1, b2}
Calls == (b1 :> [do |-> "enable", perm |-> s1]) @@ (b2 :> [do |-> "remove", perm |-> s1])

JobOf(p, t, amount, key) ==
    [perm |-> p, token |-> t, amount |-> amount, tokenOut |-> "weth", minOut |-> 1, nonceKey |-> key]
JobSet == {j1, j2, j3}
JobList == (j1 :> JobOf(s1, "usdc", 2, 0)) @@ (j2 :> JobOf(d1, "usdc", 1, 0)) @@ (j3 :> JobOf(s1, "usdc", 1, 1))
=============================================================================
