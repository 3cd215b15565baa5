--------------------------- MODULE MCDcaHandshake ---------------------------
(***************************************************************************)
(* Instances of DcaHandshake: two schedules of one account that spend the  *)
(* same token, a cap that holds one buy of each but not more.              *)
(***************************************************************************)
EXTENDS DcaHandshake, TLC

CONSTANTS s1, s2, a1, u1, r1, r2, r3

PlanOf(amount, interval) == [account |-> a1, purse |-> u1, amount |-> amount, interval |-> interval]
OneSched == {s1}
TwoScheds == {s1, s2}
PlanHourly == (s1 :> PlanOf(2, 1))
PlanTwo == (s1 :> PlanOf(2, 2)) @@ (s2 :> PlanOf(3, 3))
OneAccount == {a1}
OnePurse == {u1}
CapFive == (u1 :> 5)
TwoRequests == {r1, r2}
ThreeRequests == {r1, r2, r3}
=============================================================================
