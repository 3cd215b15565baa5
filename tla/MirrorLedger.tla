---------------------------- MODULE MirrorLedger ----------------------------
(***************************************************************************)
(* What the copy registry promises its callers, whatever the handlers and  *)
(* the restarts do: a budget ledger per session in which every idempotency *)
(* key is charged at most once, only after it was held, and the charges    *)
(* never exceed the cap.  A hold may be dropped (the mirror failed) or     *)
(* lost (the process died); a charge is final.                             *)
(* CopyTrading implements this specification when the registry file can    *)
(* always be written.                                                      *)
(***************************************************************************)
EXTENDS Integers

CONSTANTS
    Perms,   \* sessions
    Keys,    \* idempotency keys
    Limit,   \* session -> its budget
    Opening  \* session -> [charged, used] at the start

VARIABLES
    charged, \* session -> keys charged
    held,    \* session -> keys reserved and not yet settled
    used     \* session -> budget charged

ledger == <<charged, held, used>>

Init ==
    /\ charged = [p \in Perms |-> Opening[p].charged]
    /\ held = [p \in Perms |-> {}]
    /\ used = [p \in Perms |-> Opening[p].used]

Hold(p, k) ==
    /\ k \notin charged[p] \union held[p]
    /\ held' = [held EXCEPT ![p] = @ \union {k}]
    /\ UNCHANGED <<charged, used>>

Charge(p, k, a) ==
    /\ k \in held[p]
    /\ k \notin charged[p]
    /\ used[p] + a <= Limit[p]
    /\ held' = [held EXCEPT ![p] = @ \ {k}]
    /\ charged' = [charged EXCEPT ![p] = @ \union {k}]
    /\ used' = [used EXCEPT ![p] = @ + a]

Drop(p, k) ==
    /\ k \in held[p]
    /\ held' = [held EXCEPT ![p] = @ \ {k}]
    /\ UNCHANGED <<charged, used>>

LoseHolds ==
    /\ held' = [p \in Perms |-> {}]
    /\ UNCHANGED <<charged, used>>

Next ==
    \/ \E p \in Perms, k \in Keys : Hold(p, k) \/ Drop(p, k) \/ \E a \in 0 .. Limit[p] : Charge(p, k, a)
    \/ LoseHolds

Spec == Init /\ [][Next]_ledger
=============================================================================
