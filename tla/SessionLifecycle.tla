--------------------------- MODULE SessionLifecycle ---------------------------
(***************************************************************************)
(* What a session store promises its clients: a session goes forward       *)
(* through prepared and granted to revoked, revoked is final, and nobody   *)
(* is ever told of a stage that is not stored for good.                    *)
(* Several sessions may move in one step: the store writes them all at     *)
(* once, those of an earlier failed write included.                        *)
(***************************************************************************)
EXTENDS Integers

CONSTANTS
    Perms,    \* sessions
    Opening   \* session -> its stage at the start

VARIABLES
    stored,   \* session -> stage that survives a restart
    told      \* session -> furthest stage a client was told of

Stages == {"none", "prepared", "granted", "revoked"}

Rank == [none |-> 0, prepared |-> 1, granted |-> 2, revoked |-> 3]

After == [none     |-> {"none", "prepared"},
          prepared |-> {"prepared", "granted", "revoked"},
          granted  |-> {"granted", "revoked"},
          revoked  |-> {"revoked"}]

Init ==
    /\ stored = Opening
    /\ told = [p \in Perms |-> "none"]

Next ==
    \A p \in Perms :
        /\ stored'[p] \in After[stored[p]]
        /\ Rank[told'[p]] >= Rank[told[p]]
        /\ told'[p] # told[p] => Rank[told'[p]] <= Rank[stored'[p]]

Spec == Init /\ [][Next]_<<stored, told>>
=============================================================================
