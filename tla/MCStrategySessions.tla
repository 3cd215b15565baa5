-------------------------- MODULE MCStrategySessions --------------------------
(* A session that is prepared, granted and revoked while another one of the *)
(* same account, granted in an earlier run of the service, is listed.       *)
EXTENDS StrategySessions, TLC

CONSTANTS p1, p2, alice, prepare1, grant1, pause1, resume1, list1, revoke1


MCAccount == [p \in Perms |-> alice]

MCRequest ==
    (prepare1 :> [kind |-> "prepare", perm |-> p1]) @@
    (grant1   :> [kind |-> "grant",   perm |-> p1]) @@
    (pause1   :> [kind |-> "pause",   perm |-> p1, paused |-> TRUE]) @@
    (resume1  :> [kind |-> "pause",   perm |-> p1, paused |-> FALSE]) @@
    (list1    :> [kind |-> "list",    account |-> alice]) @@
    (revoke1  :> [kind |-> "revoke",  perm |-> p1])

MCBootFile == (p1 :> FreshRecord("none")) @@ (p2 :> FreshRecord("granted"))

MCBootEnabled == {p2}
=============================================================================
