---------------------------- MODULE MCSiweLogin -----------------------------
(* Instances of SiweLogin for TLC. *)
EXTENDS SiweLogin

CONSTANTS w1, w2, n1, n2, l1, l2, p1, p2

Msg(w, form, by, n, domain, chain) ==
    [address |-> <<w, form>>, by |-> by, nonce |-> n, domain |-> domain, chain |-> chain]

\* One wallet in both spellings, on two nonces; another wallet; a message for another site, one on
\* another chain and one whose key is not the address's, as in SiweVerifierTest.
MessageSet == {
    Msg(w1, "checksum", w1, n1, "cyppie", 1),
    Msg(w1, "lower", w1, n2, "cyppie", 1),
    Msg(w2, "lower", w2, n2, "cyppie", 1),
    Msg(w1, "lower", w1, n1, "other", 1),
    Msg(w1, "lower", w1, n2, "cyppie", 5),
    Msg(w1, "lower", w2, n2, "cyppie", 1)}
=============================================================================
