------------------------------ MODULE Signing -------------------------------
(***************************************************************************)
(* What userop.ts and sessionKeySigner.ts sign, and in which form.  A      *)
(* digest is the hash of an op in one of two forms; a signature names its  *)
(* key and digest and keeps the scalar s and the recovery bit of ECDSA,    *)
(* because the code rewrites both (EIP-2).  The scalar r is left out: no   *)
(* step touches it.                                                        *)
(***************************************************************************)
EXTENDS Naturals

CONSTANTS
    CurveN,   \* order of the curve's group, an odd number
    YParity   \* recovery bit that makes <<r, s>> recover to the signer's key

\* Negating s negates the point: s and n - s belong to opposite parities.
ASSUME CurveAssumption ==
    /\ CurveN \in Nat
    /\ CurveN % 2 = 1
    /\ CurveN > 2
    /\ YParity \in [1 .. CurveN - 1 -> {0, 1}]
    /\ \A s \in 1 .. CurveN - 1 : YParity[CurveN - s] = 1 - YParity[s]

HalfN == CurveN \div 2
Scalars == 1 .. CurveN - 1

\* An op in classes of fields: what it does and pays (sender, nonce, calls, gas), the factory of a
\* new account, the paymaster's data, and the two parts that no hash covers.
PreparedFields == {"call", "paymaster", "signature", "authorization"}
HashedFields == {"call", "factory", "paymaster"}
OpHash(nonce, fields) == [nonce |-> nonce, fields |-> fields \intersect HashedFields]

\* The op that crosses to the app and back: only the listed fields.
SerializeOp(fields) == fields \intersect {"call", "factory", "paymaster"}

Raw(hash) == [form |-> "raw", hash |-> hash]
DigestToSign(hash) == [form |-> "eip191", hash |-> hash]

\* A normalization that forgets the recovery bit.
NormalizeToLowSKeepsBit(s, recovery) == [s |-> IF s > HalfN THEN CurveN - s ELSE s, recovery |-> recovery]

\* A normalization that counts the recovery bit up.
NormalizeToLowSCountsUp(s, recovery) ==
    IF s > HalfN THEN [s |-> CurveN - s, recovery |-> recovery + 1] ELSE [s |-> s, recovery |-> recovery]

NormalizeToLowS(s, recovery) ==
    IF s > HalfN THEN [s |-> CurveN - s, recovery |-> 1 - recovery] ELSE [s |-> s, recovery |-> recovery]

\* The signer's raw scalar is any scalar (an HSM may emit a high one).
SignDigestLowS(key, digest, s) ==
    LET n == NormalizeToLowS(s, YParity[s])
    IN  [key |-> key, digest |-> digest, s |-> n.s, recovery |-> n.recovery]

\* The validators on-chain: low s only, and the recovered key is the expected one.
Verifies(sig, key, digest) ==
    /\ sig.s <= HalfN
    /\ sig.recovery = YParity[sig.s]
    /\ sig.key = key
    /\ sig.digest = digest
=============================================================================
