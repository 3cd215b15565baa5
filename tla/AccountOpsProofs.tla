-------------------------- MODULE AccountOpsProofs --------------------------
(***************************************************************************)
(* Proofs about AccountOps, for any requests, sessions, caps and number of *)
(* the owner's own transactions: its types, and that an op nobody outran   *)
(* is accepted, root op or session op, and that draws stay within a cap.   *)
(***************************************************************************)
EXTENDS AccountOps, WellFoundedInduction, TLAPS

-----------------------------------------------------------------------------
(* The operators.                                                          *)

\* A nonempty set of naturals has a least element.
LEMMA NatMin ==
    ASSUME NEW S \in SUBSET Nat, S # {}
    PROVE  \E m \in S : \A k \in S : m <= k
<1> DEFINE R == {ss \in Nat \X Nat : ss[1] < ss[2]}
<1>1. IsWellFoundedOn(R, Nat)
  BY NatLessThanWellFounded DEF OpToRel
<1>2. PICK m \in S : \A k \in S : <<k, m>> \notin R
  BY <1>1, WFMin, Zenon
<1>3. \A k \in S : ~(k < m)
  BY <1>2
<1> QED
  BY <1>2, <1>3

\* A token that is listed is listed for the last time somewhere (strategySession.ts sortLegs).
LEMMA LastListed ==
    ASSUME NEW legs, Len(legs) \in Nat, NEW t, Lists(legs, t) # {}
    PROVE  \E i \in Lists(legs, t) : \A j \in Lists(legs, t) : j <= i
<1> DEFINE S == {Len(legs) - i : i \in Lists(legs, t)}
<1>0. \A i \in Lists(legs, t) : i \in Nat /\ Len(legs) - i \in Nat
  BY DEF Lists
<1>1. S \in SUBSET Nat /\ S # {}
  BY <1>0
<1>2. PICK m \in S : \A k \in S : m <= k
  BY <1>1, NatMin
<1>3. PICK i \in Lists(legs, t) : m = Len(legs) - i
  BY <1>2
<1>4. ASSUME NEW j \in Lists(legs, t) PROVE j <= i
  <2>1. m <= Len(legs) - j
    BY <1>2
  <2>2. Len(legs) - i <= Len(legs) - j
    BY <1>3, <2>1
  <2> HIDE DEF S
  <2> QED
    BY <1>0, <2>2
<1> QED
  BY <1>3, <1>4

\* The capped approves are those of the listed tokens, each with the cap listed last.
LEMMA SortLegsKeepsLast ==
    ASSUME NEW legs, Len(legs) \in Nat, NEW t \in DOMAIN SortLegs(legs)
    PROVE  \E i \in Lists(legs, t) : /\ SortLegs(legs)[t] = legs[i].cap
                                     /\ \A j \in Lists(legs, t) : j <= i
<1>1. Lists(legs, t) # {}
  BY DEF SortLegs, Lists
<1>2. \E i \in Lists(legs, t) : \A j \in Lists(legs, t) : j <= i
  BY <1>1, LastListed
<1> QED
  BY <1>2 DEF SortLegs

\* Only a listed token's approve can be an enabled approve: the shared actions are none.
LEMMA ApprovesAreListed ==
    ASSUME NEW scope, NEW t \in Tokens, Approve(t) \in Enabled(scope)
    PROVE  t \in DOMAIN SortLegs(scope.legs)
<1>0. t # "permit2" /\ "approve" # "multicall" /\ "approve" # "execute"
  BY TokensAssumption
<1>1. Approve(t) \notin SharedActions(scope.kind)
  BY <1>0 DEF Approve, SharedActions, Multicall, Permit2Approve, Execute
<1> QED
  BY <1>1 DEF Enabled, Approve

\* EIP-2 (sessionKeySigner.ts normalizeToLowS): whatever scalar the signer returns, the signature
\* sent has the low one and the recovery bit that belongs to it.
THEOREM NormalizedIsCanonical ==
    ASSUME NEW s \in Scalars
    PROVE  LET n == NormalizeToLowS(s, YParity[s])
           IN  n.s \in Scalars /\ n.s <= HalfN /\ n.recovery = YParity[n.s] /\ n.recovery \in {0, 1}
<1>0. CurveN \in Nat /\ CurveN % 2 = 1 /\ CurveN > 2 /\ s \in 1 .. CurveN - 1
  BY CurveAssumption DEF Scalars
<1>1. CASE s > HalfN
  <2>1. CurveN - s \in Scalars /\ CurveN - s <= HalfN
    BY <1>0, <1>1 DEF Scalars, HalfN
  <2>2. YParity[CurveN - s] = 1 - YParity[s] /\ YParity[CurveN - s] \in {0, 1}
    BY <2>1, CurveAssumption DEF Scalars
  <2> QED
    BY <1>1, <2>1, <2>2 DEF NormalizeToLowS
<1>2. CASE ~(s > HalfN)
  BY <1>0, <1>2, CurveAssumption DEF NormalizeToLowS, Scalars, HalfN
<1> QED
  BY <1>1, <1>2

\* A signature made by signDigestLowS verifies for its key and digest.
LEMMA SignedVerifies ==
    ASSUME NEW s \in Scalars, NEW key, NEW digest
    PROVE  Verifies(SignDigestLowS(key, digest, s), key, digest)
BY NormalizedIsCanonical DEF Verifies, SignDigestLowS

LEMMA SignedType ==
    ASSUME NEW s \in Scalars, NEW key \in Perms \union {Device},
           NEW digest \in [form: {"raw", "eip191"}, hash: [nonce: Nat, fields: SUBSET HashedFields]]
    PROVE  SignDigestLowS(key, digest, s) \in Signatures
BY NormalizedIsCanonical DEF SignDigestLowS, Signatures

\* No hashed field is lost between build and submit (userop.ts serializeOp).
LEMMA SerializedHash ==
    ASSUME NEW n PROVE OpHash(n, SerializeOp(PreparedFields)) = OpHash(n, PreparedFields)
BY DEF OpHash, SerializeOp, PreparedFields, HashedFields

LEMMA HashType ==
    ASSUME NEW n \in Nat PROVE OpHash(n, PreparedFields) \in [nonce: Nat, fields: SUBSET HashedFields]
BY DEF OpHash

LEMMA LaneType == Root \in Lanes /\ \A j \in Jobs : Lane(j) \in Lanes
BY DEF Lanes, Root, Lane, SmartSessionUseModeNonceKey

-----------------------------------------------------------------------------
(* The inductive invariant.                                                *)

\* What a build read still describes the account while the count has not moved.
BuildFacts ==
    \A b \in Builds :
        /\ build[b].phase \in {"prepared", "plain", "built"} => build[b].seen <= txCount
        /\ build[b].phase \in {"prepared", "plain"} => build[b].auth = {}
        /\ build[b].auth = {} \/ build[b].auth = {build[b].seen}
        /\ build[b].phase \in {"prepared", "plain", "built"} /\ build[b].auth = {} /\ build[b].seen = txCount
              => /\ delegate # "foreign"
                 /\ build[b].phase = "built" => delegate = "kernel"

\* A Keychain item holds the key of the session it is named after.
KeyFacts ==
    /\ \A p \in Perms : ~BackendKey(p) => p \in prepared
    /\ \A p \in Perms : BackendKey(p) => keychain[KeychainAccount(p)] \subseteq {p}

\* Every signature made is valid for its session's key and the op it was made for.
SignedFacts ==
    \A j \in Jobs :
        /\ job[j].phase \in {"idle", "prepared"} => job[j].sig = {}
        /\ \A sig \in job[j].sig :
              Verifies(sig, SessionKey(Job[j].perm), Raw(OpHash(job[j].nonce, PreparedFields)))

\* Draws stay within the cap that was enabled.
DrawFacts ==
    \A p \in Perms, t \in Tokens :
        drawn[p][t] > 0 => t \in DOMAIN SortLegs(Scope[p].legs) /\ drawn[p][t] <= CapOf(Scope[p], t)

IInv == TypeOK /\ BuildFacts /\ KeyFacts /\ SignedFacts /\ DrawFacts

LEMMA InitInv == Init => IInv
<1> SUFFICES ASSUME Init PROVE IInv
  OBVIOUS
<1> USE DEF Init
<1>1. TypeOK
  BY DEF TypeOK, IdleBuild, IdleJob
<1>2. BuildFacts
  BY DEF BuildFacts, IdleBuild
<1>3. KeyFacts
  BY DEF KeyFacts
<1>4. SignedFacts
  BY DEF SignedFacts, IdleJob
<1>5. DrawFacts
  BY DEF DrawFacts
<1> QED
  BY <1>1, <1>2, <1>3, <1>4, <1>5 DEF IInv

-----------------------------------------------------------------------------
(* One step keeps it.                                                      *)

LEMMA TypeStep ==
    ASSUME TypeOK, [Next]_vars
    PROVE  TypeOK'
<1> USE DEF TypeOK
<1>1. ASSUME NEW b \in Builds, BuildPrepares(b) PROVE TypeOK'
  BY <1>1, LaneType DEF BuildPrepares, BuildBecomes, chainVars
<1>2. ASSUME NEW b \in Builds, BuildReadsUpgraded(b) PROVE TypeOK'
  BY <1>2, ZenonT(60) DEF BuildReadsUpgraded, BuildBecomes, chainVars
<1>3. ASSUME NEW b \in Builds, BuildReadsPlain(b) PROVE TypeOK'
  BY <1>3, ZenonT(60) DEF BuildReadsPlain, BuildBecomes, chainVars
<1>4. ASSUME NEW b \in Builds, BuildReadsTxCount(b) PROVE TypeOK'
  BY <1>4, ZenonT(60) DEF BuildReadsTxCount, BuildBecomes, Authorization, chainVars
<1>5. ASSUME NEW b \in Builds, RootSubmitted(b) PROVE TypeOK'
  BY <1>5 DEF RootSubmitted, chainVars, serviceVars
<1>6. ASSUME NEW b \in Builds, RootConsumed(b), onchain' \in [Perms -> {"absent", "enabled", "removed"}]
      PROVE  TypeOK'
  <2>1. delegate' \in {"none", "kernel", "foreign"} /\ txCount' \in Nat
    BY <1>6 DEF RootConsumed
  <2>2. nonces' \in [Lanes -> Nat]
    BY <1>6, LaneType DEF RootConsumed
  <2>3. build' \in [Builds -> [phase: {"idle", "prepared", "plain", "built", "done"}, nonce: Nat, auth: SUBSET Nat, seen: Nat]]
    BY <1>6 DEF RootConsumed, IdleBuild
  <2> QED
    BY <1>6, <2>1, <2>2, <2>3 DEF RootConsumed
<1>7. ASSUME NEW b \in Builds, RootSucceeds(b) \/ RootReverts(b) PROVE TypeOK'
  <2>1. onchain' \in [Perms -> {"absent", "enabled", "removed"}]
    BY <1>7 DEF RootSucceeds, RootReverts
  <2> QED
    BY <1>6, <1>7, <2>1 DEF RootSucceeds, RootReverts
<1>8. ASSUME NEW p \in Perms, SessionPrepared(p) PROVE TypeOK'
  BY <1>8 DEF SessionPrepared, chainVars
<1>9. ASSUME NEW j \in Jobs, JobPrepares(j) PROVE TypeOK'
  BY <1>9, LaneType DEF JobPrepares, JobBecomes, chainVars
<1>10. ASSUME NEW j \in Jobs, JobSigns(j) PROVE TypeOK'
  <2>1. PICK key \in Signer(j), ss \in RawS :
          JobBecomes(j, [job[j] EXCEPT !.phase = "signed", !.sig = {SignDigestLowS(key, UseModeDigest(j), ss)}])
    BY <1>10 DEF JobSigns
  <2>2. key \in Perms \union {Device}
    BY AccountAssumption DEF Signer
  <2>3. UseModeDigest(j) \in [form: {"raw", "eip191"}, hash: [nonce: Nat, fields: SUBSET HashedFields]]
    BY HashType DEF UseModeDigest, Raw
  <2>4. SignDigestLowS(key, UseModeDigest(j), ss) \in Signatures
    BY <2>2, <2>3, SignedType, AccountAssumption
  <2>5. job' \in [Jobs -> [phase: {"idle", "prepared", "signed", "sent", "done"}, nonce: Nat, sig: SUBSET Signatures]]
    BY <2>1, <2>4, ZenonT(60) DEF JobBecomes
  <2> QED
    BY <1>10, <2>1, <2>5 DEF JobSigns, JobBecomes, chainVars
<1>11. ASSUME NEW j \in Jobs, JobThrows(j) \/ JobRefused(j) PROVE TypeOK'
  <2>1. JobBecomes(j, [IdleJob EXCEPT !.phase = "done"]) /\ UNCHANGED pool
    BY <1>11 DEF JobThrows, JobRefused
  <2>2. job' \in [Jobs -> [phase: {"idle", "prepared", "signed", "sent", "done"}, nonce: Nat, sig: SUBSET Signatures]]
    BY <2>1 DEF JobBecomes, IdleJob
  <2> QED
    BY <2>1, <2>2 DEF JobBecomes, chainVars
<1>12. ASSUME NEW j \in Jobs, JobSubmitted(j) PROVE TypeOK'
  BY <1>12 DEF JobSubmitted, JobBecomes, chainVars
<1>13. ASSUME NEW j \in Jobs, NEW counted \in BOOLEAN, SessionOpIncluded(j, counted) PROVE TypeOK'
  <2>1. nonces' \in [Lanes -> Nat]
    BY <1>13, LaneType DEF SessionOpIncluded
  <2>2. drawn' \in [Perms -> [Tokens -> Nat]]
    BY <1>13, AccountAssumption DEF SessionOpIncluded
  <2>3. job' \in [Jobs -> [phase: {"idle", "prepared", "signed", "sent", "done"}, nonce: Nat, sig: SUBSET Signatures]]
    BY <1>13 DEF SessionOpIncluded, IdleJob
  <2> QED
    BY <1>13, <2>1, <2>2, <2>3 DEF SessionOpIncluded
<1>14. ASSUME NEW d \in {"none", "kernel", "foreign"}, OwnerTransacts(d) PROVE TypeOK'
  BY <1>14 DEF OwnerTransacts, serviceVars
<1>15. ASSUME NEW op \in pool, OpDropped(op) PROVE TypeOK'
  BY <1>15 DEF OpDropped, chainVars, serviceVars
<1>16. CASE UNCHANGED vars
  BY <1>16 DEF vars, chainVars, serviceVars
<1> QED
  BY <1>1, <1>2, <1>3, <1>4, <1>5, <1>7, <1>8, <1>9, <1>10, <1>11, <1>12, <1>13, <1>14, <1>15, <1>16
     DEF Next, RootStep, SessionStep, OutsideStep

\* What a step that neither reads for a build nor transacts on the address leaves alone.
LEMMA BuildFactsFramed ==
    ASSUME BuildFacts, UNCHANGED <<build, txCount, delegate>>
    PROVE  BuildFacts'
BY DEF BuildFacts

LEMMA BuildFactsStep ==
    ASSUME TypeOK, BuildFacts, [Next]_vars
    PROVE  BuildFacts'
<1> USE DEF TypeOK
<1>1. ASSUME NEW b \in Builds, BuildPrepares(b) PROVE BuildFacts'
  BY <1>1 DEF BuildFacts, BuildPrepares, BuildBecomes, chainVars
<1>2. ASSUME NEW b \in Builds, BuildReadsUpgraded(b) PROVE BuildFacts'
  BY <1>2 DEF BuildFacts, BuildReadsUpgraded, BuildBecomes, chainVars
<1>3. ASSUME NEW b \in Builds, BuildReadsPlain(b) PROVE BuildFacts'
  BY <1>3 DEF BuildFacts, BuildReadsPlain, BuildBecomes, chainVars
<1>4. ASSUME NEW b \in Builds, BuildReadsTxCount(b) PROVE BuildFacts'
  <2>1. /\ build'[b].phase = "built" /\ build'[b].auth = {txCount} /\ build'[b].seen = txCount
        /\ \A c \in Builds : c # b => build'[c] = build[c]
        /\ UNCHANGED <<txCount, delegate>>
    BY <1>4 DEF BuildReadsTxCount, BuildBecomes, Authorization, chainVars
  <2>2. txCount <= txCount /\ {txCount} # {}
    OBVIOUS
  <2> HIDE DEF TypeOK
  <2> QED
    BY <2>1, <2>2 DEF BuildFacts
<1>5. ASSUME NEW b \in Builds, RootSucceeds(b) \/ RootReverts(b) PROVE BuildFacts'
  <2>1. RootConsumed(b)
    BY <1>5 DEF RootSucceeds, RootReverts
  <2>2. build' = [build EXCEPT ![b] = [IdleBuild EXCEPT !.phase = "done"]]
    BY <2>1 DEF RootConsumed
  <2>3. CASE AuthApplies(b)
    BY <2>1, <2>2, <2>3 DEF BuildFacts, RootConsumed, IdleBuild
  <2>4. CASE ~AuthApplies(b)
    BY <2>1, <2>2, <2>4 DEF BuildFacts, RootConsumed, IdleBuild
  <2> QED
    BY <2>3, <2>4
<1>6. ASSUME NEW d \in {"none", "kernel", "foreign"}, OwnerTransacts(d) PROVE BuildFacts'
  BY <1>6 DEF BuildFacts, OwnerTransacts, serviceVars
<1>7. ASSUME NEW b \in Builds, RootSubmitted(b) PROVE BuildFacts'
  BY <1>7, BuildFactsFramed DEF RootSubmitted, chainVars, serviceVars
<1>8. CASE SessionStep
  BY <1>8, BuildFactsFramed
     DEF SessionStep, SessionPrepared, JobPrepares, JobSigns, JobThrows, JobSubmitted, JobRefused, JobBecomes,
         SessionOpIncluded, chainVars
<1>9. ASSUME NEW op \in pool, OpDropped(op) PROVE BuildFacts'
  BY <1>9, BuildFactsFramed DEF OpDropped, chainVars, serviceVars
<1>10. CASE UNCHANGED vars
  BY <1>10, BuildFactsFramed DEF vars, chainVars, serviceVars
<1> QED
  BY <1>1, <1>2, <1>3, <1>4, <1>5, <1>6, <1>7, <1>8, <1>9, <1>10 DEF Next, RootStep, OutsideStep

LEMMA KeyFactsStep ==
    ASSUME TypeOK, KeyFacts, [Next]_vars
    PROVE  KeyFacts'
<1>1. ASSUME NEW p \in Perms, SessionPrepared(p) PROVE KeyFacts'
  <2>1. BackendKey(p)
    BY <1>1 DEF KeyFacts, SessionPrepared
  <2>2. \A q \in Perms : BackendKey(q) /\ q # p => KeychainAccount(q) # KeychainAccount(p)
    BY <2>1, AccountAssumption DEF KeychainAccount
  <2>3. ASSUME NEW q \in Perms, BackendKey(q) PROVE keychain'[KeychainAccount(q)] \subseteq {q}
    <3>1. CASE q = p
      BY <1>1, <3>1 DEF SessionPrepared, TypeOK
    <3>2. CASE q # p
      BY <1>1, <2>2, <2>3, <3>2 DEF SessionPrepared, TypeOK, KeyFacts
    <3> QED
      BY <3>1, <3>2
  <2>4. \A q \in Perms : ~BackendKey(q) => q \in prepared'
    BY <1>1 DEF KeyFacts, SessionPrepared
  <2> QED
    BY <2>3, <2>4 DEF KeyFacts
<1>2. CASE UNCHANGED <<prepared, keychain>>
  BY <1>2 DEF KeyFacts
<1>3. (\E p \in Perms : SessionPrepared(p)) \/ UNCHANGED <<prepared, keychain>>
  <2>1. CASE RootStep
    BY <2>1 DEF RootStep, BuildPrepares, BuildReadsUpgraded, BuildReadsPlain, BuildReadsTxCount, BuildBecomes,
                RootSubmitted, RootSucceeds, RootReverts, RootConsumed, serviceVars
  <2>2. CASE SessionStep
    BY <2>2 DEF SessionStep, JobPrepares, JobSigns, JobThrows, JobSubmitted, JobRefused, JobBecomes, SessionOpIncluded
  <2>3. CASE OutsideStep
    BY <2>3 DEF OutsideStep, OwnerTransacts, OpDropped, serviceVars
  <2>4. CASE UNCHANGED vars
    BY <2>4 DEF vars, serviceVars
  <2> QED
    BY <2>1, <2>2, <2>3, <2>4 DEF Next
<1> QED
  BY <1>1, <1>2, <1>3

LEMMA SignedFactsStep ==
    ASSUME TypeOK, KeyFacts, SignedFacts, [Next]_vars
    PROVE  SignedFacts'
<1> USE DEF TypeOK
<1>1. ASSUME NEW j \in Jobs, JobPrepares(j) PROVE SignedFacts'
  BY <1>1 DEF SignedFacts, JobPrepares, JobBecomes
<1>2. ASSUME NEW j \in Jobs, JobSigns(j) PROVE SignedFacts'
  <2>1. PICK key \in Signer(j), ss \in RawS :
          JobBecomes(j, [job[j] EXCEPT !.phase = "signed", !.sig = {SignDigestLowS(key, UseModeDigest(j), ss)}])
    BY <1>2 DEF JobSigns
  <2>2. key = SessionKey(Job[j].perm)
    BY AccountAssumption DEF Signer, SessionKey, KeyFacts
  <2>3. Verifies(SignDigestLowS(key, UseModeDigest(j), ss), SessionKey(Job[j].perm),
                 Raw(OpHash(job[j].nonce, PreparedFields)))
    BY <2>2, SignedVerifies, AccountAssumption DEF UseModeDigest
  <2>4. /\ job'[j].phase = "signed" /\ job'[j].nonce = job[j].nonce
        /\ job'[j].sig = {SignDigestLowS(key, UseModeDigest(j), ss)}
        /\ \A i \in Jobs : i # j => job'[i] = job[i]
    BY <2>1 DEF JobBecomes
  <2> QED
    BY <2>3, <2>4 DEF SignedFacts
<1>3. ASSUME NEW j \in Jobs, JobThrows(j) \/ JobRefused(j) PROVE SignedFacts'
  BY <1>3, SMTT(30) DEF SignedFacts, JobThrows, JobRefused, JobBecomes, IdleJob
<1>4. ASSUME NEW j \in Jobs, JobSubmitted(j) PROVE SignedFacts'
  BY <1>4 DEF SignedFacts, JobSubmitted, JobBecomes
<1>5. ASSUME NEW j \in Jobs, NEW counted \in BOOLEAN, SessionOpIncluded(j, counted) PROVE SignedFacts'
  BY <1>5 DEF SignedFacts, SessionOpIncluded, IdleJob
<1>6. CASE UNCHANGED job
  BY <1>6 DEF SignedFacts
<1>7. ASSUME NEW p \in Perms, SessionPrepared(p) PROVE UNCHANGED job
  BY <1>7 DEF SessionPrepared
<1>8. CASE RootStep
  BY <1>6, <1>8 DEF RootStep, BuildPrepares, BuildReadsUpgraded, BuildReadsPlain, BuildReadsTxCount, BuildBecomes,
                    RootSubmitted, RootSucceeds, RootReverts, RootConsumed, serviceVars
<1>9. CASE OutsideStep
  BY <1>6, <1>9 DEF OutsideStep, OwnerTransacts, OpDropped, serviceVars
<1>10. CASE UNCHANGED vars
  BY <1>6, <1>10 DEF vars, serviceVars
<1> QED
  BY <1>1, <1>2, <1>3, <1>4, <1>5, <1>6, <1>7, <1>8, <1>9, <1>10 DEF Next, SessionStep

LEMMA DrawFactsStep ==
    ASSUME TypeOK, DrawFacts, [Next]_vars
    PROVE  DrawFacts'
<1>1. ASSUME NEW j \in Jobs, SessionOpIncluded(j, TRUE) PROVE DrawFacts'
  <2> DEFINE p == Job[j].perm
             t == Job[j].token
  <2>1. p \in Perms /\ t \in Tokens /\ Job[j].amount \in Nat
    BY AccountAssumption
  <2>2. drawn' = [drawn EXCEPT ![p][t] = @ + Job[j].amount] /\ PolicyAllows(Scope[p], t, Job[j].amount, drawn[p][t])
    BY <1>1 DEF SessionOpIncluded, SessionValid
  <2>3. t \in DOMAIN SortLegs(Scope[p].legs)
    BY <2>1, <2>2, ApprovesAreListed DEF PolicyAllows, CallsOf
  <2>4. drawn'[p][t] <= CapOf(Scope[p], t)
    BY <2>1, <2>2 DEF PolicyAllows, TypeOK
  <2>5. \A q \in Perms, u \in Tokens : q # p \/ u # t => drawn'[q][u] = drawn[q][u]
    BY <2>1, <2>2 DEF TypeOK
  <2> QED
    BY <2>3, <2>4, <2>5 DEF DrawFacts
<1>2. CASE UNCHANGED drawn
  BY <1>2 DEF DrawFacts
<1>3. (\E j \in Jobs : SessionOpIncluded(j, TRUE)) \/ UNCHANGED drawn
  <2>1. CASE RootStep
    BY <2>1 DEF RootStep, BuildPrepares, BuildReadsUpgraded, BuildReadsPlain, BuildReadsTxCount, BuildBecomes,
                RootSubmitted, RootSucceeds, RootReverts, RootConsumed, chainVars
  <2>2. CASE SessionStep
    BY <2>2 DEF SessionStep, SessionPrepared, JobPrepares, JobSigns, JobThrows, JobSubmitted, JobRefused, JobBecomes,
                SessionOpIncluded, chainVars
  <2>3. CASE OutsideStep
    BY <2>3 DEF OutsideStep, OwnerTransacts, OpDropped, chainVars
  <2>4. CASE UNCHANGED vars
    BY <2>4 DEF vars, chainVars
  <2> QED
    BY <2>1, <2>2, <2>3, <2>4 DEF Next
<1> QED
  BY <1>1, <1>2, <1>3

LEMMA Invariance == Spec => []IInv
<1>1. IInv /\ [Next]_vars => IInv'
  BY TypeStep, BuildFactsStep, KeyFactsStep, SignedFactsStep, DrawFactsStep DEF IInv
<1> QED
  BY InitInv, <1>1, PTL DEF Spec

-----------------------------------------------------------------------------
(* What follows.                                                           *)

\* Every variable keeps its type under every step of the service, the chain and the owner.
THEOREM TypeCorrect == Spec => []TypeOK
<1>1. IInv => TypeOK
  BY DEF IInv
<1> QED
  BY Invariance, <1>1, PTL

\* "The returned userOp is final" (userop.ts buildUserOp): a built op is accepted unless its nonce
\* was used or the address transacted since the reads it depends on, for any number of requests.
THEOREM RootOpsAccepted == Spec => []FreshRootOpAccepted
<1>1. ASSUME IInv, NEW b \in Builds, Fresh(b) PROVE RootValid(b)
  <2>1. delegate = "kernel" \/ AuthApplies(b)
    BY <1>1 DEF IInv, BuildFacts, Fresh, AuthApplies
  <2>2. 1 \in Scalars /\ 1 <= HalfN
    BY CurveAssumption DEF Scalars, HalfN
  <2>3. Verifies(RootSignature(b), Device, DigestToSign(OpHash(build[b].nonce, SerializeOp(PreparedFields))))
    BY <2>2, SerializedHash DEF Verifies, RootSignature, RootDigest
  <2> QED
    BY <1>1, <2>1, <2>3 DEF RootValid, Fresh
<1>2. IInv => FreshRootOpAccepted
  BY <1>1 DEF FreshRootOpAccepted
<1> QED
  BY Invariance, <1>2, PTL

\* The USE-mode lock (copySession.ts submitUseModeOp, dcaBuild.ts): a signed session op is accepted
\* unless its lane's nonce was taken, the account or session changed, or the cap is used up, for
\* any set of sessions, caps, lanes and signer outputs.
THEOREM SessionOpsAccepted == Spec => []FreshSessionOpAccepted
<1>1. ASSUME IInv, NEW j \in Jobs, FreshUse(j) PROVE SessionValid(j)
  <2> DEFINE p == Job[j].perm
             t == Job[j].token
             legs == Scope[p].legs
  <2>1. p \in Perms /\ t \in Tokens /\ Len(legs) \in Nat
    BY AccountAssumption
  <2>2. PICK i \in Lists(legs, t) :
          (\A k \in Lists(legs, t) : k <= i) /\ drawn[p][t] + Job[j].amount <= legs[i].cap
    BY <1>1 DEF FreshUse, GrantedLast
  <2>3. t \in DOMAIN SortLegs(legs)
    BY <2>2 DEF Lists, SortLegs
  <2>4. PICK k \in Lists(legs, t) : SortLegs(legs)[t] = legs[k].cap /\ \A n \in Lists(legs, t) : n <= k
    BY <2>1, <2>3, SortLegsKeepsLast
  <2> HIDE DEF p, t, legs
  <2>5. i <= k /\ k <= i /\ i \in Int /\ k \in Int
    <3>1. i <= k /\ k <= i
      BY <2>2, <2>4
    <3> QED
      BY <2>1, <3>1 DEF Lists
  <2> USE DEF p, t, legs
  <2>6. i = k
    BY <2>5
  <2>7. PolicyAllows(Scope[p], t, Job[j].amount, drawn[p][t])
    <3>1. CapOf(Scope[p], t) = legs[i].cap
      BY <2>4, <2>6 DEF CapOf
    <3>2. CallsOf(Scope[p].kind, t) \subseteq Enabled(Scope[p])
      BY <2>3 DEF CallsOf, Enabled, SharedActions
    <3> QED
      BY <2>2, <3>1, <3>2 DEF PolicyAllows
  <2>8. \A sig \in job[j].sig : Verifies(sig, SessionKey(p), Raw(OpHash(job[j].nonce, SentFields(j))))
    BY <1>1, SerializedHash DEF IInv, SignedFacts, SentFields
  <2>9. Lane(j)[1] = "smartSessions"
    BY DEF Lane, SmartSessionUseModeNonceKey
  <2> QED
    BY <1>1, <2>7, <2>8, <2>9 DEF SessionValid, FreshUse
<1>2. IInv => FreshSessionOpAccepted
  BY <1>1 DEF FreshSessionOpAccepted
<1> QED
  BY Invariance, <1>2, PTL

\* "the engine can never pull more than the user granted per token" (strategySession.ts sortLegs,
\* buildStrategySession): draws stay within a cap that was listed for the token.
THEOREM DrawsBounded == Spec => []SpendBounded
<1>1. ASSUME IInv, NEW p \in Perms, NEW t \in Tokens, drawn[p][t] > 0
      PROVE  \E i \in Lists(Scope[p].legs, t) : drawn[p][t] <= Scope[p].legs[i].cap
  <2>1. t \in DOMAIN SortLegs(Scope[p].legs) /\ drawn[p][t] <= SortLegs(Scope[p].legs)[t]
    BY <1>1 DEF IInv, DrawFacts, CapOf
  <2>2. Len(Scope[p].legs) \in Nat
    BY AccountAssumption
  <2> QED
    BY <2>1, <2>2, SortLegsKeepsLast
<1>2. IInv => SpendBounded
  BY <1>1 DEF SpendBounded
<1> QED
  BY Invariance, <1>2, PTL
=============================================================================
