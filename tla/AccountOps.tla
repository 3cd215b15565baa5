----------------------------- MODULE AccountOps -----------------------------
(***************************************************************************)
(* Every way in which aa-trigger turns a request into a user operation of  *)
(* one account, against the EntryPoint, the Kernel account and the         *)
(* SmartSessions validator:                                                *)
(*   - root ops: POST /v1/userop/build, .../revoke/build and the submits,  *)
(*     signed by the owner's device, with the EIP-7702 authorization of    *)
(*     the first op (userop.ts);                                           *)
(*   - session ops: copy mirrors and rebalance legs, signed with a key in  *)
(*     the Keychain (mirror.ts submitUseModeOp, strategyRebalance.ts), and *)
(*     DCA buys, signed by the device (dcaBuild.ts).                       *)
(* The reads of a build are separate steps: the chain, the owner's own     *)
(* transactions and the other requests move in between.                    *)
(*                                                                         *)
(* Call[b] is what build b does, [do |-> "enable" | "remove", perm]; any   *)
(* other call acts on this state as one that reverts.  Job[j] is the       *)
(* session op j: [perm, token, amount, tokenOut, minOut, nonceKey].        *)
(***************************************************************************)
EXTENDS Signing, SessionScope

CONSTANTS
    Builds, Call,       \* requests for root ops
    Jobs, Job,          \* requests for session ops
    Perms, Scope,       \* sessions
    BootEnabled,        \* sessions enabled on-chain at the start
    TokenOutAllowlist,  \* tokens a rebalance may buy
    Testnet,            \* TRUE on the chain without a slippage floor
    RawS,               \* raw scalars a signer may return
    MaxTxs,             \* bound on the owner's own transactions
    Device              \* the owner's key

VARIABLES
    delegate,   \* what the owner's address runs: nothing, Kernel or another implementation
    txCount,    \* transaction count of the address
    nonces,     \* EntryPoint: validator lane -> next nonce
    onchain,    \* session -> its state in the SmartSessions module
    drawn,      \* SpendingLimits: session -> token -> cumulative amount
    pool,       \* builds and jobs whose op the bundler holds
    build,      \* root op requests
    job,        \* session op requests
    prepared,   \* sessions the service has recorded
    keychain    \* Keychain item -> the stored key (none or one)

chainVars == <<delegate, txCount, nonces, onchain, drawn>>
serviceVars == <<build, job, prepared, keychain>>
vars == <<chainVars, pool, serviceVars>>

Root == <<"root", 0>>

\* vtype 0x01 and the SmartSessions address, then the lane.
SmartSessionUseModeNonceKey(nonceKey) == <<"smartSessions", nonceKey>>

Lanes == {Root} \union {SmartSessionUseModeNonceKey(Job[j].nonceKey) : j \in Jobs}

\* copy-<follower>-<salt> or strategy-<follower>-<salt>; the account is the only follower here.
KeychainAccount(p) == <<Scope[p].kind, Scope[p].salt>>

BackendKey(p) == Scope[p].kind # "dca"
SessionKey(p) == IF BackendKey(p) THEN p ELSE Device

ASSUME AccountAssumption ==
    /\ \A b \in Builds : Call[b].do \in {"enable", "remove"} /\ Call[b].perm \in Perms
    /\ \A j \in Jobs : Job[j].perm \in Perms /\ Job[j].token \in Tokens /\ Job[j].amount \in Nat
    /\ \A p \in Perms : Scope[p].legs \in Seq([token: Tokens, cap: Nat])
    /\ \A p, q \in Perms : BackendKey(p) /\ BackendKey(q) /\ p # q => Scope[p].salt # Scope[q].salt
    /\ \A j \in Jobs : Job[j].nonceKey \in Nat /\ Job[j].minOut \in Nat
    /\ RawS \subseteq Scalars
    /\ Device \notin Perms
    /\ \A p \in BootEnabled : ~BackendKey(p)
    /\ Builds \intersect Jobs = {}
    /\ MaxTxs \in Nat

IdleBuild == [phase |-> "idle", nonce |-> 0, auth |-> {}, seen |-> 0]
IdleJob == [phase |-> "idle", nonce |-> 0, sig |-> {}]

Init ==
    /\ delegate \in {"none", "kernel", "foreign"}
    /\ txCount = 0
    /\ nonces = [l \in Lanes |-> 0]
    /\ onchain = [p \in Perms |-> IF p \in BootEnabled THEN "enabled" ELSE "absent"]
    /\ drawn = [p \in Perms |-> [t \in Tokens |-> 0]]
    /\ pool = {}
    /\ build = [b \in Builds |-> IdleBuild]
    /\ job = [j \in Jobs |-> IdleJob]
    /\ prepared = {p \in Perms : ~BackendKey(p)}
    /\ keychain = [a \in {KeychainAccount(p) : p \in Perms} |-> {}]

-----------------------------------------------------------------------------
(* Root ops: buildUserOp, the device, submitUserOp.                        *)

BuildBecomes(b, s) == build' = [build EXCEPT ![b] = s] /\ UNCHANGED <<chainVars, pool, job, prepared, keychain>>

\* kernelAccount and prepareUserOperation, for any calls, whatever sessions the service has: the
\* nonce is read and the op estimated as if the address ran Kernel, which fails on another
\* implementation.  seen is history: the count at the last read the op depends on.
BuildPrepares(b) ==
    /\ build[b].phase = "idle"
    /\ delegate # "foreign"
    /\ BuildBecomes(b, [phase |-> "prepared", nonce |-> nonces[Root], auth |-> {}, seen |-> txCount])

\* getCode: any delegation designator counts as upgraded, and the answer goes out at once.
BuildReadsUpgraded(b) ==
    /\ build[b].phase = "prepared"
    /\ delegate # "none"
    /\ BuildBecomes(b, [build[b] EXCEPT !.phase = "built"])

BuildReadsPlain(b) ==
    /\ build[b].phase = "prepared"
    /\ delegate = "none"
    /\ BuildBecomes(b, [build[b] EXCEPT !.phase = "plain"])

\* An authorization for the transaction after the next one.
AuthorizationSkipsOne(n) == {n + 1}
Authorization(n) == {n}

\* getTransactionCount, the nonce of the authorization the device has to sign.
BuildReadsTxCount(b) ==
    /\ build[b].phase = "plain"
    /\ BuildBecomes(b, [build[b] EXCEPT !.phase = "built", !.auth = Authorization(txCount), !.seen = txCount])

\* Kernel's root validator recovers over the EIP-191 form of the hash.
RootDigest(b) == DigestToSign(OpHash(build[b].nonce, PreparedFields))

\* The device signs the digest it was given; its wallet library emits low scalars.
RootSignature(b) == [key |-> Device, digest |-> RootDigest(b), s |-> 1, recovery |-> YParity[1]]

AuthApplies(b) == txCount \in build[b].auth

\* The EntryPoint and Kernel's root validator.
RootValid(b) ==
    /\ build[b].nonce = nonces[Root]
    /\ delegate = "kernel" \/ AuthApplies(b)
    /\ Verifies(RootSignature(b), Device, DigestToSign(OpHash(build[b].nonce, SerializeOp(PreparedFields))))

\* The op goes out verbatim, as often as the app posts it; the bundler takes it when it simulates.
RootSubmitted(b) ==
    /\ build[b].phase = "built"
    /\ b \notin pool
    /\ RootValid(b)
    /\ pool' = pool \union {b}
    /\ UNCHANGED <<chainVars, serviceVars>>

\* Inclusion applies the authorization and consumes the nonce, whether or not the call succeeds;
\* a second copy of the op has a used nonce, so its request is done.
RootConsumed(b) ==
    /\ b \in pool \intersect Builds
    /\ RootValid(b)
    /\ pool' = pool \ {b}
    /\ nonces' = [nonces EXCEPT ![Root] = @ + 1]
    /\ IF AuthApplies(b)
       THEN delegate' = "kernel" /\ txCount' = txCount + 1
       ELSE UNCHANGED <<delegate, txCount>>
    /\ build' = [build EXCEPT ![b] = [IdleBuild EXCEPT !.phase = "done"]]
    /\ UNCHANGED <<drawn, job, prepared, keychain>>

\* A call about a session that is not there reverts: a permissionId comes from its prepare.
RootSucceeds(b) ==
    LET p == Call[b].perm
    IN  /\ RootConsumed(b)
        /\ p \in prepared
        /\ \/ Call[b].do = "enable" /\ onchain[p] = "absent" /\ onchain' = [onchain EXCEPT ![p] = "enabled"]
           \/ Call[b].do = "remove" /\ onchain[p] = "enabled" /\ onchain' = [onchain EXCEPT ![p] = "removed"]

RootReverts(b) == RootConsumed(b) /\ UNCHANGED onchain

-----------------------------------------------------------------------------
(* Sessions and their keys.                                                *)

\* provision: a fresh key, stored over whatever the item held (-U); the session is recorded.
SessionPrepared(p) ==
    /\ p \notin prepared
    /\ prepared' = prepared \union {p}
    /\ keychain' = [keychain EXCEPT ![KeychainAccount(p)] = {p}]
    /\ UNCHANGED <<chainVars, pool, build, job>>

-----------------------------------------------------------------------------
(* Session ops: submitUseModeOp, buildDcaBuy and submitDcaBuy.             *)

JobBecomes(j, s) == job' = [job EXCEPT ![j] = s] /\ UNCHANGED <<chainVars, build, prepared, keychain>>
Lane(j) == SmartSessionUseModeNonceKey(Job[j].nonceKey)

\* assertRebalanceGuardrails: a curated token to buy, and a slippage floor except on the testnet.
PassesGuardrails(j) ==
    Scope[Job[j].perm].kind = "strategy" =>
        /\ Job[j].tokenOut \in TokenOutAllowlist
        /\ Testnet \/ Job[j].minOut > 0

\* The calls are built (amountIn > 0), the lane's nonce is read and the op prepared around it.
JobPrepares(j) ==
    /\ job[j].phase = "idle"
    /\ Job[j].perm \in prepared
    /\ PassesGuardrails(j)
    /\ Job[j].amount > 0
    /\ JobBecomes(j, [job[j] EXCEPT !.phase = "prepared", !.nonce = nonces[Lane(j)]])
    /\ UNCHANGED pool

\* The session validator recovers over the hash itself.
UseModeDigest(j) == Raw(OpHash(job[j].nonce, PreparedFields))

\* The Keychain item's key, or the device for a DCA buy.
Signer(j) == IF BackendKey(Job[j].perm) THEN keychain[KeychainAccount(Job[j].perm)] ELSE {Device}

\* buildUseModeUserOpSignature; security exits with an error when the item is
\* missing or the Keychain is locked, and sign throws.
JobSigns(j) ==
    /\ job[j].phase = "prepared"
    /\ \E key \in Signer(j), s \in RawS :
          JobBecomes(j, [job[j] EXCEPT !.phase = "signed", !.sig = {SignDigestLowS(key, UseModeDigest(j), s)}])
    /\ UNCHANGED pool

JobThrows(j) ==
    /\ job[j].phase = "prepared"
    /\ BackendKey(Job[j].perm)
    /\ JobBecomes(j, [IdleJob EXCEPT !.phase = "done"])
    /\ UNCHANGED pool

\* A mirror or a leg is sent as prepared; a DCA buy goes to the app and comes back.
SentFields(j) == IF BackendKey(Job[j].perm) THEN PreparedFields ELSE SerializeOp(PreparedFields)

\* The EntryPoint, Kernel's routing by the lane, the OwnableValidator and the policies.
SessionValid(j) ==
    LET p == Job[j].perm
    IN  /\ delegate = "kernel"
        /\ Lane(j)[1] = "smartSessions"
        /\ job[j].nonce = nonces[Lane(j)]
        /\ onchain[p] = "enabled"
        /\ \A sig \in job[j].sig : Verifies(sig, SessionKey(p), Raw(OpHash(job[j].nonce, SentFields(j))))
        /\ PolicyAllows(Scope[p], Job[j].token, Job[j].amount, drawn[p][Job[j].token])

JobSubmitted(j) ==
    /\ job[j].phase = "signed"
    /\ SessionValid(j)
    /\ JobBecomes(j, [job[j] EXCEPT !.phase = "sent"])
    /\ pool' = pool \union {j}

JobRefused(j) ==
    /\ job[j].phase = "signed"
    /\ ~SessionValid(j)
    /\ JobBecomes(j, [IdleJob EXCEPT !.phase = "done"])
    /\ UNCHANGED pool

\* The policy counts the approval in the validation phase; a revert of the swap may leave it counted.
SessionOpIncluded(j, counted) ==
    /\ j \in pool \intersect Jobs
    /\ SessionValid(j)
    /\ pool' = pool \ {j}
    /\ nonces' = [nonces EXCEPT ![Lane(j)] = @ + 1]
    /\ drawn' = IF counted THEN [drawn EXCEPT ![Job[j].perm][Job[j].token] = @ + Job[j].amount] ELSE drawn
    /\ job' = [job EXCEPT ![j] = [IdleJob EXCEPT !.phase = "done"]]
    /\ UNCHANGED <<delegate, txCount, onchain, build, prepared, keychain>>

-----------------------------------------------------------------------------
(* The owner's own transactions and the bundler.                           *)

OwnerTransacts(d) ==
    /\ txCount < MaxTxs
    /\ txCount' = txCount + 1
    /\ delegate' = d
    /\ UNCHANGED <<nonces, onchain, drawn, pool, serviceVars>>

\* An op that is replaced, evicted or no longer valid.
OpDropped(op) ==
    /\ op \in pool
    /\ pool' = pool \ {op}
    /\ UNCHANGED <<chainVars, serviceVars>>

RootStep ==
    \E b \in Builds :
        \/ BuildPrepares(b) \/ BuildReadsUpgraded(b) \/ BuildReadsPlain(b) \/ BuildReadsTxCount(b)
        \/ RootSubmitted(b) \/ RootSucceeds(b) \/ RootReverts(b)

SessionStep ==
    \/ \E p \in Perms : SessionPrepared(p)
    \/ \E j \in Jobs :
          \/ JobPrepares(j) \/ JobSigns(j) \/ JobThrows(j) \/ JobSubmitted(j) \/ JobRefused(j)
          \/ \E counted \in BOOLEAN : SessionOpIncluded(j, counted)

OutsideStep ==
    \/ \E d \in {"none", "kernel", "foreign"} : OwnerTransacts(d)
    \/ \E op \in pool : OpDropped(op)

Next == RootStep \/ SessionStep \/ OutsideStep

Spec == Init /\ [][Next]_vars

-----------------------------------------------------------------------------
(* Properties.                                                             *)

Signatures == [key: Perms \union {Device}, s: Scalars, recovery: {0, 1},
               digest: [form: {"raw", "eip191"}, hash: [nonce: Nat, fields: SUBSET HashedFields]]]

\* Every variable keeps its type; a job's signature and an authorization are optional values.
TypeOK ==
    /\ delegate \in {"none", "kernel", "foreign"}
    /\ txCount \in Nat
    /\ nonces \in [Lanes -> Nat]
    /\ onchain \in [Perms -> {"absent", "enabled", "removed"}]
    /\ drawn \in [Perms -> [Tokens -> Nat]]
    /\ pool \subseteq Builds \union Jobs
    /\ build \in [Builds -> [phase: {"idle", "prepared", "plain", "built", "done"}, nonce: Nat, auth: SUBSET Nat, seen: Nat]]
    /\ job \in [Jobs -> [phase: {"idle", "prepared", "signed", "sent", "done"}, nonce: Nat, sig: SUBSET Signatures]]
    /\ prepared \subseteq Perms
    /\ keychain \in [{KeychainAccount(p) : p \in Perms} -> SUBSET Perms]

\* "The returned userOp is final" (userop.ts buildUserOp): an op that was built is accepted when
\* posted, first op or not, unless its nonce was used or the address transacted in between: after
\* the op was prepared, or after the count was read for its authorization.
Fresh(b) == build[b].phase = "built" /\ build[b].nonce = nonces[Root] /\ build[b].seen = txCount

FreshRootOpAccepted == \A b \in Builds : Fresh(b) => RootValid(b)

\* What the user granted for a token: the cap listed last.
GrantedLast(p, t) ==
    {Scope[p].legs[i].cap : i \in {i \in Lists(Scope[p].legs, t) : \A k \in Lists(Scope[p].legs, t) : k <= i}}

\* The USE-mode lock (copySession.ts, dcaBuild.ts): a signed session op is accepted unless its
\* lane's nonce was taken, the account or the session changed, or its token's cap is used up.
FreshUse(j) ==
    /\ job[j].phase = "signed"
    /\ job[j].nonce = nonces[Lane(j)]
    /\ delegate = "kernel"
    /\ onchain[Job[j].perm] = "enabled"
    /\ \E cap \in GrantedLast(Job[j].perm, Job[j].token) :
          drawn[Job[j].perm][Job[j].token] + Job[j].amount <= cap

FreshSessionOpAccepted == \A j \in Jobs : FreshUse(j) => SessionValid(j)

\* "the engine can never pull more than the user granted per token" (strategySession.ts): what a
\* session draws never exceeds the largest cap the user listed for the token.
SpendBounded ==
    \A p \in Perms, t \in Tokens :
        drawn[p][t] > 0 => \E i \in Lists(Scope[p].legs, t) : drawn[p][t] <= Scope[p].legs[i].cap
=============================================================================
