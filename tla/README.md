# Verification project for cyppie-backend

TLA+ models, TLC runs and TLAPS proofs for the parts of this repository that keep state
while several things happen at once: the copy-trading service, the recurring-buy (DCA)
handshake, the strategy sessions, the user operations of an account, and sign-in with the
schema and the profiles behind it. Paths below are relative to the repository; line
numbers refer to the files as they are in it.

Run a model with `tlc -config X.cfg M`, where `PROJECT.json` ("runs") names `M` for each
`X.cfg`, and check the proofs with `tlapm` on `Weighing.tla` and the modules whose names end in
`Proofs`.

## 1. The system

Three services and the outside world.

| part | code | state | operations |
|---|---|---|---|
| copy registry | `aa-trigger/src/copySession.ts` | `records` (Map + `copy-sessions.json`), `inflight`, `nonceCounters` (memory only) | prepare, grant, setPaused, revoke, reserve, commit/release, nextNonceKey |
| copy service | `aa-trigger/src/server.ts`, `mirror.ts` | one handler per HTTP request, background settlement per submitted op | webhook, trigger, list, prepare, grant, pause/resume, revoke |
| push parsing, mirror planning | `copyWebhook.ts`, `swapAdapter.ts` | none | parseFollowedSpends, deriveOutputLeg, scaleMirror, buildMirrorCalls |
| strategy registry and service | `strategyRegistry.ts`, `strategyService.ts`, `server.ts` | `records` + `strategy-sessions.json`, Keychain entries | prepare, grant, pause/resume, list, revoke |
| strategy caps and rebalance | `strategyCaps.ts`, `quoteV2.ts`, `strategyRebalance.ts` | none (one computation each) | snapshotSellQuotes, deriveSellCaps, computeRebalanceLegs |
| DCA scheduler and submit | `user-service/.../DcaScheduler.kt`, `Application.kt`, `SubmitGate.kt`, the repositories, `db/migration/*.sql` | Postgres tables `dca_schedule`, `dca_pending_buy`, `aa_exposure`, `aa_killswitch`, `aa_session` | tick, submit, gate, mark |
| op building | `userop.ts`, `dcaBuild.ts`, `mirror.ts`, `strategyRebalance.ts` | none | build a root op with the EIP-7702 authorization, a session op on its lane; relay a signed op verbatim |
| session scopes | `copySession.ts`, `strategySession.ts`, `dcaAdapter.ts`, `swapAdapter.ts` | none | which actions a session enables, which calls are sent through it |
| session key signer | `sessionKeySigner.ts` | Keychain items | provision, sign with low s and the recovery bit |
| login | `keycloak/siwe-provider` | single-use nonces, users (in Keycloak) | nonce, authenticate |
| schema and profiles | `Db.kt`, `Application.kt`, `ProfileRepository.kt`, `db/migration` | `schema_version`, `app_user` | migrate at start, upsertAndGet |
| deployment, address book | `docker-compose.yml`, `addresses.ts`, `config.ts` | none | |
| outside | bundler, EntryPoint, SmartSessions module, Alchemy, the app | mempool, nonces, sessions, receipts | accept, include, revert, enable, remove, deliver and retry |

How they interact. Alchemy pushes a trader's activity to `POST /v1/copy/webhook` and pushes
it again when no answer came. The handler walks over the spends it parses and, per spend, over
the sessions that follow the trader; for each it reserves budget in the registry and awaits
the bundler. A background poll commits or releases the reservation when the receipt is known.
`POST /v1/session/trigger` does the same for one session. The list endpoints read the chain
for every session and mark those revoked that are gone. The user-service scheduler asks
aa-trigger to build a buy, parks it, and relays it when the app sends a signature. All account
ops go through one EntryPoint, where copy mirrors and recurring buys of an account share lanes.
The app signs root ops (an enable, a removal) that `/v1/userop/build` prepared, and the same
address may send transactions of its own meanwhile. A login takes the nonce out of Keycloak,
verifies, finds or creates the user, and the token's username and subject become a profile of the
user-service at the first request; several processes of it may be starting on one database.

What is hard here:

* aa-trigger is one Node process: code between two awaits is atomic, but every await lets other
  requests, retries and settlements in. Reservations exist in memory only.
* The user-service runs on threads, each repository method in a database connection of its own:
  any two statements can be separated by anything.
* A push is delivered more than once. An answer of the bundler can be lost after the op was
  accepted. A process dies between two steps. A file write throws after the Map has changed.
* On-chain state changes by itself: enables land late, removals come from other wallets, the
  owner's address changes what it delegates to and uses up its transaction count.
* What one service builds, another signs and a third accepts: an op is valid only if the reads it
  was built from are of one moment, its digest has the form its validator recovers over, and its
  calls are among the actions its session enabled earlier.
* Migrations run at every start, of processes that do not know of each other and may die anywhere.

What must be right, per part: the copy budget is never overdrawn and a source spend is charged
and mirrored once; the registry file never takes back what was acknowledged; a session ends only
when it is gone; a schedule buys once per slot and the exposure accounting matches what the
bundler got; a strategy session's caps cover what the owner agreed to and a rebalance ends and
goes towards the target; an op that was built or signed is what the chain accepts, and a session
never draws more than was granted; a token stands for one message its wallet signed; the recorded
schema is the one that exists; a wallet keeps its profile.

## 2. Modules

| module | what it is |
|---|---|
| `MirrorPlan` | pure operators: which activities are followed spends, the idempotency key, scaling, when a plan can be built, what a trigger draws |
| `CopyRegistry` | each method of `CopySessionRegistry` as an operator or action formula over `records`, `disk`, `inflight`, `nonceCounters` |
| `CopyTrading` | the handlers, settlement, chain, owner and crash, over `CopyRegistry` and `MirrorPlan` |
| `MirrorLedger` | abstract: a budget ledger that `CopyTrading` implements |
| `CopyLanes` | `CopyTrading` with the history of its nonce lanes, which only the properties about lanes read |
| `DcaHandshake` | scheduler, submit requests, tables, bundler and chain |
| `StrategySessions` | strategy registry, its endpoints, the Keychain, chain and crash |
| `SessionLifecycle` | abstract: a session store that `StrategySessions` implements |
| `StrategyPlan` | price snapshot, derivation of the caps, the pairing loop of one rebalance |
| `Signing` | pure operators: the hash of an op, the digest of each signer, low-s normalization, what an op keeps on its way to the app and back |
| `SessionScope` | pure operators: the actions a session enables with their caps, the calls of one swap, the policies |
| `AccountOps` | all ops of one account over `Signing` and `SessionScope`, with the EntryPoint, Kernel, the session module, the Keychain, the owner and the bundler |
| `UserStore` | processes of the user-service: migrate, the constraints of `app_user`, crashes |
| `SiweLogin` | logins in Keycloak, composed with `UserStore` |
| `MCCopyTrading`, `MCCopyLanes`, `MCDcaHandshake`, `MCStrategySessions`, `MCStrategyPlan`, `MCAccountOps`, `MCSiweLogin` | instances for TLC |
| `Weighing` | lemmas about sums over finite sets, as a relation (`WeighsTo`) and as the library's sums |
| `CopyTradingProofs`, `AccountOpsProofs`, `SiweLoginProofs` | the theorems about `CopyTrading`, `AccountOps`, `SiweLogin` |
| `CopyLedgerProofs` | what the registry file keeps, the refinement of `MirrorLedger`, at-most-once, exact bookings and the rotation of the lanes, on top of `CopyTradingProofs` |
| `DcaHandshakeProofs` | the theorems about `DcaHandshake` |
| `StrategySessionsProofs` | the theorems about `StrategySessions`, its refinement of `SessionLifecycle` included |
| `StrategyPlanProofs` | the theorems about the caps and the legs of `StrategyPlan` |

### How code maps to actions

*aa-trigger.* A request is a one-shot process with a `phase`. A synchronous section is either
one action or, where the code loops, a run of actions during which `turn` names the request and
no other handler code runs; the chain, the bundler and a crash do not wait for `turn`. An await
is a phase in which `turn` is free. For the webhook: `WebhookArrives` (parse, read the followed
traders), `ScanSkips` / `ScanFinds` / `ScanReplies` (outer loop), `FanSkips` / `FanBuildThrows` /
`FanSubmits` / `FanEnds` (inner loop, in any order of the sessions), then `BundlerAccepts` and
one of `SubmitReturns`, `SubmitThrows`, `ReplyLost`. Settlement is `SettleSuccess`,
`SettleReverted`, `SettleTimeout`. `disk` is what a restart reads; `Upsert(p, r, ok)` changes the
Map and, when the write succeeds (`ok`), replaces the file with the whole Map, so a later
successful write brings earlier failed ones along, as in the code. `Crash` restarts from `disk`
and drops reservations, lane counters, handlers and polls. The submit half of a revoke relays the op
it is sent without reading it, so `OpAccepted` is the acceptance of the removal or of any other op.
`Pausable` names the sessions whose owner pauses and resumes them. On-chain, a session goes
`absent`, `enabled`, `removing`, `removed`, and `renewed` when it is enabled again later.

`CopyLanes` adds three variables beside each step: how many lanes an account was handed since the
process started, which of them each request and each op has (its *ticket*), and in which run of the
process an op was sent. No step reads them.

*user-service.* The scheduler is one process (`loop`) and each submit request one (`sub`); each
database statement or external call is an action. `rows` keeps the order of insertion; the
partial unique index is the `HasOpenRow` test of `Parks`. `Unbuildable` names the schedules whose
build aa-trigger always refuses (`BuildRefused`: the slot stays due and the tick goes on); that some
call fails once is a fault (`LoopStepFails`). `KillSwitch` and `Volatile` say whether the operator pauses and which accounts'
sessions are revoked and registered again. The bundler may refuse any op it is relayed
(`RelayRefused`): a used nonce, a signature that is not the owner's, a session that is gone.

*Strategy sessions* are cut the same way as copy sessions, `OpAccepted` and `renewed` included. The
permissionId is a hash of a random salt, so a request can name a session only after the answer of
its prepare (`Names`).

*Strategy plan.* One quote is one action (an await each); one iteration of the inner loop of
`computeRebalanceLegs` is one `Pairs`. `overs` and `unders` are the remaining lists with what is
left of each entry, which is what the indices and the two mutable amounts of the code say. The
comparator returns -1 for equal drifts both ways, so any order of equal entries is allowed.

*Account ops.* `buildUserOp` is cut at its reads: `BuildPrepares` (nonce and estimate, for any calls),
`BuildReadsUpgraded` or `BuildReadsPlain` (getCode), `BuildReadsTxCount` (the authorization's
nonce); the chain, the owner (`OwnerTransacts`) and other requests move in between. A session op
is `JobPrepares`, `JobSigns` or `JobThrows`, then `JobSubmitted` or `JobRefused`. An op is a set of
field classes (`Signing`): those that enter the hash and those a serialized op carries. Inclusion
is `RootSucceeds`, `RootReverts` or `SessionOpIncluded`, under `RootValid` and `SessionValid`, which
are what the EntryPoint, Kernel, the validators and the policies test. A signature keeps its key,
digest, s and recovery bit; the curve is its order and, per scalar, the parity of y.

*Sign-in.* `NonceTaken` is Keycloak's atomic remove; `UserLookedUp` and `LoginCommits` are the
lookup and the end of Keycloak's transaction, between which another login can create the same
user. `migrate` is statement by statement: `CreatesVersionTable`, `ReadsApplied`, `Executes`,
`Commits`. A transaction becomes visible at `Commits`; until then another process that creates the
same tables waits (`Waits`). The supervisor is `Starts` after `Crashes` or a failed migration.

### Abstractions

* Names, hashes and calldata are model values. A spend is `[chain, category, from, to, tx, token,
  value, leg]`; a call is target, selector and amount. The HMAC is a `signed` flag.
* `Uint160Max`, `BPS`, allocation and clamping are modelled as arithmetic; `LaneMod` stands for
  2^16.
* Every purse has an exposure row with a cap. In the code a missing row or a null cap allows
  everything, which makes the properties about it hold trivially.
* The instance's chain is the test network: the router allowlist of the code has only the two
  main networks and a floor price only exists for the test network, so outside the test hook the
  code skips every mirror. The instance configures what the end-to-end script configures.
* The times of windows, public keys, encodings and the disclosure value of a cap are left out.
* The gas and paymaster figures of an op are one class of its fields. `seen` of a build and
  `issued` of the logins are history: only properties read them.
* `AccountOps` and `SiweLogin` say what the chain, Postgres and Keycloak do from how the code
  relies on them (external entries of the map): nonces per lane, an authorization applied with its
  op, unique usernames, transactional DDL.

## 3. Runs

Runs that pass. Bounds are named constants of the cfg files; the requests are finitely many, so
`CHECK_DEADLOCK FALSE` is set where the service may end with nothing to do.

| run | question | instance |
|---|---|---|
| `CopyConcurrent` | do budget, idempotency, bookings and the rotation of the lanes hold in every interleaving? | one session with two lanes, cap 6 with 1 charged, a push with two spends and its retry, a trigger of the same transaction, an under-declared trigger; no faults |
| `CopyFaulty` | is every request answered and every landed op charged? is the registry a ledger? | two sessions, one with a fee tier that fits no path, so that no plan can be built for it; a push, its retry, a revoke; lost answers, one crash; two lanes so that the counter wraps; fairness |
| `CopyLifecycle` | does reconciliation end only sessions that are gone? does the file keep what was told? | two sessions; list, revoke, trigger, an unsigned push, removals elsewhere; failing writes, no crash |
| `DcaSerial` | are slots, accounting and rows consistent? | two schedules of one purse with intervals 2 and 3, three submits one at a time, session changes, four clock values |
| `DcaFaulty` | what holds with concurrent submits and one fault? does a schedule advance next to one that fails? is every submit answered? | two schedules of one purse, one of which can never be built, two submits, kill-switch, one fault, two clock values; fairness |
| `StrategyRebalance` | are the caps large enough, does the pairing end and go the right way? | four tokens, values 0, 1, 3, 5 in every combination, quotes with a dead pool, intents with and without the budget token |
| `StrategyLifecycle` | does the file keep every promise made to a client? | one session through its life next to an older one, failing writes and reads, one crash |
| `AccountOps` | is what was built and signed what the chain accepts? do draws stay within the grant? | an enable and a removal, three session ops on two lanes, two strategy sessions, one listing a token twice, and a DCA session; a curve of order 7, two transactions of the owner, every initial delegation |
| `SiweLogin` | what does a token stand for? is the schema the recorded one? do processes come to serve? | two logins, two nonces, six messages (both spellings, another site, chain and key), two processes, two migrations, one crash; fairness of the processes |

Why the bounds are enough for these questions: every hazard needs two actors on one session (two
deliveries, a delivery and a settlement, two submits, a list and a grant) and at most one fault;
the instances have one actor more than that, a cap that holds one spend but not two, a lane counter
that wraps, a slot that passes twice, a scalar on each side of half the order, and two over-weight
with two under-weight tokens, the smallest basket in which the pairing takes every branch.

Runs that end in a violation, each a disagreement between the code and what its text says:

| run | what it shows |
|---|---|
| `CopyCrashRetry` | in-flight keys are not persisted: a crash after the submit lets the retried push mirror the spend again |
| `DcaDoubleSubmit` | two submits of one buy: the refused one turns `submitted` into `failed` |
| `StrategyEarlyGrant` | a list between the reported grant and the mined enable ends the session for good |

### Known divergences outside these runs

Found with the same models, by giving up one restriction of a passing run:

* `server.ts:456`: a lost answer releases the reservation of an op the bundler has
  (`NeverUnderCounts` with `LostReplies = TRUE`).
* `server.ts:449`: a throw between `reserve` and the inner `try` leaks the booking until a restart
  (`BookingsExact` in the `CopyFaulty` instance).
* `copySession.ts:214`: the lane counters start at 0 with the process, so a mirror of the new process
  may take a lane on which an op of the earlier run still waits, although `copySession.ts:377` says
  that "concurrent ops never share a lane" (`LanesRotate` speaks of one run only).
* `server.ts:358`, `server.ts:331`: the submit half of a revoke relays whatever op it is sent and marks
  the session revoked when the bundler takes it, whether or not it is the removal. `OpAccepted` allows
  it; `EndedOnlyByRemoval` counts such a request of the owner as an end (`OwnerRevokes`).
* `server.ts:452`: a pause does not stop a mirror whose op is being prepared.
* `server.ts:252`: the copy list has the early-grant behaviour of `StrategyEarlyGrant`
  (`EndedOnlyByRemoval` with `GrantAfterLanding = FALSE`).
* `server.ts:107`: only the first approve of a trigger is counted (`NeverUnderCounts`).
* `Application.kt:342`: two submits of one purse pass the exposure check together
  (`SpentWithinCap` with `Serial = FALSE`); the kill-switch is read once, before the relay.
* `Application.kt:351`: a crash after the relay loses the record of the spend (`SpendRecorded`
  with a fault). `DcaScheduler.kt:56`: a crash before `markRun` buys the slot twice
  (`OneBuyPerSlot` with a fault).
* `server.ts:359`: a revoke is marked when the bundler accepts the removal; if the removal then
  reverts, the record says revoked while the session lives. It fails safe, and
  `EndedOnlyByRemoval` counts an accepted removal as one.
* `strategyRebalance.ts:82`: the clamp is per leg, so two legs of one token may exceed the
  cumulative cap; the chain then refuses the second.
* `strategyCaps.ts:78`: a basket that contains the budget token is refused, because `quoteV2.ts:39`
  has no pool of a token with itself, though the comment at `strategyCaps.ts:20` describes such a
  basket.
* `userop.ts:166`: any delegation of the address counts as upgraded. An address that delegates to
  another implementation cannot be built for, and one that starts to delegate to it between the
  prepare and the getCode gets an op without authorization that the chain refuses
  (`FreshRootOpAccepted` excludes it by the transaction count).
* `Application.kt:239`: a token issued before its Keycloak user was deleted still upserts, and
  re-links the profile to the old subject until the next login. The profile's id stays
  (`ProfileKept`). `SiweAuthenticator.java:114` enables a user that an administrator disabled.

The passing runs are therefore conditional, and their instances say on what: `NeverUnderCounts` and
`BookingsExact` are checked in fault-free operation; `SpendRecorded` and `RowMatchesOp` one submit
at a time without faults; `OneBuyPerSlot` in fault-free operation with any submits;
`SpentWithinCap` and `StatusFinal` one submit at a time. The theorems of section 5 name what each
really needs: `BookingsExact` only that every plan can be built, `NeverUnderCounts` no crash, no
lost answer and one approve per trigger, `SpentWithinCap` and `StatusFinal` one submit at a time.
The divergences above are what happens without these conditions. `EndedOnlyByRemoval` assumes an
app that reports a grant after its enable landed.

## 4. Fairness

* `CopyTrading`: weak fairness per request and per polled op. Every await of the code ends: the
  HTTP clients have timeouts, the poll has a number of attempts, and the event loop runs what is
  ready. The bundler including an op, the owner and the chain get no fairness.
* `DcaHandshake`: weak fairness of the loop, of each submit and of the clock. Accepting a submit,
  operator, sessions and chain get none.
* `StrategyPlan`: weak fairness of the prepare steps (the quoter's client has a timeout) and of
  the synchronous computation. Whether a tick starts is not assumed.
* `SiweLogin`: weak fairness of each user-service process, which migrates without waiting for
  anyone but the other process's transaction, and which compose starts again (`restart:
  unless-stopped`). Logins, nonces and administrators get none.
* `StrategySessions` and `AccountOps` state safety only: no request of theirs waits for another.

## 5. Proofs

`CopyTradingProofs` proves for every set of sessions, requests, followers and keys, every scope,
budget and payload, every number of lanes and crashes, and with failing writes and lost answers:

* `TypeCorrect`: `Spec => []TypeOK`
* `ExposureIsCapped`: `Spec => []ExposureWithinCap`, charged plus reserved is within the budget
* `ChargesAreUnique`: `Spec => []ChargedOnce`
* `FileIsCapped`: the file's charges are within the budget as well

Assumptions: those named in the modules (`ScopeAssumption`, `BootAssumption`,
`RequestAssumption`): caps are natural numbers, the first file was written by an earlier run, the
requests are well formed. TLC evaluates them in every copy run.

The argument. None of the three is inductive: when a mirror that settles successfully moves its
amount from `inflight` to `spentTotal`, the bound survives only if the amount was part of the
reserved sum and nobody else gives it back. The invariant `IInv` therefore says, besides the types:

1. `BookOK`: there is a weight for every key such that the reserved keys weigh exactly
   `inflight[p].spend` and every *claim*, the (key, amount) of a mirror being submitted or of an
   op being polled, is reserved with its amount as weight;
2. `OwnersDistinct`: no two mirrors under way share session and key, so a weight is given back once;
3. `HandlersOK`: a handler that waits for the bundler's answer has its own op at `req[h].op`, and
   a webhook handler stands inside its payload;
4. `Budget`: the two invariants and the bound for the file.

A reservation nobody claims (the leak above) keeps its weight, so the bound survives it. Weights
are the relation `WeighsTo(S, w, n)` of `Weighing`, with lemmas for adding and dropping a key. Then
one lemma per handler shows that its steps keep `IInv`, `StepPreserves` puts them together, and
the theorems follow with the temporal rule.

`CopyLedgerProofs` builds on `IInv`:

* `FileIsAppendOnly`: `Spec => FileHistoryGrows`, and `AckedRevokesLast`:
  `Spec => []AckedRevokeDurable`. Both hold with failing writes and crashes together, a
  combination no run of the copy service has.
* `CopyServiceIsLedger`: without failing writes (`~DiskFaults`), `Spec => ImplementsLedger`. The
  condition is needed: a charge whose write failed is lost by a crash, which the ledger has no
  step for.
* `MirrorsAreUnique`: with `MaxCrashes = 0` and `~LostReplies`,
  `Spec => []MirroredAtMostOnce`. `CopyCrashRetry` is the counterexample without the first
  condition.
* `BookingsAreExact`: with `PlansBuild`, `Spec => []BookingsExact`, whatever crashes, writes and
  answers do. `PlansBuild` is about the instance: a spend that a webhook would mirror for a session
  has an adapter, a token address and an amount that Permit2 can carry.
* `NothingIsUnderCounted`: with `MaxCrashes = 0`, `~LostReplies` and `OneApprove`,
  `Spec => []NeverUnderCounts`. `OneApprove`: the calls of a trigger approve the spend token once.
  `CopyConcurrent` satisfies `PlansBuild` and `OneApprove`; `CopyFaulty` does not satisfy the first
  (a fee tier that does not fit).
* `LanesAreRotated`: `LaneSpec => []LanesRotate`, without a condition. Two mirrors of one account that
  are under way on one lane were sent in different runs of the process, or `LaneMod` mirrors of the
  account were sent between them, which is 65536 in the code. The run has no crash; the theorem
  covers them, and the known divergences of section 3 say what two runs of the process share.
* `EndsByRemoval`: with `GrantAfterLanding` and `LandedAtStart`, `Spec => []EndedOnlyByRemoval`.
  `LandedAtStart` is about the instance: what the first file has as granted is enabled on-chain.
  `CopyLifecycle` satisfies both.

One more assumption, `AbsentAssumption`: a session the first file does not have has nothing
charged. The argument starts from `RegistryMoves`: whatever handler runs, a step leaves the
registry alone, reserves one key, gives one back, charges one, writes a record that keeps its
charges, or is a crash. The first theorem follows from `FileInv`: the file is an earlier version of
the Map, so replacing one by the other in either direction takes nothing back from the file, and a
session without a record has nothing to lose, which is what a prepare overwrites. The second adds
that only a revoke whose write succeeded is answered with success. For the refinement each move is
a step of the ledger; that a charge stays within the limit comes from `ExposureWithinCap` after the
step. For at-most-once, `OnceInv` says that every op that landed or may land is booked, awaited by
the handler that sent it, or settled and charged; a key has one holder and a held key is not
charged (`IInv`), so two successes of one key are one op. For endings, `EndInv` says that what is
granted lives or lived on-chain and that a list has only read as disabled what was removed at some
time; the first is what makes "not enabled" mean "removed".

Three more invariants count what one session has under way. `Exact` writes the in-flight entry as a
sum over the *requests* that submit and the *ops* being polled or given up, instead of over keys: a
mirror that goes from request to op keeps its summand, and by `OwnersDistinct` of `IInv` no two of
them hold one key, so that a release takes out one summand and its key. `MirrorMoves` lists what a
step may do to that picture (join after a reserve, pass to the bundler, be released, settle, crash,
nothing), and each move changes the entry and the sum by the same amount. `CountInv` compares sums
from below: what is drawn or may be drawn on-chain, by op, is at most what is charged and reserved
(`Covered`); that a settled op has its receipt (`SettledKnown`), that an op whose handler still
waits has not been settled (`AwaitedFresh`) and that a trigger declares what its approve allows
(`TriggersWorth`) are what the settlement step needs.

For the lanes, distance is what decides and the counter forgets it, so `LaneInv` is about tickets:
the number handed out and the counter agree up to full rounds (`Turns`), a ticket names its lane, a
ticket of this run is below the number handed out, and a ticket of one run and account belongs to
one mirror, which passes from the request to its op. Two tickets of one lane that differ are then a
round apart at least. A wrap only adds a round, and a restart begins a new run.

`AccountOpsProofs` proves for every set of requests, sessions, scopes and owner transactions:

* `TypeCorrect`, `RootOpsAccepted` (`FreshRootOpAccepted`), `SessionOpsAccepted`
  (`FreshSessionOpAccepted`), `DrawsBounded` (`SpendBounded`)
* `NormalizedIsCanonical`: the scalar that leaves the signer is low and the recovery bit is its own

Assumptions: `CurveAssumption` (an odd order, y flips parity with the negated scalar),
`AccountAssumption` (calls and jobs name sessions, salts of backend sessions differ), and
`TokensAssumption` (Permit2 is not a token). The invariant adds to the types, per build, which
delegation and which count its reads imply while the count has not moved; per job, that its
signature is of the session's key over the raw digest of the op as it was prepared; for the
Keychain, that an item holds the key of the one session with that salt; and that a draw is within
the cap listed last, from which `SpendBounded` follows. Acceptance needs the serialized op to carry
every hashed field, the digest to match the validator, and every call of a swap to be enabled.

`SiweLoginProofs` proves for every number of logins, nonces, messages, processes, migrations and
crashes:

* `TypeCorrect`, `TokensAreProven` (`LoginProven`), `SchemaIsSound` (`SchemaSound`),
  `ProfilesAreKept` (`ProfileKept`)

Assumptions: `StoreAssumption` and `LoginAssumption` (a message names an address, a signer and a
nonce of the model). The invariant: the versions a process saw or applied itself are committed
(`ProcFacts`); the nonce of an admitted login was issued, is no longer live and is shared with no
other admitted login (`NonceFacts`); a login past the checks carries a verified message
(`VerifiedFacts`); a subject is the login that created it, and that login is of the wallet that has
it (`SubjectFacts`).

`DcaHandshakeProofs` proves for every set of schedules, intervals, accounts, purses, caps, requests
and clock values:

* `TypeCorrect` (`TypeOK`) and `HandshakeIsSafe` (`HandshakeSafe`), with any faults and any number of
  concurrent submits
* `SlotsBuyOnce` (`OneBuyPerSlot`), with `MaxFaults = 0` and any concurrent submits
* `SpendIsCapped` (`SpentWithinCap`) and `StatusIsFinal` (`StatusFinal`), with `Serial` and any faults
* `RowsTellTheTruth` (`RowMatchesOp`) and `SpendIsRecorded` (`SpendRecorded`), with `Serial` and
  `MaxFaults = 0`

Assumption: `PlanAssumption` (positive intervals and amounts, natural caps, some schedule exists).
`DcaDoubleSubmit` is the counterexample to `StatusFinal` without `Serial`. The argument: `TableMoves`
says what a step may do to `rows`, `ops` and `spent`, whatever process makes it: append a pending row,
change one status, change one op, record one spend. `HandshakeIsSafe` needs that a request behind the
relay has an op the bundler took. `SlotInv` adds to the slots where the loop stands between parking a
buy and `markRun` (`JustParked`): until then the schedule is still due, and its last row was just
built. `SerialInv` says that the one request under way works on a pending row
(`RowOpen`), and that from the gate to the record its amount still fits under the cap (`FitsCap`),
which is what another submit of the purse would break. For `SpendIsRecorded`, the sums over the ops
handed over and over the requests that are about to record one gain the same summand at the relay,
and the second loses it at the record; a row is handed over once because its row is still pending
(`MatchInv`).

`StrategySessionsProofs` proves for every set of sessions and requests, any number of crashes, and
with failing writes and failing reads:

* `TypeCorrect` (`TypeOK`), `EnabledIsKept` (`EnabledIsRecorded`), `PauseIsDurable`
  (`AckedPauseDurable`)
* `ServiceIsLifecycle`: `Spec => ImplementsLifecycle`
* `EndsByRemoval` (`EndedOnlyByRemoval`), for `GrantAfterLanding` and a first file whose granted
  sessions are enabled; `StrategyEarlyGrant` is the counterexample without the first

Assumptions: `RequestAssumption`, `BootAssumption` (what is enabled at the start is in the first
file) and `SaltAssumption` (the id of a prepare is new and its own). The invariant `IInv` relates
the Map to the file: a record is at most one promised move ahead of its stored stage
(`FileFollows`), so writing the Map over the file, or the file over the Map in a crash, is a move
of the lifecycle. Per request (`HandlerOK`): a prepare that has not answered has no record, a list
only holds sessions that are in the file, and an answer given with success is still true of the
file (`Reported`). Since a client can only name an id it was answered (`NamedIsStored`), nothing is
written or enabled for a session the file does not have. The refinement then needs that answers are
never taken back (`DoneStays`) and that the furthest answer is below the stored stage
(`ToldBelow`). For pauses and endings, `Effect` lists what one request may write; the pause has to
be in the Map as well as in the file, or the next write of any session would undo it (`PauseInv`),
and a list has only read as disabled what was removed, since all it asked about was granted
(`EndInv`; a session enabled again still counts as removed once).

`StrategyPlanProofs` proves for every finite set of tokens, intents, prices, valuations and orders of
the quoter's answers:

* `TypeCorrect` (`TypeOK`), `CapsCover` (`CapsCoverSnapshot`)
* `TargetIsNotCrossed` (`NeverCrossesTarget`) and `OnlyCapsStop` (`OnlyCapsBlock`)
* `PairingEnds`: `Spec => PairingShrinks`, every leg finishes a token for this tick, which bounds the
  iterations of the pairing loop; that the loop goes on until then is `TickReturns`, which TLC checks

Assumption: `IntentAssumption` (finitely many tokens, natural budgets and turnovers, weights in basis
points, positive prices). `CeilDivCovers` shows that a quotient rounded up is the smallest number that
is enough; `CapsInv` that quotes and caps stay what they were once the caps are derived, since every
later step leaves both alone. For the legs, `Sides` keeps the books of the two remaining lists: what an
entry has left and what its legs have moved are its drift, an entry gone from the list has moved all of
it or, on the selling side, a leg as large as its cap, and a token is on one side only. Derived caps are
positive, so a leg is never empty, which is what makes the measure shrink.

`Weighing` carries the arithmetic of all these sums. The library's theorems about finite sets that
take an operator cannot be instantiated here, but the induction over subsets can: `FiniteInduction`
takes the property as the *set* of subsets that have it, and follows from `WFMin` and
`FS_StrictSubsetOrderingWellFounded`. From it come what a fold of additions computes (`SumIsAdded`)
and the lemmas the proofs cite: a sum with one member more or less, with one weight changed, of a
smaller set, of a union.

Only model-checked: liveness (`RequestsFinish`, `LandedIsCharged`, `DueAdvances`, `SubmitsFinish`,
`TickReturns`, `EventuallyServes`), which is outside the prover, and the violations of section 3. Every
invariant and action property of a passing run is stated by a theorem, under the conditions above.

## 6. Not modelled

* `addresses.ts` and `config.ts`: constants, and a comparison of code hashes at start.
* Deployment, the Keycloak factories, realm bootstrap: process supervision and registration. The
  models assume only that a process that ended is started again.
* End-to-end scripts, vectors and tests: read for the behaviour they expect.
* The byte layouts of user operations, session payloads and swap calldata; the time windows of
  sessions and messages; the disclosure value of a cap; parsing of SIWE messages.
* `revoke/build` of both services as endpoints of their own: they read and encode; the op they
  build is the `remove` of `AccountOps`.
* JSON shapes, listings of the user-service that only read, logging, and the erasure of keys.

## 7. Plan

Done: the copy-trading core, the DCA handshake, strategy sessions and plan, account ops with their
scopes and signatures, sign-in with schema and profiles; proofs for all of them.

Next theorems: lemmas about the pure operators of `MirrorPlan`.

Next models: legs of successive ticks against the cumulative on-chain limit, by composing
`StrategyPlan` with `AccountOps`; copy mirrors and recurring buys of one account in one instance, to
say what a shared lane costs each of them.
