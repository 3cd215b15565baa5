---------------------------- MODULE CopyTrading -----------------------------
(***************************************************************************)
(* The copy-trading half of aa-trigger: the HTTP handlers of server.ts     *)
(* that drive the registry, the background settlement of submitted         *)
(* mirrors, and the outside world they talk to (bundler, EntryPoint and    *)
(* SmartSessions module, the follower's app).                              *)
(*                                                                         *)
(* The service is one Node process.  A request is a one-shot process with  *)
(* its own phase; code between two awaits runs without interruption, which *)
(* the variable turn expresses: while it names a request, no other handler *)
(* code runs.  The chain, the bundler and a crash do not wait for turn.    *)
(*                                                                         *)
(* Request[h] is the call that request h makes:                            *)
(*   [kind |-> "webhook", signed, payload]   POST /v1/copy/webhook         *)
(*   [kind |-> "trigger", perm, tx, calls, declared]                       *)
(*                                           POST /v1/session/trigger      *)
(*   [kind |-> "list", follower]             GET  /v1/copy/sessions        *)
(*   [kind |-> "revoke", perm]               POST .../session/revoke/submit*)
(* Two requests with the same payload are a delivery and its retry.        *)
(***************************************************************************)
EXTENDS MirrorPlan, CopyRegistry, Functions

CONSTANTS
    Handlers,           \* requests the service receives
    Request,            \* what each of them asks for
    BootEnabled,        \* sessions already enabled on-chain at the start
    OwnerActs,          \* which of the owner's calls happen
    Pausable,           \* sessions whose owner pauses and resumes them
    GrantAfterLanding,  \* TRUE when the app reports the grant only after the enable landed
    LostReplies,        \* TRUE when the bundler's answer to an accepted op may be lost
    MaxCrashes,         \* bound on process crashes
    MaxOps,             \* bound on accepted ops that fairness and liveness range over
    Nobody              \* no request holds the event loop

VARIABLES
    req,      \* request -> its handler's local state
    turn,     \* the request whose synchronous section is running
    ops,      \* userOps the bundler accepted, in order of acceptance
    session,  \* permissionId -> state of the session on-chain
    crashes   \* crashes so far

envVars == <<ops, session, crashes>>
vars == <<regVars, req, turn, envVars>>

Sources == {Scope[p].source : p \in Perms}

\* Key of a trigger request: the raw hash, without a log index.
RawLeg == -1
TriggerKey(r) == <<r.tx, RawLeg>>

WellFormedRequest(r) ==
    \/ /\ r.kind = "webhook"
       /\ r.signed \in BOOLEAN
       /\ \A i \in 1 .. Len(r.payload) : /\ r.payload[i].value \in Int
                                         /\ SpendKey(r.payload[i]) \in Keys
    \/ /\ r.kind = "trigger"
       /\ r.perm \in Perms
       /\ TriggerKey(r) \in Keys
       /\ \A i \in DOMAIN r.calls : i \in Nat /\ r.calls[i].amount \in Nat
    \/ r.kind = "list" /\ r.follower \in Followers
    \/ r.kind = "revoke" /\ r.perm \in Perms

ASSUME RequestAssumption ==
    /\ \A h \in Handlers : WellFormedRequest(Request[h])
    /\ \A h \in Handlers : Request[h].kind = "webhook" => Len(Request[h].payload) \in Nat
    /\ \A p \in Perms : Scope[p].allocationBps \in Int
    /\ MaxCrashes \in Nat
    /\ Nobody \notin Handlers

-----------------------------------------------------------------------------
Phases == {"idle", "scan", "fan", "submit", "sent", "read", "apply", "relay", "relayed", "done", "dead"}

Jobs == [perm: Perms, key: Keys, amt: Nat, lane: 0 .. LaneMod - 1]

HandlerState ==
    [phase: Phases,
     pos: Nat,                 \* webhook: activity being looked at
     followed: SUBSET Sources, \* webhook: traders followed when the push was parsed
     fan: SUBSET Perms,        \* sessions still to handle
     seen: [Perms -> Nat],     \* webhook: spentTotal of the findBySource snapshot
     gone: SUBSET Perms,       \* list: sessions read as disabled
     job: Jobs \union {NoValue}, \* the mirror being submitted
     op: Nat,                  \* index in ops of the op just accepted
     reply: {"none", "ok", "error"}]

Idle == [phase |-> "idle", pos |-> 0, followed |-> {}, fan |-> {}, seen |-> [p \in Perms |-> 0],
         gone |-> {}, job |-> NoValue, op |-> 0, reply |-> "none"]

Finished(reply) == [Idle EXCEPT !.phase = "done", !.reply = reply]

Op == [perm: Perms, key: Keys, amt: Nat, lane: 0 .. LaneMod - 1, by: Handlers,
       status: {"mempool", "success", "reverted"},
       watch: {"none", "polling", "settled", "gaveup"}]

\* "renewed" is a session enabled again after a removal.
SessionStates == {"absent", "enabled", "removing", "removed", "renewed"}

\* isSessionEnabled on-chain: a removal that is not mined yet does not count.
SessionLive(p) == session[p] \in {"enabled", "removing", "renewed"}

Kind(h) == Request[h].kind
Free == turn = Nobody
Runs(h, phase) == turn = h /\ req[h].phase = phase
Awaits(h, phase) == Free /\ req[h].phase = phase
Arrives(h, kind) == Free /\ req[h].phase = "idle" /\ Kind(h) = kind
Becomes(h, s) == req' = [req EXCEPT ![h] = s]

Init ==
    /\ RegInit
    /\ req = [h \in Handlers |-> Idle]
    /\ turn = Nobody
    /\ ops = <<>>
    /\ session = [p \in Perms |-> IF p \in BootEnabled THEN "enabled" ELSE "absent"]
    /\ crashes = 0

-----------------------------------------------------------------------------
(* POST /v1/copy/webhook.                                                  *)

Activity(h) == Request[h].payload[req[h].pos]

\* The traders of the granted sessions, paused ones included.
Followed == {Scope[p].source : p \in {q \in Perms : records[q].status = "granted"}}

\* The HMAC does not match: 401, nothing else happens.
WebhookRejects(h) ==
    /\ Arrives(h, "webhook")
    /\ ~Request[h].signed
    /\ Becomes(h, Finished("error"))
    /\ UNCHANGED <<regVars, turn, envVars>>

WebhookArrives(h) ==
    /\ Arrives(h, "webhook")
    /\ Request[h].signed
    /\ Becomes(h, [req[h] EXCEPT !.phase = "scan", !.pos = 1, !.followed = Followed])
    /\ turn' = h
    /\ UNCHANGED <<regVars, envVars>>

\* Outer loop: one parsed spend after the other.
ScanSkips(h) ==
    /\ Runs(h, "scan")
    /\ req[h].pos <= Len(Request[h].payload)
    /\ ~IsFollowedSpend(Request[h].payload, Activity(h), req[h].followed)
    /\ Becomes(h, [req[h] EXCEPT !.pos = @ + 1])
    /\ UNCHANGED <<regVars, turn, envVars>>

ScanFinds(h) ==
    /\ Runs(h, "scan")
    /\ req[h].pos <= Len(Request[h].payload)
    /\ IsFollowedSpend(Request[h].payload, Activity(h), req[h].followed)
    /\ Becomes(h, [req[h] EXCEPT !.phase = "fan",
                                 !.fan = FindBySource(Activity(h).from, Activity(h).chain),
                                 !.seen = [p \in Perms |-> records[p].spentTotal]])
    /\ UNCHANGED <<regVars, turn, envVars>>

ScanReplies(h) ==
    /\ Runs(h, "scan")
    /\ req[h].pos > Len(Request[h].payload)
    /\ Becomes(h, Finished("ok"))
    /\ turn' = Nobody
    /\ UNCHANGED <<regVars, envVars>>

\* The mirror about to be submitted, on the next nonce lane of its follower.
Job(p, key, amt) == [perm |-> p, key |-> key, amt |-> amt, lane |-> nonceCounters[Scope[p].follower]]

\* Inner loop: one following session after the other, in any order.
Amount(h, p) == MirrorAmount(Activity(h), Scope[p], req[h].seen[p])
Wants(h, p) == WantsMirror(Request[h].payload, Activity(h), Scope[p], req[h].seen[p])
Builds(h, p) == BuildMirrorCallsOk(Request[h].payload, Activity(h), Scope[p], Amount(h, p))

\* A loop that forgets to move to the next spend.
FanRestarts(h) ==
    /\ Runs(h, "fan")
    /\ req[h].fan = {}
    /\ Becomes(h, [req[h] EXCEPT !.phase = "scan", !.seen = [p \in Perms |-> 0]])
    /\ UNCHANGED <<regVars, turn, envVars>>

FanEnds(h) ==
    /\ Runs(h, "fan")
    /\ req[h].fan = {}
    /\ Becomes(h, [req[h] EXCEPT !.phase = "scan", !.pos = @ + 1, !.seen = [p \in Perms |-> 0]])
    /\ UNCHANGED <<regVars, turn, envVars>>

\* A skip reason applies, or reserve throws a GateError: recorded in the reply only.
FanSkips(h, p) ==
    /\ Runs(h, "fan")
    /\ p \in req[h].fan
    /\ ~Wants(h, p) \/ ~Mirrorable(p, Amount(h, p), SpendKey(Activity(h)))
    /\ Becomes(h, [req[h] EXCEPT !.fan = @ \ {p}])
    /\ UNCHANGED <<regVars, turn, envVars>>

\* reserve has booked the spend, then buildMirrorCalls throws outside the inner try.
FanBuildThrows(h, p) ==
    /\ Runs(h, "fan")
    /\ p \in req[h].fan
    /\ Wants(h, p)
    /\ ~Builds(h, p)
    /\ Reserve(p, Amount(h, p), SpendKey(Activity(h)))
    /\ Becomes(h, [req[h] EXCEPT !.fan = @ \ {p}])
    /\ UNCHANGED <<records, disk, nonceCounters, turn, envVars>>

\* reserve, buildMirrorCalls, nextNonceKey, then the await of submitMirror.
FanSubmits(h, p) ==
    /\ Runs(h, "fan")
    /\ p \in req[h].fan
    /\ Wants(h, p)
    /\ Builds(h, p)
    /\ Reserve(p, Amount(h, p), SpendKey(Activity(h)))
    /\ NextNonceKey(Scope[p].follower)
    /\ Becomes(h, [req[h] EXCEPT !.fan = @ \ {p}, !.phase = "submit",
                                 !.job = Job(p, SpendKey(Activity(h)), Amount(h, p))])
    /\ turn' = Nobody
    /\ UNCHANGED <<records, disk, envVars>>

-----------------------------------------------------------------------------
(* POST /v1/session/trigger.                                               *)

TriggerSpend(h) == DeriveSpendFromCalls(Request[h].calls, Scope[Request[h].perm])

TriggerValid(h) ==
    LET r == Request[h]
    IN  /\ Len(r.calls) > 0
        /\ records[r.perm].status # "none"
        /\ CallsEnabled(r.calls, Scope[r.perm])
        /\ CapApproves(r.calls, Scope[r.perm]) # {}
        /\ r.declared \in {NoValue, TriggerSpend(h)}

TriggerRejects(h) ==
    /\ Arrives(h, "trigger")
    /\ TriggerValid(h) => ~Mirrorable(Request[h].perm, TriggerSpend(h), TriggerKey(Request[h]))
    /\ Becomes(h, Finished("error"))
    /\ UNCHANGED <<regVars, turn, envVars>>

TriggerSubmits(h) ==
    LET p == Request[h].perm
    IN  /\ Arrives(h, "trigger")
        /\ TriggerValid(h)
        /\ Reserve(p, TriggerSpend(h), TriggerKey(Request[h]))
        /\ NextNonceKey(Scope[p].follower)
        /\ Becomes(h, [req[h] EXCEPT !.phase = "submit",
                                     !.job = Job(p, TriggerKey(Request[h]), TriggerSpend(h))])
        /\ UNCHANGED <<records, disk, turn, envVars>>

-----------------------------------------------------------------------------
(* submitMirror, shared by both: the op is prepared, signed and sent while *)
(* the handler awaits; the answer comes back later or not at all.          *)

\* The bundler simulates the op and accepts it.
BundlerAccepts(h) ==
    LET j == req[h].job
    IN  /\ req[h].phase = "submit"
        /\ SessionLive(j.perm)
        /\ ops' = Append(ops, [perm |-> j.perm, key |-> j.key, amt |-> j.amt, lane |-> j.lane,
                               by |-> h, status |-> "mempool", watch |-> "none"])
        /\ Becomes(h, [req[h] EXCEPT !.phase = "sent", !.op = Len(ops) + 1])
        /\ UNCHANGED <<regVars, turn, session, crashes>>

\* After the await the webhook goes on with its loop, the trigger answers.
Continue(h, reply) ==
    IF Kind(h) = "webhook"
    THEN /\ Becomes(h, [req[h] EXCEPT !.phase = "fan", !.job = NoValue, !.op = 0])
         /\ turn' = h
    ELSE /\ Becomes(h, Finished(reply))
         /\ turn' = Nobody

\* Preparing, signing or sending failed and the bundler has no op.
SubmitThrows(h) ==
    LET j == req[h].job
    IN  /\ Awaits(h, "submit")
        /\ ReleaseReservation(j.perm, j.amt, j.key)
        /\ Continue(h, "error")
        /\ UNCHANGED <<records, disk, nonceCounters, envVars>>

\* sendUserOperation throws although the bundler has the op (timeout, broken connection).
ReplyLost(h) ==
    LET j == req[h].job
    IN  /\ LostReplies
        /\ Awaits(h, "sent")
        /\ ReleaseReservation(j.perm, j.amt, j.key)
        /\ Continue(h, "error")
        /\ UNCHANGED <<records, disk, nonceCounters, envVars>>

\* The hash comes back; settleMirror starts polling in the background.
SubmitReturns(h) ==
    /\ Awaits(h, "sent")
    /\ ops' = [ops EXCEPT ![req[h].op].watch = "polling"]
    /\ Continue(h, "ok")
    /\ UNCHANGED <<regVars, session, crashes>>

-----------------------------------------------------------------------------
(* settleMirror.                                                           *)

\* Receipt with success.  When the file cannot be written recordMirror throws after the Map
\* has changed, and the catch releases a booking that is already gone.
SettleSuccess(i, ok) ==
    /\ Free
    /\ ops[i].watch = "polling"
    /\ ops[i].status = "success"
    /\ CommitReservation(ops[i].perm, ops[i].amt, ops[i].key, ok)
    /\ ops' = [ops EXCEPT ![i].watch = "settled"]
    /\ UNCHANGED <<nonceCounters, req, turn, session, crashes>>

SettleReverted(i) ==
    /\ Free
    /\ ops[i].watch = "polling"
    /\ ops[i].status = "reverted"
    /\ ReleaseReservation(ops[i].perm, ops[i].amt, ops[i].key)
    /\ ops' = [ops EXCEPT ![i].watch = "settled"]
    /\ UNCHANGED <<records, disk, nonceCounters, req, turn, session, crashes>>

\* A settlement that treats a confirm timeout as a failure.
SettleTimeoutReleases(i) ==
    /\ Free
    /\ ops[i].watch = "polling"
    /\ ReleaseReservation(ops[i].perm, ops[i].amt, ops[i].key)
    /\ ops' = [ops EXCEPT ![i].watch = "gaveup"]
    /\ UNCHANGED <<records, disk, nonceCounters, req, turn, session, crashes>>

\* No receipt within the polling window (an op not included, or receipt calls that failed):
\* the reservation stays booked.
SettleTimeout(i) ==
    /\ Free
    /\ ops[i].watch = "polling"
    /\ ops' = [ops EXCEPT ![i].watch = "gaveup"]
    /\ UNCHANGED <<regVars, req, turn, session, crashes>>

-----------------------------------------------------------------------------
(* GET /v1/copy/sessions: list, read the chain, revoke what is gone.       *)

ListArrives(h) ==
    /\ Arrives(h, "list")
    /\ Becomes(h, [req[h] EXCEPT !.phase = "read", !.fan = ViewByFollower(Request[h].follower)])
    /\ UNCHANGED <<regVars, turn, envVars>>

\* A read that takes a transient failure for a session that is gone.
ListReadsFailClosed(h, p, failed) ==
    /\ req[h].phase = "read"
    /\ p \in req[h].fan
    /\ Becomes(h, [req[h] EXCEPT !.fan = @ \ {p},
                                 !.gone = IF SessionLive(p) /\ ~failed THEN @ ELSE @ \union {p}])
    /\ UNCHANGED <<regVars, turn, envVars>>

\* One of the concurrent isSessionEnabled reads; a failing read counts as enabled.
ListReads(h, p, failed) ==
    /\ req[h].phase = "read"
    /\ p \in req[h].fan
    /\ Becomes(h, [req[h] EXCEPT !.fan = @ \ {p},
                                 !.gone = IF failed \/ SessionLive(p) THEN @ ELSE @ \union {p}])
    /\ UNCHANGED <<regVars, turn, envVars>>

ListResumes(h) ==
    /\ Awaits(h, "read")
    /\ req[h].fan = {}
    /\ Becomes(h, [req[h] EXCEPT !.phase = "apply"])
    /\ turn' = h
    /\ UNCHANGED <<regVars, envVars>>

ListRevokes(h, p, ok) ==
    /\ Runs(h, "apply")
    /\ p \in req[h].gone
    /\ Revoke(p, ok)
    /\ Becomes(h, IF ok THEN [req[h] EXCEPT !.gone = @ \ {p}] ELSE Finished("error"))
    /\ turn' = IF ok THEN turn ELSE Nobody
    /\ UNCHANGED <<inflight, nonceCounters, envVars>>

ListReplies(h) ==
    /\ Runs(h, "apply")
    /\ req[h].gone = {}
    /\ Becomes(h, Finished("ok"))
    /\ turn' = Nobody
    /\ UNCHANGED <<regVars, envVars>>

-----------------------------------------------------------------------------
(* POST /v1/copy/session/revoke/submit.                                    *)

RevokeArrives(h) ==
    /\ Arrives(h, "revoke")
    /\ Becomes(h, IF records[Request[h].perm].status = "none" THEN Finished("error")
                  ELSE [req[h] EXCEPT !.phase = "relay"])
    /\ UNCHANGED <<regVars, turn, envVars>>

\* The bundler accepts the op of the request: the owner's removeSession, not mined yet, or any
\* other op, since the handler relays what the app sent without reading it.
OpAccepted(h) ==
    LET p == Request[h].perm
    IN  /\ req[h].phase = "relay"
        /\ \/ session' = [session EXCEPT ![p] = IF @ \in {"enabled", "renewed"} THEN "removing" ELSE @]
           \/ UNCHANGED session
        /\ Becomes(h, [req[h] EXCEPT !.phase = "relayed"])
        /\ UNCHANGED <<regVars, turn, ops, crashes>>

RelayThrows(h) ==
    /\ Awaits(h, "relay") \/ (LostReplies /\ Awaits(h, "relayed"))
    /\ Becomes(h, Finished("error"))
    /\ UNCHANGED <<regVars, turn, envVars>>

\* A handler that answers although the file was not written.
RelayReturnsAnyway(h, ok) ==
    /\ Awaits(h, "relayed")
    /\ Revoke(Request[h].perm, ok)
    /\ Becomes(h, Finished("ok"))
    /\ UNCHANGED <<inflight, nonceCounters, turn, envVars>>

RelayReturns(h, ok) ==
    /\ Awaits(h, "relayed")
    /\ Revoke(Request[h].perm, ok)
    /\ Becomes(h, Finished(IF ok THEN "ok" ELSE "error"))
    /\ UNCHANGED <<inflight, nonceCounters, turn, envVars>>

-----------------------------------------------------------------------------
(* The short endpoints, one synchronous step each, and the owner's app.    *)

OwnerPrepares(p, ok) ==
    /\ Free /\ "prepare" \in OwnerActs
    /\ Prepare(p, ok)
    /\ UNCHANGED <<inflight, nonceCounters, req, turn, envVars>>

OwnerGrants(p, ok) ==
    /\ Free /\ "grant" \in OwnerActs
    /\ GrantAfterLanding => session[p] # "absent"
    /\ Grant(p, ok)
    /\ UNCHANGED <<inflight, nonceCounters, req, turn, envVars>>

OwnerPauses(p, paused, ok) ==
    /\ Free /\ p \in Pausable
    /\ SetPaused(p, paused, ok)
    /\ UNCHANGED <<inflight, nonceCounters, req, turn, envVars>>

-----------------------------------------------------------------------------
(* The chain: EntryPoint, SmartSessions and its SpendingLimits policy.     *)

\* What an op draws from the on-chain limit: every approve on the spend token counts.
Draw(o) ==
    LET r == Request[o.by]
    IN  IF r.kind = "trigger"
        THEN SumFunction([i \in CapApproves(r.calls, Scope[o.perm]) |-> r.calls[i].amount])
        ELSE o.amt

Landed(p) == {i \in DOMAIN ops : ops[i].perm = p /\ ops[i].status = "success"}

DrawnOnChain(p) == BootFile[p].spentTotal + SumFunction([i \in Landed(p) |-> Draw(ops[i])])

OpSucceeds(i) ==
    LET p == ops[i].perm
    IN  /\ ops[i].status = "mempool"
        /\ SessionLive(p)
        /\ DrawnOnChain(p) + Draw(ops[i]) <= Cap(p)
        /\ ops' = [ops EXCEPT ![i].status = "success"]
        /\ UNCHANGED <<regVars, req, turn, session, crashes>>

OpReverts(i) ==
    /\ ops[i].status = "mempool"
    /\ ops' = [ops EXCEPT ![i].status = "reverted"]
    /\ UNCHANGED <<regVars, req, turn, session, crashes>>

\* The owner's enable of a prepared session, or of one that was removed.
EnableMined(p) ==
    /\ "enable" \in OwnerActs
    /\ records[p].status # "none"
    /\ session[p] \in {"absent", "removed"}
    /\ session' = [session EXCEPT ![p] = IF @ = "absent" THEN "enabled" ELSE "renewed"]
    /\ UNCHANGED <<regVars, req, turn, ops, crashes>>

\* A removal the owner sends without this endpoint (generic submit, another wallet).
OwnerRemoves(p) ==
    /\ "remove" \in OwnerActs
    /\ session[p] \in {"enabled", "renewed"}
    /\ session' = [session EXCEPT ![p] = "removing"]
    /\ UNCHANGED <<regVars, req, turn, ops, crashes>>

RemovalMined(p) ==
    /\ session[p] = "removing"
    /\ session' = [session EXCEPT ![p] = "removed"]
    /\ UNCHANGED <<regVars, req, turn, ops, crashes>>

-----------------------------------------------------------------------------
\* The process dies, even in the middle of a synchronous section, and starts again.
Crash ==
    /\ crashes < MaxCrashes
    /\ crashes' = crashes + 1
    /\ Restart
    /\ req' = [h \in Handlers |-> IF req[h].phase \in {"idle", "done", "dead"} THEN req[h]
                                  ELSE [Idle EXCEPT !.phase = "dead"]]
    /\ turn' = Nobody
    /\ ops' = [i \in DOMAIN ops |-> IF ops[i].watch \in {"polling", "gaveup"}
                                     THEN [ops[i] EXCEPT !.watch = "none"] ELSE ops[i]]
    /\ UNCHANGED session

-----------------------------------------------------------------------------
WebhookStep(h) ==
    \/ WebhookRejects(h) \/ WebhookArrives(h)
    \/ ScanSkips(h) \/ ScanFinds(h) \/ ScanReplies(h) \/ FanEnds(h)
    \/ \E p \in Perms : FanSkips(h, p) \/ FanBuildThrows(h, p) \/ FanSubmits(h, p)

TriggerStep(h) == TriggerRejects(h) \/ TriggerSubmits(h)

SubmitStep(h) == BundlerAccepts(h) \/ SubmitThrows(h) \/ ReplyLost(h) \/ SubmitReturns(h)

ListStep(h) ==
    \/ ListArrives(h) \/ ListResumes(h) \/ ListReplies(h)
    \/ \E p \in Perms, failed \in BOOLEAN : ListReads(h, p, failed)
    \/ \E p \in Perms, ok \in WriteOutcomes : ListRevokes(h, p, ok)

RevokeStep(h) ==
    \/ RevokeArrives(h) \/ OpAccepted(h) \/ RelayThrows(h)
    \/ \E ok \in WriteOutcomes : RelayReturns(h, ok)

RequestStep(h) == WebhookStep(h) \/ TriggerStep(h) \/ SubmitStep(h) \/ ListStep(h) \/ RevokeStep(h)

Settle(i) ==
    \/ \E ok \in WriteOutcomes : SettleSuccess(i, ok)
    \/ SettleReverted(i)
    \/ SettleTimeout(i)

OwnerStep(p) ==
    \/ \E ok \in WriteOutcomes : OwnerPrepares(p, ok) \/ OwnerGrants(p, ok)
    \/ \E ok \in WriteOutcomes, paused \in BOOLEAN : OwnerPauses(p, paused, ok)

ChainStep ==
    \/ \E i \in DOMAIN ops : OpSucceeds(i) \/ OpReverts(i)
    \/ \E p \in Perms : EnableMined(p) \/ OwnerRemoves(p) \/ RemovalMined(p)

Next ==
    \/ \E h \in Handlers : RequestStep(h)
    \/ \E i \in DOMAIN ops : Settle(i)
    \/ \E p \in Perms : OwnerStep(p)
    \/ ChainStep
    \/ Crash

Spec == Init /\ [][Next]_vars

\* Every await ends: the HTTP clients have timeouts, and the event loop runs what is ready.
\* Nothing is assumed of the bundler including an op, of the owner or of the chain.
Fairness ==
    /\ \A h \in Handlers : WF_vars(RequestStep(h))
    /\ \A i \in 1 .. MaxOps : WF_vars(i \in DOMAIN ops /\ Settle(i))

FairSpec == Spec /\ Fairness

-----------------------------------------------------------------------------
(* Properties.                                                             *)

\* Every variable has its type; a request that awaits submitMirror has a job.
TypeOK ==
    /\ RegTypeOK
    /\ req \in [Handlers -> HandlerState]
    /\ \A h \in Handlers : req[h].phase \in {"submit", "sent"} => req[h].job \in Jobs
    /\ \A h \in Handlers : req[h].phase = "sent" => req[h].op \in DOMAIN ops
    /\ turn \in Handlers \union {Nobody}
    /\ ops \in Seq(Op)
    /\ session \in [Perms -> SessionStates]
    /\ crashes \in 0 .. MaxCrashes

\* Q7: what is charged plus what is reserved never exceeds the session's budget, whatever
\* deliveries, retries, triggers, settlements and crashes interleave (copySession.ts reserve).
ExposureWithinCap ==
    \A p \in Perms : records[p].spentTotal + inflight[p].spend <= Cap(p)

\* A source spend is charged at most once, and never while it is also reserved, in memory and
\* in the file a restart would read (copySession.ts assertMirrorable, commitReservation).
ChargedOnce ==
    \A p \in Perms : /\ NoRepeats(records[p].mirroredTx)
                     /\ NoRepeats(disk[p].mirroredTx)
                     /\ Mirrored(records[p]) \intersect inflight[p].txs = {}

Submitting(h) == req[h].phase \in {"submit", "sent"}
Booked(i) == ops[i].watch \in {"polling", "gaveup"}
SubmittersOn(p) == {h \in Handlers : Submitting(h) /\ req[h].job.perm = p}
BookedOn(p) == {i \in DOMAIN ops : Booked(i) /\ ops[i].perm = p}

\* The in-flight entry of a session is exactly the mirrors being submitted, being polled or
\* left for reconciliation: no reservation without an owner, none counted twice, and the
\* reserved sum is the sum of their amounts (copySession.ts reserve / releaseInflight).
BookingsExact ==
    \A p \in Perms :
        /\ inflight[p].txs = {req[h].job.key : h \in SubmittersOn(p)} \union {ops[i].key : i \in BookedOn(p)}
        /\ inflight[p].spend = SumFunction([h \in SubmittersOn(p) |-> req[h].job.amt])
                                 + SumFunction([i \in BookedOn(p) |-> ops[i].amt])

\* "no double-mirror on webhook retry" (copySession.ts): for one session and one source spend
\* at most one mirror ever succeeds on-chain.
MirroredAtMostOnce ==
    \A i, j \in DOMAIN ops :
        /\ ops[i].status = "success" /\ ops[j].status = "success"
        /\ ops[i].perm = ops[j].perm /\ ops[i].key = ops[j].key
        => i = j

\* "never under-count a maybe-landed op" (server.ts settleMirror): what the session has drawn
\* on-chain, or may still draw with an op in the mempool, is charged or reserved off-chain.
MayLand(p) == {i \in DOMAIN ops : ops[i].perm = p /\ ops[i].status # "reverted"}
NeverUnderCounts ==
    \A p \in Perms :
        BootFile[p].spentTotal + SumFunction([i \in MayLand(p) |-> Draw(ops[i])])
            <= records[p].spentTotal + inflight[p].spend

IsPrefixOf(s, t) == Len(s) <= Len(t) /\ \A i \in DOMAIN s : s[i] = t[i]

\* A revoke that was answered with 200 is in the file, whatever fails or restarts later
\* (server.ts revoke/submit).
AckedRevokeDurable ==
    \A h \in Handlers :
        Kind(h) = "revoke" /\ req[h].reply = "ok" => disk[Request[h].perm].status = "revoked"

\* The file's history is append-only: no step, a crash included, un-revokes a session or takes
\* back a charge that was written (copySession.ts grant, recordMirror, constructor).
FileHistoryGrows ==
    [][\A p \in Perms :
        /\ disk[p].status = "revoked" => disk'[p].status = "revoked"
        /\ disk[p].spentTotal <= disk'[p].spentTotal
        /\ IsPrefixOf(disk[p].mirroredTx, disk'[p].mirroredTx)]_vars

\* The owner's revoke request for p has reached the bundler, or died on the way.
OwnerRevokes(p) ==
    \E h \in Handlers : Kind(h) = "revoke" /\ Request[h].perm = p /\ req[h].phase \notin {"idle", "relay"}

\* A removal of the on-chain session has been sent at some time.
Removing(p) == session[p] \in {"removing", "removed", "renewed"}

\* "self-heal: on-chain gone" (server.ts list): a session is marked revoked only when its
\* on-chain session was removed or the owner asked for it; neither a failing read ("FAIL-SAFE",
\* mirror.ts isSessionEnabledOnChain) nor an enable that has not landed yet ends a session.
EndedOnlyByRemoval ==
    \A p \in Perms : records[p].status = "revoked" =>
        Removing(p) \/ OwnerRevokes(p) \/ BootFile[p].status = "revoked"

\* Every request is answered unless the process dies under it (server.ts handle).
RequestsFinish ==
    \A h \in Handlers : req[h].phase # "idle" ~> req[h].phase \in {"done", "dead"}

\* Every reservation of an accepted op is settled, left for reconciliation or lost in a crash;
\* one whose op landed is charged unless polling gave up or the process died (settleMirror).
LandedIsCharged ==
    \A i \in 1 .. MaxOps :
        (i \in DOMAIN ops /\ ops[i].watch = "polling" /\ ops[i].status = "success")
            ~> /\ i \in DOMAIN ops
               /\ \/ ops[i].key \in Mirrored(records[ops[i].perm])
                  \/ ops[i].watch \in {"none", "gaveup"}

\* The registry is a budget ledger.
Ledger == INSTANCE MirrorLedger WITH
    Limit   <- [p \in Perms |-> Cap(p)],
    Opening <- [p \in Perms |-> [charged |-> Mirrored(BootFile[p]), used |-> BootFile[p].spentTotal]],
    charged <- [p \in Perms |-> Mirrored(records[p])],
    held    <- [p \in Perms |-> inflight[p].txs],
    used    <- [p \in Perms |-> records[p].spentTotal]

\* The detailed system implements the ledger: keys are charged once, after a hold, within the
\* budget, and a charge is final even across restarts (copySession.ts).
ImplementsLedger == Ledger!Spec
=============================================================================
