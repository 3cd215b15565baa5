--------------------------- MODULE StrategySessions ---------------------------
(***************************************************************************)
(* Strategy sessions of aa-trigger: StrategySessionRegistry                *)
(* (strategyRegistry.ts), prepareStrategySession (strategyService.ts) and  *)
(* the /v1/strategy endpoints of server.ts, against the owner's app and    *)
(* the SmartSessions module on-chain.                                      *)
(*                                                                         *)
(* As in CopyTrading a request is a one-shot process and turn names the    *)
(* one whose synchronous section is running.  Request[h] is one of         *)
(*   [kind |-> "prepare", perm]         perm is the id its fresh salt gives*)
(*   [kind |-> "grant", perm]                                              *)
(*   [kind |-> "pause", perm, paused]   pause or resume                    *)
(*   [kind |-> "list", account]                                            *)
(*   [kind |-> "revoke", perm]          the submit phase                   *)
(* The caps a prepare derives are the subject of StrategyPlan.             *)
(***************************************************************************)
EXTENDS Integers, FiniteSets

CONSTANTS
    Perms,              \* permissionIds
    Account,            \* permissionId -> the account it is prepared for
    Handlers,           \* requests the service receives
    Request,            \* what each of them asks for
    BootFile,           \* strategy-sessions.json when the service first starts
    BootEnabled,        \* sessions enabled on-chain at the start
    DiskFaults,         \* TRUE when writing the file may throw
    GrantAfterLanding,  \* TRUE when the app reports the grant only after the enable landed
    MaxCrashes,         \* bound on process crashes
    Nobody              \* no request holds the event loop

VARIABLES
    records,   \* StrategySessionRegistry.records
    disk,      \* the JSON file
    keychain,  \* sessions whose key is in the Keychain
    req,       \* request -> its handler's local state
    turn,      \* the request whose synchronous section is running
    session,   \* permissionId -> state of the session on-chain
    crashes    \* crashes so far

regVars == <<records, disk>>
envVars == <<session, crashes>>
vars == <<regVars, keychain, req, turn, envVars>>

Statuses == {"none", "prepared", "granted", "revoked"}
StrategyRecord == [status: Statuses, paused: BOOLEAN]
FreshRecord(status) == [status |-> status, paused |-> FALSE]

Targeted == {"prepare", "grant", "pause", "revoke"}

ASSUME RequestAssumption ==
    /\ \A h \in Handlers : \/ Request[h].kind \in Targeted /\ Request[h].perm \in Perms
                           \/ Request[h].kind = "list"
    /\ \A h \in Handlers : Request[h].kind = "pause" => Request[h].paused \in BOOLEAN
    /\ BootFile \in [Perms -> StrategyRecord]
    /\ MaxCrashes \in Nat
    /\ Nobody \notin Handlers

\* What lives on-chain at the start was recorded in an earlier run.
ASSUME BootAssumption == \A p \in Perms : p \in BootEnabled => BootFile[p].status # "none"

\* The salt of a prepare is fresh: its permissionId is nobody else's.
ASSUME SaltAssumption ==
    \A h \in Handlers : Request[h].kind = "prepare" =>
        /\ BootFile[Request[h].perm].status = "none"
        /\ \A g \in Handlers : Request[g].kind = "prepare" /\ Request[g].perm = Request[h].perm => g = h

Phases == {"idle", "quote", "read", "apply", "relay", "relayed", "done", "dead"}

HandlerState ==
    [phase: Phases,
     fan: SUBSET Perms,   \* list: sessions whose on-chain read is out
     gone: SUBSET Perms,  \* list: sessions read as disabled
     reply: {"none", "ok", "error"}]

Idle == [phase |-> "idle", fan |-> {}, gone |-> {}, reply |-> "none"]

Finished(reply) == [Idle EXCEPT !.phase = "done", !.reply = reply]
Answer(ok) == Finished(IF ok THEN "ok" ELSE "error")

\* "renewed" is a session enabled again after a removal.
SessionStates == {"absent", "enabled", "removing", "removed", "renewed"}
SessionLive(p) == session[p] \in {"enabled", "removing", "renewed"}

WriteOutcomes == IF DiskFaults THEN BOOLEAN ELSE {TRUE}

Kind(h) == Request[h].kind
Perm(h) == Request[h].perm
Free == turn = Nobody
Runs(h, phase) == turn = h /\ req[h].phase = phase
Awaits(h, phase) == Free /\ req[h].phase = phase
Arrives(h, kind) == Free /\ req[h].phase = "idle" /\ Kind(h) = kind
Becomes(h, s) == req' = [req EXCEPT ![h] = s]

Init ==
    /\ records = BootFile
    /\ disk = BootFile
    /\ keychain = {p \in Perms : BootFile[p].status # "none"}
    /\ req = [h \in Handlers |-> Idle]
    /\ turn = Nobody
    /\ session = [p \in Perms |-> IF p \in BootEnabled THEN "enabled" ELSE "absent"]
    /\ crashes = 0

\* A permissionId hashes a random salt: only the answer of its prepare makes it known.
Answered(p) ==
    \/ BootFile[p].status # "none"
    \/ \E h \in Handlers : Kind(h) = "prepare" /\ Perm(h) = p /\ req[h].reply = "ok"

\* The session the request names is one its sender was given, or one the service does not have.
Names(h) == records[Perm(h)].status # "none" => Answered(Perm(h))

-----------------------------------------------------------------------------
(* StrategySessionRegistry.                                                *)

Upsert(p, r, ok) ==
    /\ records' = [records EXCEPT ![p] = r]
    /\ disk' = IF ok THEN [records EXCEPT ![p] = r] ELSE disk

RecordPrepared(p, ok) == Upsert(p, FreshRecord("prepared"), ok)

Grantable(p) == records[p].status \notin {"none", "revoked"}

\* A grant that brings a revoked session back.
GrantAlways(p, ok) == Upsert(p, [records[p] EXCEPT !.status = "granted"], ok)

\* A grant that builds the record anew and loses the pause.
GrantAnew(p, ok) == Grantable(p) /\ Upsert(p, FreshRecord("granted"), ok)

Grant(p, ok) == Grantable(p) /\ Upsert(p, [records[p] EXCEPT !.status = "granted"], ok)

SetPaused(p, paused, ok) == Upsert(p, [records[p] EXCEPT !.paused = paused], ok)

Revoke(p, ok) == Upsert(p, [records[p] EXCEPT !.status = "revoked"], ok)

ViewByFollower(a) == {p \in Perms : records[p].status = "granted" /\ Account[p] = a}

-----------------------------------------------------------------------------
(* POST /v1/strategy/session/prepare.                                      *)

\* A malformed request, or a Keychain that refuses the new key.
PrepareRefused(h) ==
    /\ Arrives(h, "prepare")
    /\ Becomes(h, Finished("error"))
    /\ UNCHANGED <<regVars, keychain, turn, envVars>>

\* A service that provisions the key only when the session is granted.
PrepareWithoutKey(h) ==
    /\ Arrives(h, "prepare")
    /\ Becomes(h, [req[h] EXCEPT !.phase = "quote"])
    /\ UNCHANGED <<regVars, keychain, turn, envVars>>

\* The key is in the Keychain before the quotes are asked for.
PrepareArrives(h) ==
    /\ Arrives(h, "prepare")
    /\ keychain' = keychain \union {Perm(h)}
    /\ Becomes(h, [req[h] EXCEPT !.phase = "quote"])
    /\ UNCHANGED <<regVars, turn, envVars>>

\* A quote or the derivation of the caps throws: the key stays.
PrepareThrows(h) ==
    /\ Awaits(h, "quote")
    /\ Becomes(h, Finished("error"))
    /\ UNCHANGED <<regVars, keychain, turn, envVars>>

\* An answer given although the record could not be written.
PrepareRecordsAnyway(h, ok) ==
    /\ Awaits(h, "quote")
    /\ RecordPrepared(Perm(h), ok)
    /\ Becomes(h, Finished("ok"))
    /\ UNCHANGED <<keychain, turn, envVars>>

\* The last quote is in: caps, legs, record and answer without another await.
PrepareRecords(h, ok) ==
    /\ Awaits(h, "quote")
    /\ RecordPrepared(Perm(h), ok)
    /\ Becomes(h, Answer(ok))
    /\ UNCHANGED <<keychain, turn, envVars>>

-----------------------------------------------------------------------------
(* POST .../grant, .../pause, .../resume: one synchronous section each.    *)

GrantRefused(h) ==
    /\ Arrives(h, "grant") /\ Names(h)
    /\ ~Grantable(Perm(h))
    /\ Becomes(h, Finished("error"))
    /\ UNCHANGED <<regVars, keychain, turn, envVars>>

GrantRecords(h, ok) ==
    /\ Arrives(h, "grant") /\ Names(h)
    /\ GrantAfterLanding => session[Perm(h)] # "absent"
    /\ Grant(Perm(h), ok)
    /\ Becomes(h, Answer(ok))
    /\ UNCHANGED <<keychain, turn, envVars>>

PauseRefused(h) ==
    /\ Arrives(h, "pause") /\ Names(h)
    /\ records[Perm(h)].status = "none"
    /\ Becomes(h, Finished("error"))
    /\ UNCHANGED <<regVars, keychain, turn, envVars>>

PauseRecords(h, ok) ==
    /\ Arrives(h, "pause") /\ Names(h)
    /\ records[Perm(h)].status # "none"
    /\ SetPaused(Perm(h), Request[h].paused, ok)
    /\ Becomes(h, Answer(ok))
    /\ UNCHANGED <<keychain, turn, envVars>>

-----------------------------------------------------------------------------
(* GET /v1/strategy/sessions.                                              *)

ListArrives(h) ==
    /\ Arrives(h, "list")
    /\ Becomes(h, [req[h] EXCEPT !.phase = "read", !.fan = ViewByFollower(Request[h].account)])
    /\ UNCHANGED <<regVars, keychain, turn, envVars>>

\* A read that takes a transient failure for a session that is gone.
ListReadsFailClosed(h, p, failed) ==
    /\ req[h].phase = "read"
    /\ p \in req[h].fan
    /\ Becomes(h, [req[h] EXCEPT !.fan = @ \ {p},
                                 !.gone = IF SessionLive(p) /\ ~failed THEN @ ELSE @ \union {p}])
    /\ UNCHANGED <<regVars, keychain, turn, envVars>>

\* One of the concurrent isSessionEnabled reads; a failing one counts as enabled.
ListReads(h, p, failed) ==
    /\ req[h].phase = "read"
    /\ p \in req[h].fan
    /\ Becomes(h, [req[h] EXCEPT !.fan = @ \ {p},
                                 !.gone = IF failed \/ SessionLive(p) THEN @ ELSE @ \union {p}])
    /\ UNCHANGED <<regVars, keychain, turn, envVars>>

ListResumes(h) ==
    /\ Awaits(h, "read")
    /\ req[h].fan = {}
    /\ Becomes(h, [req[h] EXCEPT !.phase = "apply"])
    /\ turn' = h
    /\ UNCHANGED <<regVars, keychain, envVars>>

ListRevokes(h, p, ok) ==
    /\ Runs(h, "apply")
    /\ p \in req[h].gone
    /\ Revoke(p, ok)
    /\ Becomes(h, IF ok THEN [req[h] EXCEPT !.gone = @ \ {p}] ELSE Finished("error"))
    /\ turn' = IF ok THEN turn ELSE Nobody
    /\ UNCHANGED <<keychain, envVars>>

ListReplies(h) ==
    /\ Runs(h, "apply")
    /\ req[h].gone = {}
    /\ Becomes(h, Finished("ok"))
    /\ turn' = Nobody
    /\ UNCHANGED <<regVars, keychain, envVars>>

-----------------------------------------------------------------------------
(* POST .../revoke/submit.                                                 *)

RevokeArrives(h) ==
    /\ Arrives(h, "revoke") /\ Names(h)
    /\ Becomes(h, IF records[Perm(h)].status = "none" THEN Finished("error")
                  ELSE [req[h] EXCEPT !.phase = "relay"])
    /\ UNCHANGED <<regVars, keychain, turn, envVars>>

\* The bundler accepts the op of the request: the owner's removeSession, not mined yet, or any
\* other op, since the handler relays what the app sent without reading it.
OpAccepted(h) ==
    /\ req[h].phase = "relay"
    /\ \/ session' = [session EXCEPT ![Perm(h)] = IF @ \in {"enabled", "renewed"} THEN "removing" ELSE @]
       \/ UNCHANGED session
    /\ Becomes(h, [req[h] EXCEPT !.phase = "relayed"])
    /\ UNCHANGED <<regVars, keychain, turn, crashes>>

\* The op is refused, or its answer is lost.
RelayThrows(h) ==
    /\ Awaits(h, "relay") \/ Awaits(h, "relayed")
    /\ Becomes(h, Finished("error"))
    /\ UNCHANGED <<regVars, keychain, turn, envVars>>

RelayReturns(h, ok) ==
    /\ Awaits(h, "relayed")
    /\ Revoke(Perm(h), ok)
    /\ Becomes(h, Answer(ok))
    /\ UNCHANGED <<keychain, turn, envVars>>

-----------------------------------------------------------------------------
(* The owner's app and the chain; a crash of the process.                  *)

\* The owner's enable of a prepared session, or of one that was removed.
EnableMined(p) ==
    /\ Answered(p)
    /\ session[p] \in {"absent", "removed"}
    /\ session' = [session EXCEPT ![p] = IF @ = "absent" THEN "enabled" ELSE "renewed"]
    /\ UNCHANGED <<regVars, keychain, req, turn, crashes>>

OwnerRemoves(p) ==
    /\ session[p] \in {"enabled", "renewed"}
    /\ session' = [session EXCEPT ![p] = "removing"]
    /\ UNCHANGED <<regVars, keychain, req, turn, crashes>>

RemovalMined(p) ==
    /\ session[p] = "removing"
    /\ session' = [session EXCEPT ![p] = "removed"]
    /\ UNCHANGED <<regVars, keychain, req, turn, crashes>>

Crash ==
    /\ crashes < MaxCrashes
    /\ crashes' = crashes + 1
    /\ records' = disk
    /\ req' = [h \in Handlers |-> IF req[h].phase \in {"idle", "done", "dead"} THEN req[h]
                                  ELSE [Idle EXCEPT !.phase = "dead"]]
    /\ turn' = Nobody
    /\ UNCHANGED <<disk, keychain, session>>

-----------------------------------------------------------------------------
PrepareStep(h) ==
    PrepareRefused(h) \/ PrepareArrives(h) \/ PrepareThrows(h) \/ \E ok \in WriteOutcomes : PrepareRecords(h, ok)

ShortStep(h) ==
    \/ GrantRefused(h) \/ PauseRefused(h)
    \/ \E ok \in WriteOutcomes : GrantRecords(h, ok) \/ PauseRecords(h, ok)

ListStep(h) ==
    \/ ListArrives(h) \/ ListResumes(h) \/ ListReplies(h)
    \/ \E p \in Perms, failed \in BOOLEAN : ListReads(h, p, failed)
    \/ \E p \in Perms, ok \in WriteOutcomes : ListRevokes(h, p, ok)

RevokeStep(h) ==
    \/ RevokeArrives(h) \/ OpAccepted(h) \/ RelayThrows(h)
    \/ \E ok \in WriteOutcomes : RelayReturns(h, ok)

RequestStep(h) == PrepareStep(h) \/ ShortStep(h) \/ ListStep(h) \/ RevokeStep(h)

ChainStep == \E p \in Perms : EnableMined(p) \/ OwnerRemoves(p) \/ RemovalMined(p)

Next == (\E h \in Handlers : RequestStep(h)) \/ ChainStep \/ Crash

Spec == Init /\ [][Next]_vars

-----------------------------------------------------------------------------
(* Properties.                                                             *)

\* Every variable has its type, and no session is recorded without its key.
TypeOK ==
    /\ records \in [Perms -> StrategyRecord]
    /\ disk \in [Perms -> StrategyRecord]
    /\ keychain \subseteq Perms
    /\ \A p \in Perms : records[p].status # "none" => p \in keychain
    /\ req \in [Handlers -> HandlerState]
    /\ turn \in Handlers \union {Nobody}
    /\ session \in [Perms -> SessionStates]
    /\ crashes \in 0 .. MaxCrashes

OwnerRevokes(p) ==
    \E h \in Handlers : Kind(h) = "revoke" /\ Perm(h) = p /\ req[h].phase \notin {"idle", "relay"}

\* A removal of the on-chain session has been sent at some time.
Removing(p) == session[p] \in {"removing", "removed", "renewed"}

\* "self-heal: on-chain gone -> revoked" (server.ts list): a session is marked revoked only when
\* its on-chain session was removed or the owner asked for it; neither a failing read nor an
\* enable that has not landed yet ends a session.
EndedOnlyByRemoval ==
    \A p \in Perms : records[p].status = "revoked" =>
        Removing(p) \/ OwnerRevokes(p) \/ BootFile[p].status = "revoked"

\* Every session that lives on-chain is in the file, so that the owner can list and revoke it
\* after any restart: an id gets out of prepare only once its record is written
\* (strategyService.ts prepareStrategySession).
EnabledIsRecorded == \A p \in Perms : session[p] # "absent" => disk[p].status # "none"

Resumes(p) == {h \in Handlers : Kind(h) = "pause" /\ Perm(h) = p /\ ~Request[h].paused}

\* An acknowledged pause survives grants, self-heals, failed writes and restarts until
\* somebody resumes (strategyRegistry.ts setPaused, grant).
AckedPauseDurable ==
    \A h \in Handlers :
        /\ Kind(h) = "pause" /\ Request[h].paused /\ req[h].reply = "ok"
        /\ \A g \in Resumes(Perm(h)) : req[g].phase = "idle"
        => disk[Perm(h)].paused

\* The furthest stage of p that an answer has reported.
Told(p) ==
    LET said == {Kind(h) : h \in {g \in Handlers : req[g].reply = "ok" /\ Kind(g) # "list" /\ Perm(g) = p}}
    IN  IF "revoke" \in said THEN "revoked"
        ELSE IF "grant" \in said THEN "granted"
        ELSE IF "prepare" \in said THEN "prepared"
        ELSE "none"

Lifecycle == INSTANCE SessionLifecycle WITH
    Opening <- [p \in Perms |-> BootFile[p].status],
    stored  <- [p \in Perms |-> disk[p].status],
    told    <- [p \in Perms |-> Told(p)]

\* The registry file walks through the promised stages only, and no client is told of a stage
\* that is not in the file, whatever writes fail and whenever the process dies
\* (strategyRegistry.ts grant, revoke, persist).
ImplementsLifecycle == Lifecycle!Spec
=============================================================================
