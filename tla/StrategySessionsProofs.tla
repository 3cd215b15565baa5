----------------------- MODULE StrategySessionsProofs -----------------------
(***************************************************************************)
(* Proofs about StrategySessions: it implements SessionLifecycle, keeps    *)
(* acknowledged pauses and every session that lives on-chain, and ends a   *)
(* session only when it is gone, for all requests, failing writes and      *)
(* crashes.                                                                *)
(***************************************************************************)
EXTENDS StrategySessions, TLAPS

-----------------------------------------------------------------------------
(* The invariant.                                                          *)

After(stage) == Lifecycle!After[stage]

\* The session is in the file.
Stored(p) == disk[p].status # "none"

\* What an answer to a request of this kind says about the file.
Reported(kind) ==
    IF kind = "revoke" THEN {"revoked"}
    ELSE IF kind = "grant" THEN {"granted", "revoked"}
    ELSE {"prepared", "granted", "revoked"}

HandlerOK(h) ==
    /\ req[h].phase = "quote" => Kind(h) = "prepare" /\ Perm(h) \in keychain
    /\ req[h].phase \in {"read", "apply"} => Kind(h) = "list"
    /\ req[h].phase \in {"relay", "relayed"} => Kind(h) = "revoke" /\ Stored(Perm(h))
    /\ \A p \in req[h].fan \union req[h].gone : Stored(p)
    /\ Kind(h) = "prepare" /\ req[h].phase \in {"idle", "quote"} => records[Perm(h)].status = "none"
    /\ req[h].reply # "none" => req[h].phase = "done"
    /\ req[h].reply = "ok" /\ Kind(h) # "list" => disk[Perm(h)].status \in Reported(Kind(h))

\* The Map is at most one promised move ahead of the file.
FileFollows ==
    /\ \A p \in Perms : records[p].status \in After(disk[p].status)
    /\ \A p \in Perms : BootFile[p].status # "none" => Stored(p)

IInv == TypeOK /\ FileFollows /\ EnabledIsRecorded /\ \A h \in Handlers : HandlerOK(h)

LEMMA Stages ==
    /\ After("none") = {"none", "prepared"}
    /\ After("prepared") = {"prepared", "granted", "revoked"}
    /\ After("granted") = {"granted", "revoked"}
    /\ After("revoked") = {"revoked"}
BY DEF After, Lifecycle!After

LEMMA AfterStays ==
    /\ \A a \in Statuses : a \in After(a) /\ After(a) \subseteq Statuses
    /\ \A a, b, c \in Statuses : a # "none" /\ b \in After(a) /\ c \in After(b) => c \in After(a)
    /\ \A a, b \in Statuses : b \in After(a) /\ a # "none" => b # "none"
    /\ \A a, b \in Statuses : \A k : a \in Reported(k) /\ b \in After(a) => b \in Reported(k)
BY Stages DEF Statuses, Reported

LEMMA PermType == ASSUME NEW h \in Handlers, Kind(h) # "list" PROVE Perm(h) \in Perms /\ Kind(h) \in Targeted
BY RequestAssumption DEF Kind, Perm

-----------------------------------------------------------------------------
(* What a step does to the registry.                                       *)

Rests == UNCHANGED <<records, disk>>

\* A record is written: of a session in the file, or the first one.
Writes(p, r, ok) ==
    /\ Upsert(p, r, ok)
    /\ r.status \in After(records[p].status)
    /\ records[p].status = "none" \/ Stored(p)

FileMoves ==
    /\ FileFollows'
    /\ \A p \in Perms : disk'[p].status \in After(disk[p].status)

LEMMA StatusType ==
    ASSUME TypeOK
    PROVE  \A p \in Perms : records[p].status \in Statuses /\ disk[p].status \in Statuses
BY DEF TypeOK, StrategyRecord

LEMMA RestsMoves == ASSUME TypeOK, FileFollows, Rests PROVE FileMoves
BY StatusType, AfterStays DEF Rests, FileMoves, FileFollows, Stored

LEMMA WritesMoves ==
    ASSUME TypeOK, FileFollows, NEW p \in Perms, NEW r \in StrategyRecord, NEW ok, Writes(p, r, ok)
    PROVE  /\ FileMoves
           /\ records' \in [Perms -> StrategyRecord] /\ disk' \in [Perms -> StrategyRecord]
           /\ records'[p] = r /\ \A q \in Perms : q # p => records'[q] = records[q]
           /\ disk' = IF ok THEN records' ELSE disk
<1>1. /\ records' \in [Perms -> StrategyRecord] /\ disk' \in [Perms -> StrategyRecord]
      /\ records'[p] = r /\ \A q \in Perms : q # p => records'[q] = records[q]
      /\ disk' = IF ok THEN records' ELSE disk
  BY DEF Writes, Upsert, TypeOK
<1>2. r.status \in Statuses
  BY DEF StrategyRecord
<1>3. records[p].status = "none" => disk[p].status = "none"
  BY StatusType, AfterStays DEF FileFollows
<1>4. r.status \in After(disk[p].status)
  <2>1. CASE records[p].status = "none"
    BY <1>3, <2>1 DEF Writes
  <2>2. CASE Stored(p)
    BY <1>2, <2>2, StatusType, AfterStays DEF Writes, FileFollows, Stored
  <2> QED
    BY <2>1, <2>2 DEF Writes
<1>5. \A q \in Perms : records'[q].status \in After(disk[q].status)
  BY <1>1, <1>4 DEF FileFollows
<1>6. \A q \in Perms : records'[q].status \in Statuses /\ records'[q].status \in After(records'[q].status)
  BY <1>1, AfterStays DEF StrategyRecord
<1>7. \A q \in Perms : Stored(q) => records'[q].status # "none"
  BY <1>5, <1>6, StatusType, AfterStays DEF Stored
<1>8. disk' = records' \/ disk' = disk
  BY <1>1
<1>9. FileMoves
  BY <1>5, <1>6, <1>7, <1>8, StatusType, AfterStays DEF FileMoves, FileFollows, Stored
<1> QED
  BY <1>1, <1>9

\* A session in the file stays there, and what was reported stays true.
LEMMA MovesKeep ==
    ASSUME TypeOK, TypeOK', FileMoves
    PROVE  /\ \A p \in Perms : Stored(p) => Stored(p)'
           /\ \A p \in Perms : \A k : disk[p].status \in Reported(k) => disk'[p].status \in Reported(k)
<1>1. \A p \in Perms : disk[p].status \in Statuses /\ disk'[p].status \in Statuses
  BY DEF TypeOK, StrategyRecord
<1> QED
  BY <1>1, AfterStays DEF FileMoves, Stored

-----------------------------------------------------------------------------
(* A step of one request.                                                  *)

\* The variables that no proof step below has to look into.
EnvTyped ==
    turn \in Handlers \union {Nobody} /\ session \in [Perms -> SessionStates] /\ crashes \in 0 .. MaxCrashes

\* Whatever lived or lives on-chain is in the file.
ChainMoves == \A p \in Perms : session'[p] # "absent" => session[p] # "absent" \/ Stored(p)

\* Request h goes to state s; a record that was missing is only written for h itself, at its end.
StepOf(h, s) ==
    /\ Becomes(h, s)
    /\ keychain \subseteq keychain' /\ keychain' \subseteq Perms
    /\ EnvTyped' /\ ChainMoves
    /\ \/ Rests
       \/ \E p \in Perms, r \in StrategyRecord, ok \in BOOLEAN :
              /\ Writes(p, r, ok) /\ p \in keychain'
              /\ records[p].status = "none" => Kind(h) = "prepare" /\ Perm(h) = p

LEMMA StepKeeps ==
    ASSUME IInv, NEW h \in Handlers, NEW s \in HandlerState, StepOf(h, s), HandlerOK(h)'
    PROVE  IInv' /\ FileMoves
<1>0. /\ TypeOK /\ FileFollows /\ req \in [Handlers -> HandlerState]
      /\ records \in [Perms -> StrategyRecord] /\ disk \in [Perms -> StrategyRecord]
      /\ \A p \in Perms : records[p].status # "none" => p \in keychain
  BY DEF IInv, TypeOK
<1>1. /\ FileMoves /\ records' \in [Perms -> StrategyRecord] /\ disk' \in [Perms -> StrategyRecord]
      /\ \A p \in Perms : records'[p].status # "none" => p \in keychain'
      /\ \A p \in Perms : records[p].status = "none" /\ ~(Kind(h) = "prepare" /\ Perm(h) = p) => records'[p] = records[p]
  <2>1. CASE Rests
    BY <1>0, <2>1, RestsMoves DEF Rests, StepOf
  <2>2. ASSUME NEW p \in Perms, NEW r \in StrategyRecord, NEW ok \in BOOLEAN, Writes(p, r, ok), p \in keychain',
               records[p].status = "none" => Kind(h) = "prepare" /\ Perm(h) = p
        PROVE  /\ FileMoves /\ records' \in [Perms -> StrategyRecord] /\ disk' \in [Perms -> StrategyRecord]
               /\ \A q \in Perms : records'[q].status # "none" => q \in keychain'
               /\ \A q \in Perms : records[q].status = "none" /\ ~(Kind(h) = "prepare" /\ Perm(h) = q) => records'[q] = records[q]
    BY <1>0, <2>2, WritesMoves DEF StepOf
  <2> QED
    BY <2>1, <2>2 DEF StepOf
<1>2. TypeOK'
  BY <1>0, <1>1 DEF TypeOK, StepOf, EnvTyped, Becomes
<1>3. /\ \A p \in Perms : Stored(p) => Stored(p)'
      /\ \A p \in Perms : \A k : disk[p].status \in Reported(k) => disk'[p].status \in Reported(k)
  BY <1>0, <1>1, <1>2, MovesKeep
<1>4. ASSUME NEW g \in Handlers, g # h PROVE HandlerOK(g)'
  <2>1. HandlerOK(g) /\ req'[g] = req[g] /\ req[g] \in HandlerState
    BY <1>0, <1>4 DEF IInv, StepOf, Becomes
  <2>2. Kind(g) # "list" => Perm(g) \in Perms
    BY PermType
  <2>3. Kind(g) = "prepare" => ~(Kind(h) = "prepare" /\ Perm(h) = Perm(g))
    BY <1>4, SaltAssumption DEF Kind, Perm
  <2>4. Kind(g) = "prepare" /\ req[g].phase \in {"idle", "quote"} => records'[Perm(g)].status = "none"
    BY <1>1, <2>1, <2>2, <2>3 DEF HandlerOK
  <2>5. \A p \in req[g].fan \union req[g].gone : Stored(p)'
    BY <1>3, <2>1 DEF HandlerOK, HandlerState
  <2>6. keychain \subseteq keychain'
    BY DEF StepOf
  <2> QED
    BY <1>3, <2>1, <2>2, <2>4, <2>5, <2>6 DEF HandlerOK
<1>5. EnabledIsRecorded'
  BY <1>3 DEF StepOf, ChainMoves, IInv, EnabledIsRecorded, Stored
<1>6. \A g \in Handlers : HandlerOK(g)'
  BY <1>4
<1> QED
  BY <1>1, <1>2, <1>5, <1>6 DEF IInv, FileMoves

\* The parts of a step that leaves the registry, the Keychain and the environment alone.
Quiet(h, s) == Becomes(h, s) /\ UNCHANGED <<regVars, keychain, envVars>> /\ turn' \in {turn, h, Nobody}

LEMMA QuietStep == ASSUME IInv, NEW h \in Handlers, NEW s, Quiet(h, s) PROVE StepOf(h, s)
BY DEF IInv, TypeOK, Quiet, StepOf, Rests, EnvTyped, ChainMoves, regVars, envVars

\* The parts of a step that writes a record.
LEMMA WriteStep ==
    ASSUME IInv, NEW h \in Handlers, NEW s, Becomes(h, s), UNCHANGED <<keychain, envVars>>, turn' \in {turn, h, Nobody},
           NEW p \in Perms, NEW r \in StrategyRecord, NEW ok \in BOOLEAN, Writes(p, r, ok), p \in keychain,
           records[p].status = "none" => Kind(h) = "prepare" /\ Perm(h) = p
    PROVE  StepOf(h, s)
BY DEF IInv, TypeOK, StepOf, EnvTyped, ChainMoves, envVars

\* A request that is refused or fails.
LEMMA ErrorKeeps == ASSUME IInv, NEW h \in Handlers, Quiet(h, Finished("error")) PROVE IInv' /\ FileMoves
<1>1. Finished("error") \in HandlerState
  BY DEF Finished, Idle, HandlerState, Phases
<1>2. req'[h] = Finished("error")
  BY DEF IInv, TypeOK, Quiet, Becomes
<1>3. HandlerOK(h)'
  BY <1>2 DEF HandlerOK, Finished, Idle
<1> QED
  BY <1>1, <1>3, QuietStep, StepKeeps

\* A request that ends with a written record, told to its sender when the write succeeded.
LEMMA AnswerKeeps ==
    ASSUME IInv, NEW h \in Handlers, Kind(h) # "list", NEW ok \in BOOLEAN, Becomes(h, Answer(ok)),
           UNCHANGED <<keychain, envVars>>, turn' \in {turn, h, Nobody},
           NEW r \in StrategyRecord, Writes(Perm(h), r, ok), Perm(h) \in keychain,
           records[Perm(h)].status = "none" => Kind(h) = "prepare",
           r.status \in Reported(Kind(h))
    PROVE  IInv' /\ FileMoves
<1>0. Perm(h) \in Perms /\ req \in [Handlers -> HandlerState] /\ TypeOK /\ FileFollows
  BY PermType DEF IInv, TypeOK
<1>1. Answer(ok) \in HandlerState
  BY DEF Answer, Finished, Idle, HandlerState, Phases
<1>2. /\ req'[h] = Answer(ok) /\ Answer(ok).phase = "done" /\ Answer(ok).fan = {} /\ Answer(ok).gone = {}
      /\ Answer(ok).reply = IF ok THEN "ok" ELSE "error"
  BY <1>0 DEF Becomes, Answer, Finished, Idle
<1>3. ok => disk'[Perm(h)].status \in Reported(Kind(h))
  BY <1>0, WritesMoves
<1>4. HandlerOK(h)'
  BY <1>2, <1>3 DEF HandlerOK, Kind, Perm, Reported
<1>5. StepOf(h, Answer(ok))
  BY <1>0, WriteStep
<1> QED
  BY <1>1, <1>4, <1>5, StepKeeps

LEMMA WritesBoolean == \A ok \in WriteOutcomes : ok \in BOOLEAN
BY DEF WriteOutcomes

LEMMA PrepareKeeps == ASSUME IInv, NEW h \in Handlers, PrepareStep(h) PROVE IInv' /\ FileMoves
<1>0. req \in [Handlers -> HandlerState] /\ HandlerOK(h) /\ req[h] \in HandlerState
  BY DEF IInv, TypeOK
<1>1. CASE PrepareRefused(h) \/ PrepareThrows(h)
  BY <1>1, ErrorKeeps DEF PrepareRefused, PrepareThrows, Quiet
<1>2. CASE PrepareArrives(h)
  <2> DEFINE s == [req[h] EXCEPT !.phase = "quote"]
  <2>1. s \in HandlerState /\ s.phase = "quote" /\ s.fan = req[h].fan /\ s.gone = req[h].gone /\ s.reply = req[h].reply
    BY <1>0 DEF HandlerState, Phases
  <2>2. Becomes(h, s) /\ Kind(h) = "prepare" /\ req[h].phase = "idle" /\ keychain' = keychain \union {Perm(h)}
          /\ UNCHANGED <<regVars, turn, envVars>>
    BY <1>2 DEF PrepareArrives, Arrives
  <2> HIDE DEF s
  <2>3. req'[h] = s
    BY <1>0, <2>2 DEF Becomes
  <2>4. HandlerOK(h)'
    BY <1>0, <2>1, <2>2, <2>3 DEF HandlerOK, Stored, regVars
  <2>5. StepOf(h, s)
    BY <2>2, PermType DEF StepOf, Rests, EnvTyped, ChainMoves, regVars, envVars, IInv, TypeOK
  <2> QED
    BY <2>1, <2>4, <2>5, StepKeeps
<1>3. ASSUME NEW ok \in WriteOutcomes, PrepareRecords(h, ok) PROVE IInv' /\ FileMoves
  <2>1. Kind(h) = "prepare" /\ records[Perm(h)].status = "none" /\ Perm(h) \in keychain
    BY <1>0, <1>3 DEF PrepareRecords, Awaits, HandlerOK
  <2>2. FreshRecord("prepared") \in StrategyRecord /\ FreshRecord("prepared").status = "prepared"
    BY DEF FreshRecord, StrategyRecord, Statuses
  <2>3. Writes(Perm(h), FreshRecord("prepared"), ok)
    BY <1>3, <2>1, <2>2, Stages DEF PrepareRecords, RecordPrepared, Writes
  <2> QED
    BY <1>3, <2>1, <2>2, <2>3, WritesBoolean, AnswerKeeps DEF PrepareRecords, Reported
<1> QED
  BY <1>1, <1>2, <1>3 DEF PrepareStep

\* A session the sender names is in the file, or the service does not have it.
LEMMA NamedIsStored == ASSUME IInv, NEW p \in Perms, Answered(p) PROVE Stored(p)
<1>1. CASE BootFile[p].status # "none"
  BY <1>1 DEF IInv, FileFollows
<1>2. ASSUME NEW h \in Handlers, Kind(h) = "prepare", Perm(h) = p, req[h].reply = "ok" PROVE Stored(p)
  BY <1>2 DEF IInv, HandlerOK, Reported, Stored
<1> QED
  BY <1>1, <1>2 DEF Answered

LEMMA ShortKeeps == ASSUME IInv, NEW h \in Handlers, ShortStep(h) PROVE IInv' /\ FileMoves
<1>0. TypeOK /\ FileFollows
  BY DEF IInv
<1>1. CASE GrantRefused(h) \/ PauseRefused(h)
  BY <1>1, ErrorKeeps DEF GrantRefused, PauseRefused, Quiet
<1>2. ASSUME Kind(h) \in {"grant", "pause"}, records[Perm(h)].status # "none", Names(h)
      PROVE  Perm(h) \in Perms /\ Stored(Perm(h)) /\ Perm(h) \in keychain /\ records[Perm(h)] \in StrategyRecord
  BY <1>0, <1>2, PermType, NamedIsStored DEF Names, TypeOK
<1>3. ASSUME NEW ok \in WriteOutcomes, GrantRecords(h, ok) PROVE IInv' /\ FileMoves
  <2> DEFINE r == [records[Perm(h)] EXCEPT !.status = "granted"]
  <2>1. /\ Kind(h) = "grant" /\ Names(h) /\ records[Perm(h)].status \notin {"none", "revoked"}
        /\ Upsert(Perm(h), r, ok) /\ Becomes(h, Answer(ok)) /\ UNCHANGED <<keychain, turn, envVars>>
    BY <1>3 DEF GrantRecords, Grant, Grantable, Arrives
  <2>2. Perm(h) \in Perms /\ Stored(Perm(h)) /\ Perm(h) \in keychain /\ records[Perm(h)] \in StrategyRecord
    BY <1>2, <2>1
  <2>3. r \in StrategyRecord /\ r.status = "granted"
    BY <2>2 DEF StrategyRecord, Statuses
  <2> HIDE DEF r
  <2>4. records[Perm(h)].status \in {"prepared", "granted"}
    BY <2>1, <2>2 DEF StrategyRecord, Statuses
  <2>5. Writes(Perm(h), r, ok)
    BY <2>1, <2>2, <2>3, <2>4, Stages DEF Writes
  <2> QED
    BY <2>1, <2>2, <2>3, <2>5, WritesBoolean, AnswerKeeps DEF Reported
<1>4. ASSUME NEW ok \in WriteOutcomes, PauseRecords(h, ok) PROVE IInv' /\ FileMoves
  <2> DEFINE r == [records[Perm(h)] EXCEPT !.paused = Request[h].paused]
  <2>1. /\ Kind(h) = "pause" /\ Names(h) /\ records[Perm(h)].status # "none"
        /\ Upsert(Perm(h), r, ok) /\ Becomes(h, Answer(ok)) /\ UNCHANGED <<keychain, turn, envVars>>
    BY <1>4 DEF PauseRecords, SetPaused, Arrives
  <2>2. Perm(h) \in Perms /\ Stored(Perm(h)) /\ Perm(h) \in keychain /\ records[Perm(h)] \in StrategyRecord
    BY <1>2, <2>1
  <2>3. r \in StrategyRecord /\ r.status = records[Perm(h)].status
    BY <2>1, <2>2, RequestAssumption DEF StrategyRecord, Kind
  <2> HIDE DEF r
  <2>4. records[Perm(h)].status \in Statuses
    BY <2>2 DEF StrategyRecord
  <2>5. Writes(Perm(h), r, ok)
    BY <2>1, <2>2, <2>3, <2>4, AfterStays DEF Writes
  <2> QED
    BY <2>1, <2>2, <2>3, <2>4, <2>5, WritesBoolean, AnswerKeeps DEF Reported, Statuses
<1> QED
  BY <1>1, <1>3, <1>4 DEF ShortStep

\* What is in the file is in the Map, where it can still be revoked.
LEMMA StoredRevocable ==
    ASSUME IInv, NEW p \in Perms, Stored(p)
    PROVE  /\ p \in keychain /\ records[p].status # "none"
           /\ [records[p] EXCEPT !.status = "revoked"] \in StrategyRecord
           /\ \A ok : Revoke(p, ok) => Writes(p, [records[p] EXCEPT !.status = "revoked"], ok)
<1>0. TypeOK /\ FileFollows /\ records[p] \in StrategyRecord
  BY DEF IInv, TypeOK
<1>1. records[p].status \in Statuses \ {"none"}
  BY <1>0, StatusType, AfterStays DEF FileFollows, Stored
<1>2. p \in keychain
  BY <1>0, <1>1 DEF TypeOK
<1>3. "revoked" \in After(records[p].status)
  BY <1>1, Stages DEF Statuses
<1> DEFINE r == [records[p] EXCEPT !.status = "revoked"]
<1>4. r \in StrategyRecord /\ r.status = "revoked"
  BY <1>0 DEF StrategyRecord, Statuses
<1>5. \A ok : Revoke(p, ok) => Upsert(p, r, ok)
  BY DEF Revoke
<1> HIDE DEF r
<1>6. \A ok : Revoke(p, ok) => Writes(p, r, ok)
  BY <1>3, <1>4, <1>5 DEF Writes
<1>7. p \in keychain /\ records[p].status # "none"
  BY <1>1, <1>2
<1> QED
  BY <1>4, <1>6, <1>7 DEF r

\* A read or reply that leaves everything but the request alone.
LEMMA ListQuiet ==
    ASSUME IInv, NEW h \in Handlers, NEW s \in HandlerState, Quiet(h, s), Kind(h) = "list",
           s.phase \in {"read", "apply", "done"}, s.reply # "none" => s.phase = "done",
           \A p \in s.fan \union s.gone : Stored(p)
    PROVE  IInv' /\ FileMoves
<1>1. req'[h] = s
  BY DEF IInv, TypeOK, Quiet, Becomes
<1>2. HandlerOK(h)'
  BY <1>1 DEF HandlerOK, Quiet, regVars, Stored, Kind, Perm
<1> QED
  BY <1>2, QuietStep, StepKeeps

LEMMA ListKeeps == ASSUME IInv, NEW h \in Handlers, ListStep(h) PROVE IInv' /\ FileMoves
<1>0. /\ TypeOK /\ FileFollows /\ HandlerOK(h)
      /\ req \in [Handlers -> HandlerState] /\ req[h] \in HandlerState
  BY DEF IInv, TypeOK
<1>1. CASE ListArrives(h)
  <2> DEFINE f == ViewByFollower(Request[h].account)
             s == [req[h] EXCEPT !.phase = "read", !.fan = f]
  <2>1. f \subseteq Perms /\ \A p \in f : records[p].status = "granted"
    BY DEF ViewByFollower
  <2>2. \A p \in f : Stored(p)
    <3>1. ASSUME NEW p \in f PROVE Stored(p)
      <4>1. p \in Perms /\ records[p].status = "granted" /\ records[p].status \in After(disk[p].status)
        BY <1>0, <2>1 DEF FileFollows
      <4> QED
        BY <4>1, Stages DEF Stored
    <3> QED
      BY <3>1
  <2>3. Kind(h) = "list" /\ req[h].phase = "idle" /\ req[h].reply = "none"
    BY <1>0, <1>1 DEF ListArrives, Arrives, HandlerOK
  <2>4. s \in HandlerState /\ s.phase = "read" /\ s.fan = f /\ s.gone = req[h].gone /\ s.reply = "none"
    BY <1>0, <2>1, <2>3 DEF HandlerState, Phases
  <2>5. Quiet(h, s)
    BY <1>1 DEF ListArrives, Quiet
  <2> HIDE DEF s, f
  <2>6. \A p \in s.fan \union s.gone : Stored(p)
    BY <1>0, <2>2, <2>4 DEF HandlerOK
  <2> QED
    BY <2>3, <2>4, <2>5, <2>6, ListQuiet
<1>2. ASSUME NEW p \in Perms, NEW failed \in BOOLEAN, ListReads(h, p, failed) PROVE IInv' /\ FileMoves
  <2>1. PICK g : /\ g = IF failed \/ SessionLive(p) THEN req[h].gone ELSE req[h].gone \union {p}
                 /\ Becomes(h, [req[h] EXCEPT !.fan = @ \ {p}, !.gone = g])
    BY <1>2 DEF ListReads
  <2> DEFINE s == [req[h] EXCEPT !.fan = @ \ {p}, !.gone = g]
  <2>2. Kind(h) = "list" /\ req[h].phase = "read" /\ req[h].reply = "none" /\ p \in req[h].fan
    BY <1>0, <1>2 DEF ListReads, HandlerOK, HandlerState
  <2>3. req[h].gone \subseteq Perms /\ req[h].fan \subseteq Perms
    BY <1>0 DEF HandlerState
  <2>4. g \subseteq req[h].gone \union {p}
    BY <2>1
  <2>5. s \in HandlerState /\ s.phase = "read" /\ s.fan = req[h].fan \ {p} /\ s.gone = g /\ s.reply = "none"
    BY <1>0, <2>2, <2>3, <2>4 DEF HandlerState
  <2>6. Quiet(h, s)
    BY <1>2, <2>1 DEF ListReads, Quiet
  <2> HIDE DEF s
  <2>7. \A q \in s.fan \union s.gone : Stored(q)
    BY <1>0, <2>2, <2>4, <2>5 DEF HandlerOK
  <2> QED
    BY <2>2, <2>5, <2>6, <2>7, ListQuiet
<1>3. CASE ListResumes(h)
  <2> DEFINE s == [req[h] EXCEPT !.phase = "apply"]
  <2>1. Kind(h) = "list" /\ req[h].phase = "read" /\ req[h].reply = "none"
    BY <1>0, <1>3 DEF ListResumes, Awaits, HandlerOK, HandlerState
  <2>2. s \in HandlerState /\ s.phase = "apply" /\ s.fan = req[h].fan /\ s.gone = req[h].gone /\ s.reply = "none"
    BY <1>0, <2>1 DEF HandlerState, Phases
  <2>3. Quiet(h, s)
    BY <1>3 DEF ListResumes, Quiet, envVars
  <2> HIDE DEF s
  <2>4. \A q \in s.fan \union s.gone : Stored(q)
    BY <1>0, <2>2 DEF HandlerOK
  <2> QED
    BY <2>1, <2>2, <2>3, <2>4, ListQuiet
<1>4. ASSUME NEW p \in Perms, NEW ok \in WriteOutcomes, ListRevokes(h, p, ok) PROVE IInv' /\ FileMoves
  <2> DEFINE s == IF ok THEN [req[h] EXCEPT !.gone = @ \ {p}] ELSE Finished("error")
             r == [records[p] EXCEPT !.status = "revoked"]
  <2>1. Kind(h) = "list" /\ req[h].phase = "apply" /\ req[h].reply = "none" /\ p \in req[h].gone /\ Stored(p)
    BY <1>0, <1>4 DEF ListRevokes, Runs, HandlerOK, HandlerState
  <2>2. /\ s \in HandlerState /\ s.phase \in {"apply", "done"} /\ s.fan \union s.gone \subseteq req[h].fan \union req[h].gone
        /\ s.reply # "none" => s.phase = "done"
    BY <1>0, <2>1 DEF HandlerState, Phases, Finished, Idle
  <2>3. /\ Becomes(h, s) /\ UNCHANGED <<keychain, envVars>> /\ turn' \in {turn, h, Nobody}
        /\ Revoke(p, ok) /\ ok \in BOOLEAN
    BY <1>4, WritesBoolean DEF ListRevokes
  <2>4. r \in StrategyRecord /\ Writes(p, r, ok) /\ p \in keychain /\ records[p].status # "none"
    BY <2>1, <2>3, StoredRevocable
  <2> HIDE DEF s, r
  <2>5. StepOf(h, s)
    BY <2>3, <2>4, WriteStep
  <2>6. disk' = disk \/ (disk' = records' /\ \A q \in Perms : q # p => records'[q] = records[q])
    BY <1>0, <2>3, <2>4, WritesMoves
  <2>7. FileMoves /\ disk' \in [Perms -> StrategyRecord]
    BY <1>0, <2>3, <2>4, WritesMoves
  <2>8. \A q \in Perms : Stored(q) => Stored(q)'
    <3>1. \A q \in Perms : disk[q].status \in Statuses /\ disk'[q].status \in Statuses
      BY <1>0, <2>7 DEF TypeOK, StrategyRecord
    <3> QED
      BY <2>7, <3>1, AfterStays DEF FileMoves, Stored
  <2>9. req'[h] = s
    BY <1>0, <2>3 DEF Becomes
  <2>10. \A q \in s.fan \union s.gone : Stored(q)'
    <3>1. \A q \in s.fan \union s.gone : q \in Perms /\ Stored(q)
      BY <1>0, <2>2 DEF HandlerOK, HandlerState
    <3> QED
      BY <2>8, <3>1
  <2>11. HandlerOK(h)'
    BY <2>1, <2>2, <2>9, <2>10 DEF HandlerOK, Kind, Perm
  <2> QED
    BY <2>2, <2>5, <2>11, StepKeeps
<1>5. CASE ListReplies(h)
  <2>1. Kind(h) = "list"
    BY <1>0, <1>5 DEF ListReplies, Runs, HandlerOK
  <2>2. Finished("ok") \in HandlerState /\ Finished("ok").phase = "done" /\ Finished("ok").fan = {} /\ Finished("ok").gone = {}
    BY DEF Finished, Idle, HandlerState, Phases
  <2>3. Quiet(h, Finished("ok"))
    BY <1>5 DEF ListReplies, Quiet
  <2> QED
    BY <2>1, <2>2, <2>3, ListQuiet
<1> QED
  BY <1>1, <1>2, <1>3, <1>4, <1>5 DEF ListStep

LEMMA RevokeKeeps == ASSUME IInv, NEW h \in Handlers, RevokeStep(h) PROVE IInv' /\ FileMoves
<1>0. /\ TypeOK /\ FileFollows /\ HandlerOK(h)
      /\ req \in [Handlers -> HandlerState] /\ req[h] \in HandlerState
  BY DEF IInv, TypeOK
<1>1. CASE RevokeArrives(h)
  <2> DEFINE s == [req[h] EXCEPT !.phase = "relay"]
  <2>1. /\ Kind(h) = "revoke" /\ req[h].phase = "idle" /\ req[h].reply = "none" /\ Names(h)
        /\ UNCHANGED <<regVars, keychain, turn, envVars>>
    BY <1>0, <1>1 DEF RevokeArrives, Arrives, HandlerOK
  <2>2. CASE records[Perm(h)].status = "none"
    BY <1>1, <2>1, <2>2, ErrorKeeps DEF RevokeArrives, Quiet
  <2>3. CASE records[Perm(h)].status # "none"
    <3>1. Perm(h) \in Perms /\ Stored(Perm(h))
      BY <2>1, <2>3, PermType, NamedIsStored DEF Names
    <3>2. s \in HandlerState /\ s.phase = "relay" /\ s.fan = req[h].fan /\ s.gone = req[h].gone /\ s.reply = "none"
      BY <1>0, <2>1 DEF HandlerState, Phases
    <3>3. Quiet(h, s)
      BY <1>1, <2>1, <2>3 DEF RevokeArrives, Quiet
    <3> HIDE DEF s
    <3>4. req'[h] = s
      BY <1>0, <3>3 DEF Quiet, Becomes
    <3>5. HandlerOK(h)'
      BY <1>0, <2>1, <3>1, <3>2, <3>4 DEF HandlerOK, Stored, regVars, Kind, Perm
    <3> QED
      BY <3>2, <3>3, <3>5, QuietStep, StepKeeps
  <2> QED
    BY <2>2, <2>3
<1>2. CASE OpAccepted(h)
  <2> DEFINE s == [req[h] EXCEPT !.phase = "relayed"]
  <2>1. /\ Kind(h) = "revoke" /\ req[h].phase = "relay" /\ req[h].reply = "none"
        /\ UNCHANGED <<regVars, keychain, turn, crashes>>
        /\ \/ session' = [session EXCEPT ![Perm(h)] = IF @ \in {"enabled", "renewed"} THEN "removing" ELSE @]
           \/ session' = session
    BY <1>0, <1>2 DEF OpAccepted, HandlerOK, HandlerState
  <2>2. s \in HandlerState /\ s.phase = "relayed" /\ s.fan = req[h].fan /\ s.gone = req[h].gone /\ s.reply = "none"
    BY <1>0, <2>1 DEF HandlerState, Phases
  <2>3. Becomes(h, s)
    BY <1>2 DEF OpAccepted
  <2> HIDE DEF s
  <2>4. req'[h] = s
    BY <1>0, <2>3 DEF Becomes
  <2>5. HandlerOK(h)'
    BY <1>0, <2>1, <2>2, <2>4 DEF HandlerOK, Stored, regVars, Kind, Perm
  <2>6. session' \in [Perms -> SessionStates] /\ \A p \in Perms : session'[p] # "absent" => session[p] # "absent"
    BY <1>0, <2>1 DEF TypeOK, SessionStates
  <2>7. StepOf(h, s)
    BY <1>0, <2>1, <2>3, <2>6 DEF StepOf, Rests, EnvTyped, ChainMoves, regVars, TypeOK
  <2> QED
    BY <2>2, <2>5, <2>7, StepKeeps
<1>3. CASE RelayThrows(h)
  BY <1>3, ErrorKeeps DEF RelayThrows, Quiet
<1>4. ASSUME NEW ok \in WriteOutcomes, RelayReturns(h, ok) PROVE IInv' /\ FileMoves
  <2> DEFINE r == [records[Perm(h)] EXCEPT !.status = "revoked"]
  <2>1. Kind(h) = "revoke" /\ Stored(Perm(h))
    BY <1>0, <1>4 DEF RelayReturns, Awaits, HandlerOK
  <2>2. /\ Revoke(Perm(h), ok) /\ Becomes(h, Answer(ok)) /\ UNCHANGED <<keychain, turn, envVars>>
        /\ ok \in BOOLEAN
    BY <1>4, WritesBoolean DEF RelayReturns
  <2>3. Perm(h) \in Perms
    BY <2>1, PermType
  <2>4. /\ r \in StrategyRecord /\ Writes(Perm(h), r, ok) /\ Perm(h) \in keychain
        /\ records[Perm(h)].status # "none"
    BY <2>1, <2>2, <2>3, StoredRevocable
  <2>5. r.status = "revoked"
    BY <1>0, <2>3 DEF TypeOK, StrategyRecord
  <2> HIDE DEF r
  <2> QED
    BY <2>1, <2>2, <2>4, <2>5, AnswerKeeps DEF Reported
<1> QED
  BY <1>1, <1>2, <1>3, <1>4 DEF RevokeStep

-----------------------------------------------------------------------------
(* The chain, a crash, and every step.                                     *)

LEMMA ChainKeeps == ASSUME IInv, ChainStep PROVE IInv' /\ FileMoves
<1>0. TypeOK /\ FileFollows
  BY DEF IInv
<1>1. /\ UNCHANGED <<regVars, keychain, req, turn, crashes>>
      /\ session' \in [Perms -> SessionStates]
      /\ \A p \in Perms : session'[p] # "absent" => session[p] # "absent" \/ Stored(p)
  <2>1. ASSUME NEW p \in Perms, EnableMined(p) \/ OwnerRemoves(p) \/ RemovalMined(p)
        PROVE  /\ UNCHANGED <<regVars, keychain, req, turn, crashes>>
               /\ session' \in [Perms -> SessionStates]
               /\ \A q \in Perms : session'[q] # "absent" => session[q] # "absent" \/ Stored(q)
    <3>1. CASE EnableMined(p)
      BY <1>0, <3>1, NamedIsStored DEF EnableMined, TypeOK, SessionStates
    <3>2. CASE OwnerRemoves(p)
      BY <1>0, <3>2 DEF OwnerRemoves, TypeOK, SessionStates
    <3>3. CASE RemovalMined(p)
      BY <1>0, <3>3 DEF RemovalMined, TypeOK, SessionStates
    <3> QED
      BY <2>1, <3>1, <3>2, <3>3
  <2> QED
    BY <2>1 DEF ChainStep
<1>2. FileMoves
  BY <1>0, <1>1, RestsMoves DEF Rests, regVars
<1>3. TypeOK'
  BY <1>0, <1>1 DEF TypeOK, regVars
<1>4. EnabledIsRecorded'
  BY <1>1 DEF IInv, EnabledIsRecorded, Stored, regVars
<1>5. \A h \in Handlers : HandlerOK(h)'
  BY <1>1 DEF IInv, HandlerOK, Stored, regVars
<1> QED
  BY <1>2, <1>3, <1>4, <1>5 DEF IInv, FileMoves

LEMMA CrashKeeps == ASSUME IInv, Crash PROVE IInv' /\ FileMoves
<1>0. TypeOK /\ FileFollows /\ req \in [Handlers -> HandlerState]
  BY DEF IInv, TypeOK
<1>1. /\ records' = disk /\ disk' = disk /\ keychain' = keychain /\ session' = session
      /\ turn' = Nobody /\ crashes' = crashes + 1 /\ crashes < MaxCrashes
      /\ req' = [h \in Handlers |-> IF req[h].phase \in {"idle", "done", "dead"} THEN req[h]
                                    ELSE [Idle EXCEPT !.phase = "dead"]]
  BY DEF Crash
<1>2. \A p \in Perms : disk[p].status \in Statuses /\ records[p].status \in Statuses
  BY <1>0, StatusType
<1>3. FileMoves
  BY <1>0, <1>1, <1>2, AfterStays DEF FileMoves, FileFollows, Stored
<1>4. \A p \in Perms : disk[p].status # "none" => records[p].status # "none"
  BY <1>0, <1>2, AfterStays DEF FileFollows
<1>5. [Idle EXCEPT !.phase = "dead"] \in HandlerState
  BY DEF Idle, HandlerState, Phases
<1>6. req' \in [Handlers -> HandlerState]
  BY <1>0, <1>1, <1>5
<1>7. crashes' \in 0 .. MaxCrashes
  BY <1>0, <1>1, RequestAssumption DEF TypeOK
<1>8. TypeOK'
  BY <1>0, <1>1, <1>4, <1>6, <1>7 DEF TypeOK
<1>9. ASSUME NEW h \in Handlers PROVE HandlerOK(h)'
  <2>1. HandlerOK(h)
    BY DEF IInv
  <2>2. CASE req[h].phase \in {"idle", "done", "dead"}
    <3>1. req'[h] = req[h]
      BY <1>1, <2>2
    <3>2. Kind(h) = "prepare" => Perm(h) \in Perms
      BY PermType
    <3>3. Kind(h) = "prepare" /\ req[h].phase = "idle" => disk[Perm(h)].status = "none"
      BY <1>4, <2>1, <3>2 DEF HandlerOK
    <3> QED
      BY <1>1, <2>1, <2>2, <3>1, <3>3 DEF HandlerOK, Stored
  <2>3. CASE req[h].phase \notin {"idle", "done", "dead"}
    <3>1. req'[h].phase = "dead" /\ req'[h].fan = {} /\ req'[h].gone = {} /\ req'[h].reply = "none"
      BY <1>1, <2>3 DEF Idle
    <3> QED
      BY <3>1 DEF HandlerOK
  <2> QED
    BY <2>2, <2>3
<1>10. EnabledIsRecorded'
  BY <1>1 DEF IInv, EnabledIsRecorded
<1> QED
  BY <1>3, <1>8, <1>9, <1>10 DEF IInv, FileMoves

LEMMA InitHolds == ASSUME Init PROVE IInv
<1>1. TypeOK
  BY RequestAssumption DEF Init, TypeOK, Idle, HandlerState, Phases, SessionStates
<1>2. \A p \in Perms : records[p] = BootFile[p] /\ disk[p] = BootFile[p] /\ BootFile[p].status \in Statuses
  BY RequestAssumption DEF Init, StrategyRecord
<1>3. FileFollows
  BY <1>2, AfterStays DEF FileFollows, Stored
<1>4. EnabledIsRecorded
  BY BootAssumption DEF Init, EnabledIsRecorded
<1>5. ASSUME NEW h \in Handlers PROVE HandlerOK(h)
  <2>1. req[h].phase = "idle" /\ req[h].fan = {} /\ req[h].gone = {} /\ req[h].reply = "none"
    BY DEF Init, Idle
  <2>2. Kind(h) = "prepare" => records[Perm(h)].status = "none"
    BY SaltAssumption DEF Init, Kind, Perm
  <2> QED
    BY <2>1, <2>2 DEF HandlerOK
<1> QED
  BY <1>1, <1>3, <1>4, <1>5 DEF IInv

LEMMA StepPreserves == ASSUME IInv, [Next]_vars PROVE IInv' /\ FileMoves
<1>1. CASE UNCHANGED vars
  <2>1. FileMoves
    BY <1>1, RestsMoves DEF vars, regVars, Rests, IInv
  <2>2. TypeOK'
    BY <1>1 DEF IInv, TypeOK, vars, regVars, envVars
  <2>3. EnabledIsRecorded'
    BY <1>1 DEF IInv, EnabledIsRecorded, vars, regVars, envVars
  <2>4. \A h \in Handlers : HandlerOK(h)'
    BY <1>1 DEF IInv, HandlerOK, Stored, vars, regVars, envVars
  <2> QED
    BY <2>1, <2>2, <2>3, <2>4 DEF IInv, FileMoves
<1>2. ASSUME NEW h \in Handlers, RequestStep(h) PROVE IInv' /\ FileMoves
  BY <1>2, PrepareKeeps, ShortKeeps, ListKeeps, RevokeKeeps DEF RequestStep
<1> QED
  BY <1>1, <1>2, ChainKeeps, CrashKeeps DEF Next

LEMMA Invariance == Spec => []IInv
<1>1. Init => IInv
  BY InitHolds
<1>2. IInv /\ [Next]_vars => IInv'
  BY StepPreserves
<1> QED
  BY <1>1, <1>2, PTL DEF Spec

-----------------------------------------------------------------------------
(* The theorems.                                                           *)

\* Every variable has its type, and no session is recorded without its key.
THEOREM TypeCorrect == Spec => []TypeOK
<1>1. IInv => TypeOK
  BY DEF IInv
<1> QED
  BY <1>1, Invariance, PTL

\* Every session that lives on-chain is in the file, whatever writes fail and whenever the
\* process dies (strategyService.ts prepareStrategySession answers after upsert).
THEOREM EnabledIsKept == Spec => []EnabledIsRecorded
<1>1. IInv => EnabledIsRecorded
  BY DEF IInv
<1> QED
  BY <1>1, Invariance, PTL

-----------------------------------------------------------------------------
(* StrategySessions implements SessionLifecycle.                           *)

\* A step of the service moves one unfinished request, one of the chain none, a crash only kills.
LEMMA DoneStays ==
    ASSUME IInv, [Next]_vars, NEW h \in Handlers, req[h].phase = "done"
    PROVE  req'[h] = req[h]
<1>0. req \in [Handlers -> HandlerState]
  BY DEF IInv, TypeOK
<1>1. ASSUME NEW g \in Handlers, RequestStep(g) PROVE req'[h] = req[h]
  <2>1. \E s : Becomes(g, s) /\ req[g].phase # "done"
    <3>1. CASE PrepareStep(g)
      BY <3>1 DEF PrepareStep, PrepareRefused, PrepareArrives, PrepareThrows, PrepareRecords, Arrives, Awaits
    <3>2. CASE ShortStep(g)
      BY <3>2 DEF ShortStep, GrantRefused, PauseRefused, GrantRecords, PauseRecords, Arrives
    <3>3. CASE ListStep(g)
      <4>1. CASE ListArrives(g) \/ ListResumes(g) \/ ListReplies(g)
        BY <4>1 DEF ListArrives, ListResumes, ListReplies, Arrives, Awaits, Runs
      <4>2. ASSUME NEW p \in Perms, NEW failed \in BOOLEAN, ListReads(g, p, failed)
            PROVE  \E s : Becomes(g, s) /\ req[g].phase # "done"
        BY <4>2 DEF ListReads
      <4>3. ASSUME NEW p \in Perms, NEW ok \in WriteOutcomes, ListRevokes(g, p, ok)
            PROVE  \E s : Becomes(g, s) /\ req[g].phase # "done"
        BY <4>3 DEF ListRevokes, Runs
      <4> QED
        BY <3>3, <4>1, <4>2, <4>3 DEF ListStep
    <3>4. CASE RevokeStep(g)
      BY <3>4 DEF RevokeStep, RevokeArrives, OpAccepted, RelayThrows, RelayReturns, Arrives, Awaits
    <3> QED
      BY <1>1, <3>1, <3>2, <3>3, <3>4 DEF RequestStep
  <2> QED
    BY <1>0, <2>1 DEF Becomes
<1>2. CASE ChainStep
  BY <1>2 DEF ChainStep, EnableMined, OwnerRemoves, RemovalMined
<1>3. CASE Crash
  BY <1>3 DEF Crash
<1>4. CASE UNCHANGED vars
  BY <1>4 DEF vars
<1> QED
  BY <1>1, <1>2, <1>3, <1>4 DEF Next

\* A request of this kind about p was answered with ok.
Reports(p, kind) == \E h \in Handlers : req[h].reply = "ok" /\ Kind(h) = kind /\ Perm(h) = p

LEMMA ToldIs ==
    \A p : Told(p) = IF Reports(p, "revoke") THEN "revoked"
                     ELSE IF Reports(p, "grant") THEN "granted"
                     ELSE IF Reports(p, "prepare") THEN "prepared"
                     ELSE "none"
BY DEF Told, Reports

LEMMA Ranks ==
    /\ Lifecycle!Rank["none"] = 0 /\ Lifecycle!Rank["prepared"] = 1
    /\ Lifecycle!Rank["granted"] = 2 /\ Lifecycle!Rank["revoked"] = 3
BY DEF Lifecycle!Rank

LEMMA ToldBelow == IInv => \A p \in Perms : Lifecycle!Rank[Told(p)] <= Lifecycle!Rank[disk[p].status]
<1> SUFFICES ASSUME IInv, NEW p \in Perms PROVE Lifecycle!Rank[Told(p)] <= Lifecycle!Rank[disk[p].status]
  OBVIOUS
<1>1. \A k \in {"prepare", "grant", "revoke"} : Reports(p, k) => disk[p].status \in Reported(k)
  BY DEF IInv, HandlerOK, Reports
<1>2. disk[p].status \in Statuses
  BY StatusType DEF IInv
<1> QED
  BY <1>1, <1>2, ToldIs, Ranks DEF Reported, Statuses

LEMMA ToldGrows ==
    ASSUME IInv, [Next]_vars
    PROVE  \A p \in Perms : Lifecycle!Rank[Told(p)'] >= Lifecycle!Rank[Told(p)]
<1> SUFFICES ASSUME NEW p \in Perms PROVE Lifecycle!Rank[(Told(p))'] >= Lifecycle!Rank[Told(p)]
  OBVIOUS
<1>1. \A h \in Handlers : req[h].reply = "ok" => req'[h].reply = "ok"
  BY DoneStays DEF IInv, HandlerOK
<1>2. \A k : Reports(p, k) => (Reports(p, k))'
  BY <1>1 DEF Reports, Kind, Perm
<1>3. (Told(p))' = IF (Reports(p, "revoke"))' THEN "revoked"
                   ELSE IF (Reports(p, "grant"))' THEN "granted"
                   ELSE IF (Reports(p, "prepare"))' THEN "prepared"
                   ELSE "none"
  BY ToldIs DEF Told, Reports
<1> QED
  BY <1>2, <1>3, ToldIs, Ranks

LEMMA LifecycleStarts == Init => Lifecycle!Init
<1> SUFFICES ASSUME Init PROVE Lifecycle!Init
  OBVIOUS
<1>1. [p \in Perms |-> disk[p].status] = [p \in Perms |-> BootFile[p].status]
  BY DEF Init
<1>2. \A p \in Perms : Told(p) = "none"
  BY ToldIs DEF Reports, Init, Idle
<1> QED
  BY <1>1, <1>2 DEF Lifecycle!Init

LEMMA LifecycleSteps ==
    ASSUME IInv, FileMoves, [Next]_vars,
           \A p \in Perms : Lifecycle!Rank[(Told(p))'] <= Lifecycle!Rank[disk'[p].status]
    PROVE  Lifecycle!Next
<1>1. \A p \in Perms : Lifecycle!Rank[(Told(p))'] >= Lifecycle!Rank[Told(p)]
  BY ToldGrows
<1>2. \A p \in Perms : disk'[p].status \in After(disk[p].status)
  BY DEF FileMoves
<1> QED
  BY <1>1, <1>2 DEF Lifecycle!Next, After

\* The registry file walks through the promised stages only, and no client is told of a stage
\* that is not in the file, for every set of requests, failing writes and crashes
\* (strategyRegistry.ts grant, revoke, persist).
THEOREM ServiceIsLifecycle == Spec => ImplementsLifecycle
<1>1. (\A p \in Perms : Lifecycle!Rank[Told(p)] <= Lifecycle!Rank[disk[p].status])'
        => \A p \in Perms : Lifecycle!Rank[(Told(p))'] <= Lifecycle!Rank[disk'[p].status]
  OBVIOUS
<1>2. IInv /\ [Next]_vars /\ (\A p \in Perms : Lifecycle!Rank[Told(p)] <= Lifecycle!Rank[disk[p].status])'
        => Lifecycle!Next
  BY <1>1, StepPreserves, LifecycleSteps
<1> QED
  BY <1>2, LifecycleStarts, ToldBelow, Invariance, PTL DEF Spec, ImplementsLifecycle, Lifecycle!Spec

-----------------------------------------------------------------------------
(* What one request changes, for the properties about pauses and endings.  *)

\* The record of p is written by request g, which goes to state s.
WrittenBy(g, s, p) ==
    \/ records[p].status = "none" /\ records'[p].status = "prepared"
    \/ /\ records'[p].status = "granted" /\ records'[p].paused = records[p].paused
       /\ GrantAfterLanding => session[p] # "absent"
    \/ /\ Kind(g) = "pause" /\ Perm(g) = p
       /\ records'[p].status = records[p].status /\ records'[p].paused = Request[g].paused
    \/ /\ records'[p].status = "revoked" /\ records'[p].paused = records[p].paused
       /\ p \in req[g].gone \/ (Kind(g) = "revoke" /\ Perm(g) = p /\ s.phase = "done")

RegistryEffect(g, s) ==
    /\ disk' = disk \/ disk' = records'
    /\ \A p \in Perms : records'[p] = records[p] \/ WrittenBy(g, s, p)
    /\ Kind(g) = "pause" /\ s.reply = "ok" =>
          disk' = records' /\ records'[Perm(g)].paused = Request[g].paused

RequestEffect(g, s) ==
    /\ Becomes(g, s) /\ s.phase # "idle"
    /\ Kind(g) = "revoke" /\ req[g].phase \notin {"idle", "relay"} => s.phase \notin {"idle", "relay"}
    /\ \A p \in s.fan : p \in req[g].fan \/ (p \in Perms /\ records[p].status = "granted")
    /\ \A p \in s.gone : p \in req[g].gone \/ (p \in req[g].fan /\ ~SessionLive(p))

Effect(g) == \E s : RegistryEffect(g, s) /\ RequestEffect(g, s)

LEMMA UpsertEffect ==
    ASSUME TypeOK, NEW p \in Perms, NEW r \in StrategyRecord, NEW ok \in BOOLEAN, Upsert(p, r, ok)
    PROVE  /\ records'[p] = r /\ \A q \in Perms : q # p => records'[q] = records[q]
           /\ disk' = disk \/ disk' = records'
           /\ ok => disk' = records'
BY DEF Upsert, TypeOK

LEMMA AnswerParts ==
    \A ok \in BOOLEAN :
        /\ Answer(ok).phase = "done" /\ Answer(ok).fan = {} /\ Answer(ok).gone = {}
        /\ Answer(ok).reply = "ok" => ok
BY DEF Answer, Finished, Idle

LEMMA ErrorParts ==
    /\ Finished("error").phase = "done" /\ Finished("error").reply = "error"
    /\ Finished("error").fan = {} /\ Finished("error").gone = {}
BY DEF Finished, Idle

LEMMA ErrorEffect == ASSUME NEW g \in Handlers, Becomes(g, Finished("error")), UNCHANGED regVars PROVE Effect(g)
<1>1. RequestEffect(g, Finished("error"))
  BY ErrorParts DEF RequestEffect
<1>2. RegistryEffect(g, Finished("error"))
  BY ErrorParts DEF RegistryEffect, regVars
<1> QED
  BY <1>1, <1>2 DEF Effect

\* A request that only moves on: its new state has a phase, a fan and a gone of its own.
LEMMA QuietEffect ==
    ASSUME IInv, NEW g \in Handlers, NEW s, Becomes(g, s), UNCHANGED regVars, Kind(g) # "pause", s.phase # "idle",
           Kind(g) = "revoke" /\ req[g].phase \notin {"idle", "relay"} => s.phase # "relay",
           \A p \in s.fan : p \in req[g].fan \/ (p \in Perms /\ records[p].status = "granted"),
           \A p \in s.gone : p \in req[g].gone \/ (p \in req[g].fan /\ ~SessionLive(p))
    PROVE  Effect(g)
<1>1. RequestEffect(g, s)
  BY DEF RequestEffect
<1>2. RegistryEffect(g, s)
  BY DEF RegistryEffect, regVars
<1> QED
  BY <1>1, <1>2 DEF Effect

\* A request that writes the record of p and answers.
LEMMA AnswerEffect ==
    ASSUME IInv, NEW g \in Handlers, NEW ok \in BOOLEAN, Becomes(g, Answer(ok)),
           NEW p \in Perms, NEW r \in StrategyRecord, Upsert(p, r, ok),
           records'[p] = r => WrittenBy(g, Answer(ok), p),
           Kind(g) = "pause" => Perm(g) = p /\ r.paused = Request[g].paused
    PROVE  Effect(g)
<1>1. RequestEffect(g, Answer(ok))
  BY AnswerParts DEF RequestEffect
<1>2. /\ records'[p] = r /\ \A q \in Perms : q # p => records'[q] = records[q]
      /\ disk' = disk \/ disk' = records'
      /\ ok => disk' = records'
  BY UpsertEffect DEF IInv
<1>3. \A q \in Perms : records'[q] = records[q] \/ WrittenBy(g, Answer(ok), q)
  BY <1>2
<1>4. RegistryEffect(g, Answer(ok))
  BY <1>2, <1>3, AnswerParts DEF RegistryEffect
<1> QED
  BY <1>1, <1>4 DEF Effect

LEMMA PrepareEffect == ASSUME IInv, NEW g \in Handlers, PrepareStep(g) PROVE Effect(g)
<1>0. TypeOK /\ HandlerOK(g) /\ req[g] \in HandlerState
  BY DEF IInv, TypeOK
<1>1. CASE PrepareRefused(g) \/ PrepareThrows(g)
  BY <1>1, ErrorEffect DEF PrepareRefused, PrepareThrows
<1>2. CASE PrepareArrives(g)
  <2> DEFINE s == [req[g] EXCEPT !.phase = "quote"]
  <2>1. s.phase = "quote" /\ s.fan = req[g].fan /\ s.gone = req[g].gone
    BY <1>0 DEF HandlerState
  <2>2. Becomes(g, s) /\ UNCHANGED regVars /\ Kind(g) = "prepare"
    BY <1>2 DEF PrepareArrives, Arrives
  <2> HIDE DEF s
  <2> QED
    BY <2>1, <2>2, QuietEffect
<1>3. ASSUME NEW ok \in WriteOutcomes, PrepareRecords(g, ok) PROVE Effect(g)
  <2>1. Kind(g) = "prepare" /\ records[Perm(g)].status = "none" /\ Perm(g) \in Perms
    BY <1>0, <1>3, PermType DEF PrepareRecords, Awaits, HandlerOK
  <2>2. FreshRecord("prepared") \in StrategyRecord /\ FreshRecord("prepared").status = "prepared"
    BY DEF FreshRecord, StrategyRecord, Statuses
  <2>3. Upsert(Perm(g), FreshRecord("prepared"), ok) /\ Becomes(g, Answer(ok)) /\ ok \in BOOLEAN
    BY <1>3, WritesBoolean DEF PrepareRecords, RecordPrepared
  <2>4. records'[Perm(g)] = FreshRecord("prepared") => WrittenBy(g, Answer(ok), Perm(g))
    BY <2>1, <2>2 DEF WrittenBy
  <2> QED
    BY <2>1, <2>2, <2>3, <2>4, AnswerEffect
<1> QED
  BY <1>1, <1>2, <1>3 DEF PrepareStep

LEMMA ShortEffect == ASSUME IInv, NEW g \in Handlers, ShortStep(g) PROVE Effect(g)
<1>0. TypeOK
  BY DEF IInv
<1>1. CASE GrantRefused(g) \/ PauseRefused(g)
  BY <1>1, ErrorEffect DEF GrantRefused, PauseRefused
<1>2. ASSUME NEW ok \in WriteOutcomes, GrantRecords(g, ok) PROVE Effect(g)
  <2> DEFINE r == [records[Perm(g)] EXCEPT !.status = "granted"]
  <2>1. /\ Kind(g) = "grant" /\ ok \in BOOLEAN
        /\ GrantAfterLanding => session[Perm(g)] # "absent"
        /\ Upsert(Perm(g), r, ok) /\ Becomes(g, Answer(ok))
    BY <1>2, WritesBoolean DEF GrantRecords, Grant, Arrives
  <2>2. Perm(g) \in Perms /\ records[Perm(g)] \in StrategyRecord
    BY <1>0, <2>1, PermType DEF TypeOK
  <2>3. r \in StrategyRecord /\ r.status = "granted" /\ r.paused = records[Perm(g)].paused
    BY <2>2 DEF StrategyRecord, Statuses
  <2> HIDE DEF r
  <2>4. records'[Perm(g)] = r => WrittenBy(g, Answer(ok), Perm(g))
    BY <2>1, <2>3 DEF WrittenBy
  <2> QED
    BY <2>1, <2>2, <2>3, <2>4, AnswerEffect
<1>3. ASSUME NEW ok \in WriteOutcomes, PauseRecords(g, ok) PROVE Effect(g)
  <2> DEFINE r == [records[Perm(g)] EXCEPT !.paused = Request[g].paused]
  <2>1. /\ Kind(g) = "pause" /\ ok \in BOOLEAN
        /\ Upsert(Perm(g), r, ok) /\ Becomes(g, Answer(ok))
    BY <1>3, WritesBoolean DEF PauseRecords, SetPaused, Arrives
  <2>2. Perm(g) \in Perms /\ records[Perm(g)] \in StrategyRecord
    BY <1>0, <2>1, PermType DEF TypeOK
  <2>3. r \in StrategyRecord /\ r.status = records[Perm(g)].status /\ r.paused = Request[g].paused
    BY <2>1, <2>2, RequestAssumption DEF StrategyRecord, Kind
  <2> HIDE DEF r
  <2>4. records'[Perm(g)] = r => WrittenBy(g, Answer(ok), Perm(g))
    BY <2>1, <2>3 DEF WrittenBy
  <2> QED
    BY <2>1, <2>2, <2>3, <2>4, AnswerEffect
<1> QED
  BY <1>1, <1>2, <1>3 DEF ShortStep

LEMMA ListEffect == ASSUME IInv, NEW g \in Handlers, ListStep(g) PROVE Effect(g)
<1>0. TypeOK /\ HandlerOK(g) /\ req[g] \in HandlerState /\ Kind(g) = "list"
  <2>1. TypeOK /\ HandlerOK(g) /\ req[g] \in HandlerState
    BY DEF IInv, TypeOK
  <2> QED
    BY <2>1 DEF ListStep, ListArrives, ListResumes, ListReplies, ListReads, ListRevokes, Arrives, Awaits, Runs, HandlerOK
<1>1. CASE ListArrives(g)
  <2> DEFINE f == ViewByFollower(Request[g].account)
             s == [req[g] EXCEPT !.phase = "read", !.fan = f]
  <2>1. s.phase = "read" /\ s.fan = f /\ s.gone = req[g].gone
    BY <1>0 DEF HandlerState
  <2>2. Becomes(g, s) /\ UNCHANGED regVars /\ \A p \in f : p \in Perms /\ records[p].status = "granted"
    BY <1>1 DEF ListArrives, ViewByFollower
  <2> HIDE DEF s, f
  <2> QED
    BY <1>0, <2>1, <2>2, QuietEffect
<1>2. ASSUME NEW p \in Perms, NEW failed \in BOOLEAN, ListReads(g, p, failed) PROVE Effect(g)
  <2>1. PICK c : /\ c = IF failed \/ SessionLive(p) THEN req[g].gone ELSE req[g].gone \union {p}
                 /\ Becomes(g, [req[g] EXCEPT !.fan = @ \ {p}, !.gone = c])
    BY <1>2 DEF ListReads
  <2> DEFINE s == [req[g] EXCEPT !.fan = @ \ {p}, !.gone = c]
  <2>2. s.phase = "read" /\ s.fan = req[g].fan \ {p} /\ s.gone = c
    BY <1>0, <1>2 DEF HandlerState, ListReads
  <2>3. Becomes(g, s) /\ UNCHANGED regVars /\ p \in req[g].fan
    BY <1>2, <2>1 DEF ListReads
  <2> HIDE DEF s
  <2> QED
    BY <1>0, <2>1, <2>2, <2>3, QuietEffect
<1>3. CASE ListResumes(g)
  <2> DEFINE s == [req[g] EXCEPT !.phase = "apply"]
  <2>1. s.phase = "apply" /\ s.fan = req[g].fan /\ s.gone = req[g].gone
    BY <1>0 DEF HandlerState
  <2>2. Becomes(g, s) /\ UNCHANGED regVars
    BY <1>3 DEF ListResumes
  <2> HIDE DEF s
  <2> QED
    BY <1>0, <2>1, <2>2, QuietEffect
<1>4. ASSUME NEW p \in Perms, NEW ok \in WriteOutcomes, ListRevokes(g, p, ok) PROVE Effect(g)
  <2> DEFINE s == IF ok THEN [req[g] EXCEPT !.gone = @ \ {p}] ELSE Finished("error")
             r == [records[p] EXCEPT !.status = "revoked"]
  <2>1. s.phase # "idle" /\ s.fan \subseteq req[g].fan /\ s.gone \subseteq req[g].gone
    BY <1>0, <1>4, ErrorParts DEF HandlerState, ListRevokes, Runs
  <2>2. Becomes(g, s) /\ Upsert(p, r, ok) /\ p \in req[g].gone /\ ok \in BOOLEAN
    BY <1>4, WritesBoolean DEF ListRevokes, Revoke
  <2>3. r \in StrategyRecord /\ r.status = "revoked" /\ r.paused = records[p].paused
    BY <1>0 DEF TypeOK, StrategyRecord, Statuses
  <2> HIDE DEF s, r
  <2>4. RequestEffect(g, s)
    BY <1>0, <2>1, <2>2 DEF RequestEffect
  <2>5. /\ records'[p] = r /\ \A q \in Perms : q # p => records'[q] = records[q]
        /\ disk' = disk \/ disk' = records'
    BY <1>0, <2>2, <2>3, UpsertEffect
  <2>6. WrittenBy(g, s, p)
    BY <2>2, <2>3, <2>5 DEF WrittenBy
  <2>7. RegistryEffect(g, s)
    BY <1>0, <2>5, <2>6 DEF RegistryEffect
  <2> QED
    BY <2>4, <2>7 DEF Effect
<1>5. CASE ListReplies(g)
  <2>1. Finished("ok").phase = "done" /\ Finished("ok").fan = {} /\ Finished("ok").gone = {}
    BY DEF Finished, Idle
  <2>2. Becomes(g, Finished("ok")) /\ UNCHANGED regVars
    BY <1>5 DEF ListReplies
  <2> QED
    BY <1>0, <2>1, <2>2, QuietEffect
<1> QED
  BY <1>1, <1>2, <1>3, <1>4, <1>5 DEF ListStep

LEMMA RevokeEffect == ASSUME IInv, NEW g \in Handlers, RevokeStep(g) PROVE Effect(g)
<1>0. TypeOK /\ HandlerOK(g) /\ req[g] \in HandlerState
  BY DEF IInv, TypeOK
<1>1. CASE RevokeArrives(g)
  <2> DEFINE s == [req[g] EXCEPT !.phase = "relay"]
  <2>1. CASE records[Perm(g)].status = "none"
    BY <1>1, <2>1, ErrorEffect DEF RevokeArrives
  <2>2. CASE records[Perm(g)].status # "none"
    <3>1. s.phase = "relay" /\ s.fan = req[g].fan /\ s.gone = req[g].gone
      BY <1>0 DEF HandlerState
    <3>2. Becomes(g, s) /\ UNCHANGED regVars /\ Kind(g) = "revoke" /\ req[g].phase = "idle"
      BY <1>1, <2>2 DEF RevokeArrives, Arrives
    <3> HIDE DEF s
    <3> QED
      BY <3>1, <3>2, QuietEffect
  <2> QED
    BY <2>1, <2>2
<1>2. CASE OpAccepted(g)
  <2> DEFINE s == [req[g] EXCEPT !.phase = "relayed"]
  <2>1. s.phase = "relayed" /\ s.fan = req[g].fan /\ s.gone = req[g].gone
    BY <1>0 DEF HandlerState
  <2>2. Becomes(g, s) /\ UNCHANGED regVars /\ Kind(g) = "revoke"
    BY <1>0, <1>2 DEF OpAccepted, HandlerOK
  <2> HIDE DEF s
  <2> QED
    BY <2>1, <2>2, QuietEffect
<1>3. CASE RelayThrows(g)
  BY <1>3, ErrorEffect DEF RelayThrows
<1>4. ASSUME NEW ok \in WriteOutcomes, RelayReturns(g, ok) PROVE Effect(g)
  <2> DEFINE r == [records[Perm(g)] EXCEPT !.status = "revoked"]
  <2>1. /\ Kind(g) = "revoke" /\ ok \in BOOLEAN
        /\ Upsert(Perm(g), r, ok) /\ Becomes(g, Answer(ok))
    BY <1>0, <1>4, WritesBoolean DEF RelayReturns, Revoke, Awaits, HandlerOK
  <2>2. Perm(g) \in Perms /\ records[Perm(g)] \in StrategyRecord
    BY <1>0, <2>1, PermType DEF TypeOK
  <2>3. r \in StrategyRecord /\ r.status = "revoked" /\ r.paused = records[Perm(g)].paused
    BY <2>2 DEF StrategyRecord, Statuses
  <2> HIDE DEF r
  <2>4. records'[Perm(g)] = r => WrittenBy(g, Answer(ok), Perm(g))
    BY <2>1, <2>3, AnswerParts DEF WrittenBy
  <2> QED
    BY <2>1, <2>2, <2>3, <2>4, AnswerEffect
<1> QED
  BY <1>1, <1>2, <1>3, <1>4 DEF RevokeStep

LEMMA RequestEffects == ASSUME IInv, NEW g \in Handlers, RequestStep(g) PROVE Effect(g)
BY PrepareEffect, ShortEffect, ListEffect, RevokeEffect DEF RequestStep

-----------------------------------------------------------------------------
(* An acknowledged pause lasts.                                            *)

\* Pause h was acknowledged, and nobody has asked to resume.
Held(h) ==
    /\ Kind(h) = "pause" /\ Request[h].paused /\ req[h].reply = "ok"
    /\ \A g \in Resumes(Perm(h)) : req[g].phase = "idle"

\* The file keeps the pause, and the Map that would overwrite it has it too.
PauseInv == \A h \in Handlers : Held(h) => disk[Perm(h)].paused /\ records[Perm(h)].paused

LEMMA PauseStarts == Init => PauseInv
BY DEF Init, PauseInv, Held, Idle

LEMMA HeldIsRecorded ==
    ASSUME IInv, NEW h \in Handlers, Held(h)
    PROVE  Perm(h) \in Perms /\ req[h].phase = "done" /\ records[Perm(h)].status # "none"
<1>1. Perm(h) \in Perms
  BY PermType DEF Held
<1>2. req[h].phase = "done" /\ Stored(Perm(h))
  BY DEF IInv, HandlerOK, Held, Reported, Stored
<1> QED
  BY <1>1, <1>2, StoredRevocable

LEMMA PauseKeeps == ASSUME IInv, PauseInv, [Next]_vars PROVE PauseInv'
<1>0. req \in [Handlers -> HandlerState] /\ TypeOK
  BY DEF IInv, TypeOK
<1>1. ASSUME NEW g \in Handlers, RequestStep(g) PROVE PauseInv'
  <2>1. PICK s : RegistryEffect(g, s) /\ RequestEffect(g, s)
    BY <1>1, RequestEffects DEF Effect
  <2>2. req'[g] = s /\ s.phase # "idle" /\ \A h \in Handlers : h # g => req'[h] = req[h]
    BY <1>0, <2>1 DEF RequestEffect, Becomes
  <2> SUFFICES ASSUME NEW h \in Handlers, (Held(h))' PROVE disk'[Perm(h)].paused /\ records'[Perm(h)].paused
    BY DEF PauseInv, Perm
  <2>3. /\ Kind(h) = "pause" /\ Request[h].paused /\ req'[h].reply = "ok"
        /\ \A k \in Resumes(Perm(h)) : req'[k].phase = "idle"
    BY DEF Held, Kind, Perm, Resumes
  <2>4. CASE h = g
    BY <2>1, <2>2, <2>3, <2>4 DEF RegistryEffect
  <2>5. CASE h # g
    <3>1. \A k \in Resumes(Perm(h)) : k # g /\ req[k].phase = "idle"
      BY <2>2, <2>3 DEF Resumes
    <3>2. Held(h)
      BY <2>2, <2>3, <2>5, <3>1 DEF Held
    <3>3. disk[Perm(h)].paused /\ records[Perm(h)].paused
      BY <3>2 DEF PauseInv
    <3>4. Perm(h) \in Perms /\ records[Perm(h)].status # "none"
      BY <3>2, HeldIsRecorded
    <3>5. ~(Kind(g) = "pause" /\ Perm(g) = Perm(h) /\ ~Request[g].paused)
      BY <3>1 DEF Resumes
    <3>6. records'[Perm(h)].paused
      <4>1. CASE records'[Perm(h)] = records[Perm(h)]
        BY <3>3, <4>1
      <4>2. CASE WrittenBy(g, s, Perm(h))
        BY <3>3, <3>4, <3>5, <4>2 DEF WrittenBy
      <4> QED
        BY <2>1, <3>4, <4>1, <4>2 DEF RegistryEffect
    <3> QED
      BY <2>1, <3>3, <3>6 DEF RegistryEffect
  <2> QED
    BY <2>4, <2>5
<1>2. CASE ChainStep
  <2>1. UNCHANGED <<regVars, req>>
    BY <1>2 DEF ChainStep, EnableMined, OwnerRemoves, RemovalMined
  <2> QED
    BY <2>1 DEF PauseInv, Held, regVars, Kind, Perm, Resumes
<1>3. CASE Crash
  <2>1. /\ records' = disk /\ disk' = disk
        /\ req' = [h \in Handlers |-> IF req[h].phase \in {"idle", "done", "dead"} THEN req[h]
                                      ELSE [Idle EXCEPT !.phase = "dead"]]
    BY <1>3 DEF Crash
  <2>2. \A h \in Handlers : /\ req'[h].phase = "idle" => req[h].phase = "idle"
                            /\ req'[h].reply = "ok" => req[h].reply = "ok"
    BY <2>1 DEF Idle
  <2>3. \A h \in Handlers : (Held(h))' => Held(h)
    BY <2>2 DEF Held, Kind, Perm, Resumes
  <2> QED
    BY <2>1, <2>3 DEF PauseInv, Kind, Perm
<1>4. CASE UNCHANGED vars
  BY <1>4 DEF PauseInv, Held, vars, regVars, Kind, Perm, Resumes
<1> QED
  BY <1>1, <1>2, <1>3, <1>4 DEF Next

\* An acknowledged pause survives grants, self-heals, failed writes and restarts until somebody
\* asks to resume, for every set of requests (strategyRegistry.ts setPaused, grant, persist).
THEOREM PauseIsDurable == Spec => []AckedPauseDurable
<1>1. PauseInv => AckedPauseDurable
  BY DEF PauseInv, Held, AckedPauseDurable
<1>2. IInv /\ PauseInv /\ [Next]_vars => PauseInv'
  BY PauseKeeps
<1> QED
  BY <1>1, <1>2, PauseStarts, Invariance, PTL DEF Spec

-----------------------------------------------------------------------------
(* A session ends only when it is gone, if its grant waits for the enable. *)

Ended(p) == Removing(p) \/ OwnerRevokes(p) \/ BootFile[p].status = "revoked"

\* What is granted lives or lived on-chain; what is read as disabled was removed at some time.
EndInv ==
    /\ \A p \in Perms : records[p].status = "granted" \/ disk[p].status = "granted" => session[p] # "absent"
    /\ \A p \in Perms : records[p].status = "revoked" \/ disk[p].status = "revoked" => Ended(p)
    /\ \A h \in Handlers : /\ \A p \in req[h].fan : session[p] # "absent"
                           /\ \A p \in req[h].gone : Removing(p)

\* Whatever is granted at the start is enabled.
GrantedIsEnabled == \A p \in Perms : BootFile[p].status = "granted" => p \in BootEnabled

LEMMA EndStarts == ASSUME GrantedIsEnabled, Init PROVE EndInv
<1>1. \A p \in Perms : records[p] = BootFile[p] /\ disk[p] = BootFile[p]
  BY DEF Init
<1>2. \A p \in Perms : BootFile[p].status = "granted" => session[p] # "absent"
  BY DEF Init, GrantedIsEnabled
<1>3. \A h \in Handlers : req[h].fan = {} /\ req[h].gone = {}
  BY DEF Init, Idle
<1> QED
  BY <1>1, <1>2, <1>3 DEF EndInv, Ended

\* A session only goes forward.
Forward == \A p \in Perms :
    /\ session[p] # "absent" => session'[p] # "absent"
    /\ Removing(p) => (Removing(p))'

LEMMA SessionForward == ASSUME IInv, [Next]_vars PROVE Forward
<1>0. TypeOK
  BY DEF IInv
<1>1. ASSUME NEW h \in Handlers, RequestStep(h) PROVE Forward
  <2>1. CASE PrepareStep(h)
    BY <2>1 DEF PrepareStep, PrepareRefused, PrepareArrives, PrepareThrows, PrepareRecords, envVars, Forward, Removing
  <2>2. CASE ShortStep(h)
    BY <2>2 DEF ShortStep, GrantRefused, PauseRefused, GrantRecords, PauseRecords, envVars, Forward, Removing
  <2>3. CASE ListStep(h)
    <3>1. UNCHANGED envVars
      BY <2>3 DEF ListStep, ListArrives, ListResumes, ListReplies, ListReads, ListRevokes
    <3> QED
      BY <3>1 DEF envVars, Forward, Removing
  <2>4. CASE RevokeStep(h)
    <3>1. CASE OpAccepted(h)
      BY <1>0, <3>1 DEF OpAccepted, TypeOK, SessionStates, Forward, Removing
    <3>2. CASE ~OpAccepted(h)
      BY <2>4, <3>2 DEF RevokeStep, RevokeArrives, RelayThrows, RelayReturns, envVars, Forward, Removing
    <3> QED
      BY <3>1, <3>2
  <2> QED
    BY <1>1, <2>1, <2>2, <2>3, <2>4 DEF RequestStep
<1>2. CASE ChainStep
  <2>1. ASSUME NEW p \in Perms, EnableMined(p) \/ OwnerRemoves(p) \/ RemovalMined(p) PROVE Forward
    BY <1>0, <2>1 DEF EnableMined, OwnerRemoves, RemovalMined, TypeOK, SessionStates, Forward, Removing
  <2> QED
    BY <1>2, <2>1 DEF ChainStep
<1>3. CASE Crash
  BY <1>3 DEF Crash, Forward, Removing
<1>4. CASE UNCHANGED vars
  BY <1>4 DEF vars, envVars, Forward, Removing
<1> QED
  BY <1>1, <1>2, <1>3, <1>4 DEF Next

LEMMA EndKeeps == ASSUME GrantAfterLanding, IInv, EndInv, [Next]_vars PROVE EndInv'
<1>0. req \in [Handlers -> HandlerState] /\ TypeOK /\ Forward
  BY SessionForward DEF IInv, TypeOK
<1>1. ASSUME NEW g \in Handlers, RequestStep(g) PROVE EndInv'
  <2>1. PICK s : RegistryEffect(g, s) /\ RequestEffect(g, s)
    BY <1>1, RequestEffects DEF Effect
  <2>2. req'[g] = s /\ \A h \in Handlers : h # g => req'[h] = req[h]
    BY <1>0, <2>1 DEF RequestEffect, Becomes
  <2>3. ASSUME NEW p \in Perms PROVE Ended(p) => (Ended(p))'
    <3>1. ASSUME NEW h \in Handlers, Kind(h) = "revoke", req[h].phase \notin {"idle", "relay"}
          PROVE  req'[h].phase \notin {"idle", "relay"}
      BY <2>1, <2>2, <3>1 DEF RequestEffect
    <3>2. OwnerRevokes(p) => (OwnerRevokes(p))'
      BY <3>1 DEF OwnerRevokes, Kind, Perm
    <3> QED
      BY <1>0, <3>2 DEF Ended, Forward
  <2>4. ASSUME NEW p \in Perms, records'[p].status = "granted" PROVE session'[p] # "absent"
    <3>1. session[p] # "absent"
      BY <2>1, <2>4 DEF RegistryEffect, WrittenBy, EndInv
    <3> QED
      BY <1>0, <3>1 DEF Forward
  <2>5. ASSUME NEW p \in Perms, records'[p].status = "revoked" PROVE (Ended(p))'
    <3>1. CASE records[p].status = "revoked"
      BY <2>3, <3>1 DEF EndInv
    <3>2. CASE p \in req[g].gone
      BY <1>0, <3>2 DEF EndInv, Ended, Forward
    <3>3. CASE Kind(g) = "revoke" /\ Perm(g) = p /\ s.phase = "done"
      BY <2>2, <3>3 DEF Ended, OwnerRevokes, Kind, Perm
    <3> QED
      BY <2>1, <2>5, <3>1, <3>2, <3>3 DEF RegistryEffect, WrittenBy
  <2>6. \A p \in Perms : disk'[p].status = "granted" => session'[p] # "absent"
    BY <1>0, <2>1, <2>4 DEF RegistryEffect, EndInv, Forward
  <2>7. \A p \in Perms : disk'[p].status = "revoked" => (Ended(p))'
    BY <2>1, <2>3, <2>5 DEF RegistryEffect, EndInv
  <2>8. ASSUME NEW h \in Handlers
        PROVE  /\ \A p \in req'[h].fan : session'[p] # "absent"
               /\ \A p \in req'[h].gone : (Removing(p))'
    <3>1. \A k \in Handlers : \A p : p \in req[k].fan \union req[k].gone => p \in Perms
      BY <1>0 DEF HandlerState
    <3>2. \A p \in req[h].fan : session'[p] # "absent"
      BY <1>0, <3>1 DEF EndInv, Forward
    <3>3. \A p \in req[h].gone : (Removing(p))'
      BY <1>0, <3>1 DEF EndInv, Forward
    <3>4. CASE h # g
      BY <2>2, <3>2, <3>3, <3>4
    <3>5. CASE h = g
      <4>1. ASSUME NEW p \in s.fan PROVE session'[p] # "absent"
        BY <1>0, <2>1, <3>2, <3>5, <4>1 DEF RequestEffect, EndInv, Forward
      <4>2. ASSUME NEW p \in s.gone PROVE (Removing(p))'
        <5>1. CASE p \in req[g].gone
          BY <3>3, <3>5, <5>1
        <5>2. CASE p \in req[g].fan /\ ~SessionLive(p)
          <6>1. Removing(p)
            BY <1>0, <3>1, <5>2 DEF EndInv, SessionLive, TypeOK, SessionStates, Removing
          <6> QED
            BY <1>0, <3>1, <5>2, <6>1 DEF Forward
        <5> QED
          BY <2>1, <4>2, <5>1, <5>2 DEF RequestEffect
      <4> QED
        BY <2>2, <3>5, <4>1, <4>2
    <3> QED
      BY <3>4, <3>5
  <2> QED
    BY <2>4, <2>5, <2>6, <2>7, <2>8 DEF EndInv
<1>2. ASSUME UNCHANGED disk, records' = records \/ records' = disk,
             \A h \in Handlers :
                 \/ req'[h] = req[h]
                 \/ req'[h].phase = "dead" /\ req'[h].fan = {} /\ req'[h].gone = {}
      PROVE  EndInv'
  <2>1. ASSUME NEW p \in Perms PROVE Ended(p) => (Ended(p))'
    <3>1. \A h \in Handlers : req[h].phase \notin {"idle", "relay"} => req'[h].phase \notin {"idle", "relay"}
      BY <1>2
    <3>2. OwnerRevokes(p) => (OwnerRevokes(p))'
      BY <3>1 DEF OwnerRevokes, Kind, Perm
    <3> QED
      BY <1>0, <3>2 DEF Ended, Forward
  <2>2. \A h \in Handlers : \A p : p \in req[h].fan \union req[h].gone => p \in Perms
    BY <1>0 DEF HandlerState
  <2>3. \A p \in Perms : records'[p].status = "granted" \/ disk'[p].status = "granted" => session'[p] # "absent"
    BY <1>0, <1>2 DEF EndInv, Forward
  <2>4. \A p \in Perms : records'[p].status = "revoked" \/ disk'[p].status = "revoked" => (Ended(p))'
    BY <1>2, <2>1 DEF EndInv
  <2>5. \A h \in Handlers : /\ \A p \in req'[h].fan : session'[p] # "absent"
                            /\ \A p \in req'[h].gone : (Removing(p))'
    BY <1>0, <1>2, <2>2 DEF EndInv, Forward
  <2> QED
    BY <2>3, <2>4, <2>5 DEF EndInv
<1>3. CASE ChainStep
  <2>1. UNCHANGED <<regVars, req>>
    BY <1>3 DEF ChainStep, EnableMined, OwnerRemoves, RemovalMined
  <2> QED
    BY <1>2, <2>1 DEF regVars
<1>4. CASE Crash
  <2>1. /\ records' = disk /\ disk' = disk
        /\ req' = [h \in Handlers |-> IF req[h].phase \in {"idle", "done", "dead"} THEN req[h]
                                      ELSE [Idle EXCEPT !.phase = "dead"]]
    BY <1>4 DEF Crash
  <2>2. [Idle EXCEPT !.phase = "dead"].phase = "dead" /\ [Idle EXCEPT !.phase = "dead"].fan = {}
          /\ [Idle EXCEPT !.phase = "dead"].gone = {}
    BY DEF Idle
  <2> QED
    BY <1>2, <2>1, <2>2
<1>5. CASE UNCHANGED vars
  BY <1>2, <1>5 DEF vars, regVars
<1> QED
  BY <1>1, <1>3, <1>4, <1>5 DEF Next

\* "self-heal: on-chain gone -> revoked" (server.ts list): where the app reports a grant only
\* after the enable landed, no failing read and no pending enable ends a session, for every
\* interleaving of the requests with the owner's removals.
THEOREM EndsByRemoval == ASSUME GrantAfterLanding, GrantedIsEnabled PROVE Spec => []EndedOnlyByRemoval
<1>1. EndInv => EndedOnlyByRemoval
  BY DEF EndInv, Ended, EndedOnlyByRemoval
<1>2. Init => EndInv
  BY EndStarts
<1>3. IInv /\ EndInv /\ [Next]_vars => EndInv'
  BY EndKeeps
<1> QED
  BY <1>1, <1>2, <1>3, Invariance, PTL DEF Spec
=============================================================================
