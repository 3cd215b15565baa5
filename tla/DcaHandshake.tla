---------------------------- MODULE DcaHandshake ----------------------------
(***************************************************************************)
(* Recurring buys in the user-service: the scheduler loop that builds and  *)
(* parks a buy for every due schedule (DcaScheduler.kt), the app's signed  *)
(* submit (Application.kt, POST /v1/me/dca/{id}/submit), the gate before   *)
(* both (SubmitGate.kt), the tables behind them, and the chain.            *)
(*                                                                         *)
(* Every repository method runs its SQL in a connection of its own, so     *)
(* each database access is one atomic step and anything may happen between *)
(* two of them: the loop is one coroutine, submit requests run on threads  *)
(* of their own.  The clock counts coarse units; a parked op can execute   *)
(* until Deadline units after it was built.                                *)
(***************************************************************************)
EXTENDS Integers, Sequences, FiniteSets, Functions

CONSTANTS
    Scheds,       \* rows of dca_schedule (enabled, with a permission)
    Unbuildable,  \* schedules whose build aa-trigger always refuses
    Plan,         \* schedule -> [account, purse, amount, interval]
    Accounts,     \* smart accounts
    Purses,       \* (user, chain, token) triples of aa_exposure
    ExposureCap,  \* purse -> cap
    Requests,     \* submit requests of the app
    Deadline,     \* life of a built op
    MaxTime,      \* bound of the clock
    MaxFaults,    \* bound on failing calls, lost answers, crashes and nonces used elsewhere
    Serial,       \* TRUE when the app sends one submit at a time
    KillSwitch,   \* TRUE when the operator uses the kill-switch
    Volatile      \* accounts whose session is revoked and registered again

VARIABLES
    time,
    nextRun,  \* dca_schedule.next_run_at
    rows,     \* dca_pending_buy in order of insertion
    spent,    \* aa_exposure.spent
    paused,   \* aa_killswitch.paused
    active,   \* accounts with an active aa_session row
    loop,     \* the scheduler coroutine
    sub,      \* request -> its handler
    ops,      \* row -> what the bundler and the chain know of its op
    nonce,    \* account -> EntryPoint sequence of lane 0
    faults

db == <<nextRun, rows, spent, paused, active>>
chain == <<ops, nonce>>
vars == <<time, db, loop, sub, chain, faults>>

ASSUME PlanAssumption ==
    /\ Scheds # {} /\ Unbuildable \subseteq Scheds
    /\ \A s \in Scheds : /\ Plan[s].account \in Accounts
                         /\ Plan[s].purse \in Purses
                         /\ Plan[s].amount \in Nat \ {0}
                         /\ Plan[s].interval \in Nat \ {0}
    /\ \A u \in Purses : ExposureCap[u] \in Nat
    /\ Deadline \in Nat /\ MaxTime \in Nat /\ MaxFaults \in Nat

RowStatus == {"pending", "submitted", "failed"}
Row == [sched: Scheds, status: RowStatus, nonce: Nat, builtAt: Nat]

\* unsent: parked only; mempool: accepted by the bundler; landed, reverted: included.
OpStatus == {"unsent", "mempool", "landed", "reverted"}

LoopState == [pc: {"sleep", "pick", "paused", "exposure", "build", "park", "mark"},
              due: SUBSET Scheds, now: Nat, cur: Scheds, nonce: Nat]
SubState == [pc: {"idle", "lookup", "paused", "exposure", "relay", "relayed", "record", "mark", "fail", "done"},
             row: Nat]

Amount(i) == Plan[rows[i].sched].amount
Purse(i) == Plan[rows[i].sched].purse
Account(i) == Plan[rows[i].sched].account

Asleep == [pc |-> "sleep", due |-> {}, now |-> 0, cur |-> CHOOSE s \in Scheds : TRUE, nonce |-> 0]

Init ==
    /\ time = 0
    /\ nextRun = [s \in Scheds |-> 0]
    /\ rows = <<>>
    /\ spent = [u \in Purses |-> 0]
    /\ paused = FALSE
    /\ active = Accounts
    /\ loop = Asleep
    /\ sub = [r \in Requests |-> [pc |-> "idle", row |-> 0]]
    /\ ops = <<>>
    /\ nonce = [a \in Accounts |-> 0]
    /\ faults = 0

\* SubmitGate.check reads the kill-switch first and the exposure row second.
WithinExposureCap(u, amount) == spent[u] + amount <= ExposureCap[u]

-----------------------------------------------------------------------------
(* DcaScheduler.tick.                                                      *)

TickStarts ==
    /\ loop.pc = "sleep"
    /\ loop' = [loop EXCEPT !.pc = "pick", !.now = time, !.due = {s \in Scheds : nextRun[s] <= time}]
    /\ UNCHANGED <<time, db, sub, chain, faults>>

TickEnds ==
    /\ loop.pc = "pick" /\ loop.due = {}
    /\ loop' = Asleep
    /\ UNCHANGED <<time, db, sub, chain, faults>>

\* The next due schedule; an account without an active session skips the slot.
PicksSchedule(s) ==
    /\ loop.pc = "pick" /\ s \in loop.due
    /\ loop' = [loop EXCEPT !.due = @ \ {s}, !.cur = s,
                            !.pc = IF Plan[s].account \in active THEN "paused" ELSE "mark"]
    /\ UNCHANGED <<time, db, sub, chain, faults>>

LoopGatePaused ==
    /\ loop.pc = "paused"
    /\ loop' = [loop EXCEPT !.pc = IF paused THEN "mark" ELSE "exposure"]
    /\ UNCHANGED <<time, db, sub, chain, faults>>

LoopGateExposure ==
    /\ loop.pc = "exposure"
    /\ loop' = [loop EXCEPT !.pc = IF WithinExposureCap(Plan[loop.cur].purse, Plan[loop.cur].amount)
                                   THEN "build" ELSE "mark"]
    /\ UNCHANGED <<time, db, sub, chain, faults>>

\* A tick that ends at the first build that is refused.
BuildRefusedSinksTick ==
    /\ loop.pc = "build" /\ loop.cur \in Unbuildable
    /\ loop' = Asleep
    /\ UNCHANGED <<time, db, sub, chain, faults>>

\* A schedule aa-trigger cannot build for (no session, calls that do not simulate): it stays due,
\* and the tick goes on.
BuildRefused ==
    /\ loop.pc = "build" /\ loop.cur \in Unbuildable
    /\ loop' = [loop EXCEPT !.pc = "pick"]
    /\ UNCHANGED <<time, db, sub, chain, faults>>

\* aa-trigger builds the op with the account's current nonce of lane 0.
Builds ==
    /\ loop.pc = "build" /\ loop.cur \notin Unbuildable
    /\ loop' = [loop EXCEPT !.pc = "park", !.nonce = nonce[Plan[loop.cur].account]]
    /\ UNCHANGED <<time, db, sub, chain, faults>>

HasOpenRow(s) == \E i \in DOMAIN rows : rows[i].sched = s /\ rows[i].status = "pending"

\* An add without the partial unique index.
ParksAlways ==
    /\ loop.pc = "park"
    /\ rows' = Append(rows, [sched |-> loop.cur, status |-> "pending", nonce |-> loop.nonce, builtAt |-> loop.now])
    /\ ops' = Append(ops, "unsent")
    /\ loop' = [loop EXCEPT !.pc = "mark"]
    /\ UNCHANGED <<time, nextRun, spent, paused, active, sub, nonce, faults>>

\* PendingBuyRepository.add: a second open build of a schedule is dropped.
Parks ==
    /\ loop.pc = "park"
    /\ IF HasOpenRow(loop.cur) THEN UNCHANGED <<rows, ops>>
       ELSE /\ rows' = Append(rows, [sched |-> loop.cur, status |-> "pending",
                                     nonce |-> loop.nonce, builtAt |-> loop.now])
            /\ ops' = Append(ops, "unsent")
    /\ loop' = [loop EXCEPT !.pc = "mark"]
    /\ UNCHANGED <<time, nextRun, spent, paused, active, sub, nonce, faults>>

\* A markRun that forgets the interval.
MarksRunNow ==
    /\ loop.pc = "mark"
    /\ nextRun' = [nextRun EXCEPT ![loop.cur] = loop.now]
    /\ loop' = [loop EXCEPT !.pc = "pick"]
    /\ UNCHANGED <<time, rows, spent, paused, active, sub, chain, faults>>

MarksRun ==
    /\ loop.pc = "mark"
    /\ nextRun' = [nextRun EXCEPT ![loop.cur] = loop.now + Plan[loop.cur].interval]
    /\ loop' = [loop EXCEPT !.pc = "pick"]
    /\ UNCHANGED <<time, rows, spent, paused, active, sub, chain, faults>>

\* A database or build call throws: the schedule is left as it is for the next tick.
LoopStepFails ==
    /\ faults < MaxFaults
    /\ loop.pc \in {"paused", "exposure", "build", "park", "mark"}
    /\ faults' = faults + 1
    /\ loop' = [loop EXCEPT !.pc = "pick"]
    /\ UNCHANGED <<time, db, sub, chain>>

-----------------------------------------------------------------------------
(* POST /v1/me/dca/{id}/submit.                                            *)

Goes(r, pc) == sub' = [sub EXCEPT ![r].pc = pc]

\* The app submits a signature for a buy it has fetched at some time.
SubmitArrives(r, i) ==
    /\ sub[r].pc = "idle"
    /\ Serial => \A q \in Requests : sub[q].pc \in {"idle", "done"}
    /\ sub' = [sub EXCEPT ![r] = [pc |-> "lookup", row |-> i]]
    /\ UNCHANGED <<time, db, loop, chain, faults>>

\* A lookup that does not ask for the status.
LooksUpAny(r) ==
    /\ sub[r].pc = "lookup"
    /\ Goes(r, "paused")
    /\ UNCHANGED <<time, db, loop, chain, faults>>

\* getPendingForUser: only an open buy is found.
LooksUp(r) ==
    /\ sub[r].pc = "lookup"
    /\ Goes(r, IF rows[sub[r].row].status = "pending" THEN "paused" ELSE "done")
    /\ UNCHANGED <<time, db, loop, chain, faults>>

SubmitGatePaused(r) ==
    /\ sub[r].pc = "paused"
    /\ Goes(r, IF paused THEN "fail" ELSE "exposure")
    /\ UNCHANGED <<time, db, loop, chain, faults>>

\* A second gate that is not asked again at submit time.
SubmitGateSkipped(r) ==
    /\ sub[r].pc = "exposure"
    /\ Goes(r, "relay")
    /\ UNCHANGED <<time, db, loop, chain, faults>>

SubmitGateExposure(r) ==
    /\ sub[r].pc = "exposure"
    /\ Goes(r, IF WithinExposureCap(Purse(sub[r].row), Amount(sub[r].row)) THEN "relay" ELSE "fail")
    /\ UNCHANGED <<time, db, loop, chain, faults>>

\* aa-trigger sends the parked op; the bundler accepts it when its nonce is the next one.
\* A bundler that already has the op may answer with its hash again.
RelayAccepted(r) ==
    LET i == sub[r].row
    IN  /\ sub[r].pc = "relay"
        /\ \/ ops[i] = "unsent" /\ rows[i].nonce = nonce[Account(i)]
           \/ ops[i] = "mempool"
        /\ ops' = [ops EXCEPT ![i] = "mempool"]
        /\ Goes(r, "relayed")
        /\ UNCHANGED <<time, db, loop, nonce, faults>>

\* A handler that takes an error answer for an accepted op.
RelayRefusedIgnored(r) ==
    /\ sub[r].pc = "relay"
    /\ Goes(r, "record")
    /\ UNCHANGED <<time, db, loop, chain, faults>>

\* A handler that tries again for as long as the bundler refuses.
RelayRefusedRetries(r) ==
    /\ sub[r].pc = "relay"
    /\ Goes(r, "paused")
    /\ UNCHANGED <<time, db, loop, chain, faults>>

\* The bundler refuses the op: a used nonce, an op it already knows, a signature that is not
\* the owner's, a session that is gone.
RelayRefused(r) ==
    /\ sub[r].pc = "relay"
    /\ Goes(r, "fail")
    /\ UNCHANGED <<time, db, loop, chain, faults>>

RelayAnswered(r) ==
    /\ sub[r].pc = "relayed"
    /\ Goes(r, "record")
    /\ UNCHANGED <<time, db, loop, chain, faults>>

\* The call to aa-trigger fails: before the op was sent, or after (timeout, lost answer).
RelayFails(r) ==
    /\ faults < MaxFaults
    /\ sub[r].pc \in {"relay", "relayed"}
    /\ faults' = faults + 1
    /\ Goes(r, "fail")
    /\ UNCHANGED <<time, db, loop, chain>>

\* A handler that forgets to record the spend.
RecordsNothing(r) ==
    /\ sub[r].pc = "record"
    /\ Goes(r, "mark")
    /\ UNCHANGED <<time, db, loop, chain, faults>>

\* A handler that books the buy with the wrong sign.
RecordsRefund(r) ==
    /\ sub[r].pc = "record"
    /\ spent' = [spent EXCEPT ![Purse(sub[r].row)] = @ - Amount(sub[r].row)]
    /\ Goes(r, "mark")
    /\ UNCHANGED <<time, nextRun, rows, paused, active, loop, chain, faults>>

RecordsSpend(r) ==
    /\ sub[r].pc = "record"
    /\ spent' = [spent EXCEPT ![Purse(sub[r].row)] = @ + Amount(sub[r].row)]
    /\ Goes(r, "mark")
    /\ UNCHANGED <<time, nextRun, rows, paused, active, loop, chain, faults>>

\* setStatus has no guard on the current status.
MarksSubmitted(r) ==
    /\ sub[r].pc = "mark"
    /\ rows' = [rows EXCEPT ![sub[r].row].status = "submitted"]
    /\ Goes(r, "done")
    /\ UNCHANGED <<time, nextRun, spent, paused, active, loop, chain, faults>>

MarksFailed(r) ==
    /\ sub[r].pc = "fail"
    /\ rows' = [rows EXCEPT ![sub[r].row].status = "failed"]
    /\ Goes(r, "done")
    /\ UNCHANGED <<time, nextRun, spent, paused, active, loop, chain, faults>>

\* A database call throws: 500, and nothing after it happens.
RequestDies(r) ==
    /\ faults < MaxFaults
    /\ sub[r].pc \notin {"idle", "relay", "relayed", "done"}
    /\ faults' = faults + 1
    /\ Goes(r, "done")
    /\ UNCHANGED <<time, db, loop, chain>>

-----------------------------------------------------------------------------
(* The user-service process, the clock, the operator and the chain.        *)

Crash ==
    /\ faults < MaxFaults
    /\ faults' = faults + 1
    /\ loop' = Asleep
    /\ sub' = [r \in Requests |-> IF sub[r].pc = "idle" THEN sub[r] ELSE [sub[r] EXCEPT !.pc = "done"]]
    /\ UNCHANGED <<time, db, chain>>

TimePasses ==
    /\ time < MaxTime
    /\ time' = time + 1
    /\ UNCHANGED <<db, loop, sub, chain, faults>>

OperatorPauses ==
    /\ KillSwitch
    /\ paused' = ~paused
    /\ UNCHANGED <<time, nextRun, rows, spent, active, loop, sub, chain, faults>>

\* AaSessionRepository.revoke and a new registration.
SessionChanges(a) ==
    /\ a \in Volatile
    /\ active' = IF a \in active THEN active \ {a} ELSE active \union {a}
    /\ UNCHANGED <<time, nextRun, rows, spent, paused, loop, sub, chain, faults>>

\* Inclusion: only the op with the account's next nonce; a swap past its deadline reverts.
OpIncluded(i, status) ==
    /\ ops[i] = "mempool"
    /\ rows[i].nonce = nonce[Account(i)]
    /\ status = "landed" => time <= rows[i].builtAt + Deadline
    /\ ops' = [ops EXCEPT ![i] = status]
    /\ nonce' = [nonce EXCEPT ![Account(i)] = @ + 1]
    /\ UNCHANGED <<time, db, loop, sub, faults>>

\* Lane 0 of the Smart-Session validator is shared: a copy mirror of the same account can
\* take the nonce a parked buy was built with.
LaneUsedElsewhere(a) ==
    /\ faults < MaxFaults
    /\ faults' = faults + 1
    /\ nonce' = [nonce EXCEPT ![a] = @ + 1]
    /\ UNCHANGED <<time, db, loop, sub, ops>>

-----------------------------------------------------------------------------
LoopStep ==
    \/ TickStarts \/ TickEnds \/ LoopGatePaused \/ LoopGateExposure \/ BuildRefused \/ Builds \/ Parks \/ MarksRun
    \/ \E s \in Scheds : PicksSchedule(s)

SubmitStep(r) ==
    \/ LooksUp(r) \/ SubmitGatePaused(r) \/ SubmitGateExposure(r)
    \/ RelayAccepted(r) \/ RelayRefused(r) \/ RelayAnswered(r)
    \/ RecordsSpend(r) \/ MarksSubmitted(r) \/ MarksFailed(r)

Next ==
    \/ LoopStep \/ LoopStepFails
    \/ \E r \in Requests : \/ SubmitStep(r) \/ RelayFails(r) \/ RequestDies(r)
                           \/ \E i \in DOMAIN rows : SubmitArrives(r, i)
    \/ Crash \/ TimePasses \/ OperatorPauses
    \/ \E a \in Accounts : SessionChanges(a) \/ LaneUsedElsewhere(a)
    \/ \E i \in DOMAIN rows : OpIncluded(i, "landed") \/ OpIncluded(i, "reverted")

Spec == Init /\ [][Next]_vars

\* The coroutines make progress (every call has a timeout) and the clock runs; nothing is
\* assumed of the app, the operator or the chain.
Fairness ==
    /\ WF_vars(LoopStep)
    /\ \A r \in Requests : WF_vars(SubmitStep(r))
    /\ WF_vars(TimePasses)

FairSpec == Spec /\ Fairness

-----------------------------------------------------------------------------
(* Properties.                                                             *)

\* Every variable has its type, and every request and op refers to a row.
TypeOK ==
    /\ time \in 0 .. MaxTime
    /\ nextRun \in [Scheds -> Nat]
    /\ rows \in Seq(Row)
    /\ spent \in [Purses -> Nat]
    /\ paused \in BOOLEAN
    /\ active \subseteq Accounts
    /\ loop \in LoopState
    /\ sub \in [Requests -> SubState]
    /\ \A r \in Requests : sub[r].pc # "idle" => sub[r].row \in DOMAIN rows
    /\ ops \in Seq(OpStatus) /\ Len(ops) = Len(rows)
    /\ nonce \in [Accounts -> Nat]
    /\ faults \in 0 .. MaxFaults

\* "min 1h cadence" (V3 schema, DcaScheduler.tick): two buys of one schedule are built at
\* least one interval apart, so a slot never buys twice.
OneBuyPerSlot ==
    \A i, j \in DOMAIN rows :
        i < j /\ rows[i].sched = rows[j].sched
            => rows[j].builtAt >= rows[i].builtAt + Plan[rows[i].sched].interval

\* Q7 (SubmitGate.kt): the recorded exposure of a purse never exceeds its cap.
SpentWithinCap == \A u \in Purses : spent[u] <= ExposureCap[u]

\* Q7 accounting: what is recorded is exactly what was handed to the bundler, less the
\* requests that have its answer and are about to record it (Application.kt submit).
Handed(u) == {i \in DOMAIN rows : Purse(i) = u /\ ops[i] # "unsent"}
Unrecorded(u) == {r \in Requests : sub[r].pc \in {"relayed", "record"} /\ Purse(sub[r].row) = u}
SpendRecorded ==
    \A u \in Purses : spent[u] = SumFunction([i \in Handed(u) |-> Amount(i)])
                                 - SumFunction([r \in Unrecorded(u) |-> Amount(sub[r].row)])

\* "status flows pending -> submitted | failed" (V4 schema): a closed buy stays as it is.
StatusFinal ==
    [][\A i \in DOMAIN rows : rows[i].status # "pending" => rows'[i].status = rows[i].status]_vars

\* A row says what became of its op: submitted means the bundler has it, failed means it never
\* does (Application.kt submit, PendingBuyRepository.setStatus).
RowMatchesOp ==
    \A i \in DOMAIN rows : /\ rows[i].status = "submitted" => ops[i] # "unsent"
                           /\ rows[i].status = "failed" => ops[i] = "unsent"

\* Even with concurrent submits and faults a buy is only ever marked submitted after the
\* bundler took its op, and no schedule has two open builds (V4 idx_dca_pending_open).
HandshakeSafe ==
    /\ \A i \in DOMAIN rows : rows[i].status = "submitted" => ops[i] # "unsent"
    /\ \A i, j \in DOMAIN rows :
          rows[i].sched = rows[j].sched /\ rows[i].status = "pending" /\ rows[j].status = "pending" => i = j

\* "one failure never sinks the tick" (DcaScheduler.tick): a due schedule is eventually advanced
\* past the present, whether its buy was built, gated or already open, and however often the
\* builds of other schedules fail.
DueAdvances ==
    \A s \in Scheds \ Unbuildable : \A t \in 0 .. MaxTime : nextRun[s] = t /\ time >= t ~> nextRun[s] > t

\* Every submit is eventually answered (Application.kt submit).
SubmitsFinish == \A r \in Requests : sub[r].pc # "idle" ~> sub[r].pc = "done"
=============================================================================
