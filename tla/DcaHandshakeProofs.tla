------------------------- MODULE DcaHandshakeProofs -------------------------
(***************************************************************************)
(* Proofs about DcaHandshake: types and the handshake of a parked buy for  *)
(* every interleaving and fault, the slots of a schedule without faults,   *)
(* and the exposure cap, the rows and the recorded spend of one submit at  *)
(* a time.                                                                 *)
(***************************************************************************)
EXTENDS DcaHandshake, Weighing, SequenceTheorems

-----------------------------------------------------------------------------
(* Steps on the tables.                                                    *)

\* Only the status of row i changes.
Closes(i, status) == rows' = [rows EXCEPT ![i].status = status]

\* A new open row, with an op that nobody has sent.
Opens ==
    /\ rows' = Append(rows, [sched |-> loop.cur, status |-> "pending", nonce |-> loop.nonce, builtAt |-> loop.now])
    /\ ops' = Append(ops, "unsent")

LEMMA ClosedRow ==
    ASSUME TypeOK, NEW i \in DOMAIN rows, NEW status \in RowStatus, Closes(i, status)
    PROVE  /\ rows' \in Seq(Row) /\ DOMAIN rows' = DOMAIN rows /\ Len(rows') = Len(rows)
           /\ rows'[i].status = status
           /\ \A j \in DOMAIN rows : j # i => rows'[j] = rows[j]
           /\ \A j \in DOMAIN rows : /\ rows'[j].sched = rows[j].sched
                                     /\ rows'[j].nonce = rows[j].nonce
                                     /\ rows'[j].builtAt = rows[j].builtAt
<1> DEFINE s == [rows[i] EXCEPT !.status = status]
<1>1. rows \in Seq(Row) /\ DOMAIN rows = 1 .. Len(rows) /\ rows[i] \in Row
  BY LenProperties, ElementOfSeq DEF TypeOK
<1>2. s \in Row /\ s.status = status /\ s.sched = rows[i].sched /\ s.nonce = rows[i].nonce
        /\ s.builtAt = rows[i].builtAt
  BY <1>1 DEF Row
<1>3. rows' = [rows EXCEPT ![i] = s]
  BY DEF Closes
<1> HIDE DEF s
<1>4. rows' \in Seq(Row) /\ Len(rows') = Len(rows)
  BY <1>1, <1>2, <1>3, ExceptSeq
<1>5. DOMAIN rows' = DOMAIN rows /\ rows'[i] = s /\ \A j \in DOMAIN rows : j # i => rows'[j] = rows[j]
  BY <1>1, <1>3
<1> QED
  BY <1>2, <1>4, <1>5

LEMMA OpenedRow ==
    ASSUME TypeOK, Opens
    PROVE  \E n : /\ n \notin DOMAIN rows /\ DOMAIN rows' = DOMAIN rows \union {n} /\ n = Len(rows) + 1
                  /\ rows' \in Seq(Row) /\ ops' \in Seq(OpStatus) /\ Len(ops') = Len(rows')
                  /\ DOMAIN ops = DOMAIN rows
                  /\ ops'[n] = "unsent" /\ rows'[n].sched = loop.cur /\ rows'[n].status = "pending"
                  /\ rows'[n].builtAt = loop.now
                  /\ \A j \in DOMAIN rows : j < n /\ rows'[j] = rows[j] /\ ops'[j] = ops[j]
<1> DEFINE s == [sched |-> loop.cur, status |-> "pending", nonce |-> loop.nonce, builtAt |-> loop.now]
           n == Len(rows) + 1
<1>1. s \in Row /\ s.sched = loop.cur /\ s.status = "pending" /\ s.builtAt = loop.now
  BY DEF TypeOK, LoopState, Row, RowStatus
<1>2. rows' = Append(rows, s)
  BY DEF Opens
<1> HIDE DEF s
<1>3. /\ rows' \in Seq(Row) /\ Len(rows') = n /\ rows'[n] = s
      /\ \A j \in 1 .. Len(rows) : rows'[j] = rows[j]
  BY <1>1, <1>2, AppendProperties DEF TypeOK
<1>4. /\ ops' \in Seq(OpStatus) /\ Len(ops') = Len(ops) + 1 /\ ops'[Len(ops) + 1] = "unsent"
      /\ \A j \in 1 .. Len(ops) : ops'[j] = ops[j]
  BY AppendProperties DEF TypeOK, Opens, OpStatus
<1>5. /\ DOMAIN rows = 1 .. Len(rows) /\ DOMAIN ops = 1 .. Len(ops) /\ Len(rows) \in Nat /\ Len(ops) = Len(rows)
      /\ DOMAIN rows' = 1 .. n
  BY <1>3, LenProperties DEF TypeOK
<1>6. n \notin DOMAIN rows /\ DOMAIN rows' = DOMAIN rows \union {n} /\ \A j \in DOMAIN rows : j < n
  BY <1>5
<1> QED
  BY <1>1, <1>3, <1>4, <1>5, <1>6

\* The rows and ops have the same indices.
LEMMA SameDomains == ASSUME TypeOK PROVE DOMAIN ops = DOMAIN rows /\ DOMAIN rows = 1 .. Len(rows) /\ Len(rows) \in Nat
BY LenProperties DEF TypeOK

LEMMA RowTypes ==
    ASSUME TypeOK, NEW i \in DOMAIN rows
    PROVE  /\ rows[i] \in Row /\ rows[i].builtAt \in Nat /\ rows[i].sched \in Scheds
           /\ Purse(i) \in Purses /\ Account(i) \in Accounts /\ Amount(i) \in Nat \ {0}
<1>1. rows[i] \in Row
  BY SameDomains, ElementOfSeq DEF TypeOK
<1>2. rows[i].sched \in Scheds /\ rows[i].builtAt \in Nat
  BY <1>1 DEF Row
<1> QED
  BY <1>1, <1>2, PlanAssumption DEF Purse, Account, Amount

\* What happens to the ops when no row is added: none returns to unsent.
OpsAdvance ==
    /\ ops' \in Seq(OpStatus) /\ Len(ops') = Len(ops)
    /\ \A i \in DOMAIN ops : ops[i] # "unsent" => ops'[i] # "unsent"

LEMMA OpAdvances ==
    ASSUME TypeOK, NEW i \in DOMAIN rows, NEW s \in OpStatus \ {"unsent"}, ops' = [ops EXCEPT ![i] = s]
    PROVE  OpsAdvance /\ ops'[i] = s /\ \A j \in DOMAIN ops : j # i => ops'[j] = ops[j]
<1>1. ops' \in Seq(OpStatus) /\ Len(ops') = Len(ops)
  BY SameDomains, ExceptSeq DEF TypeOK
<1>2. ops'[i] = s /\ \A j \in DOMAIN ops : j # i => ops'[j] = ops[j]
  BY SameDomains
<1> QED
  BY <1>1, <1>2 DEF OpsAdvance

-----------------------------------------------------------------------------
(* The moves of a step.                                                    *)

\* Tables, requests and ops stay: the scheduler, the clock, the operator, the lane.
TablesRest == UNCHANGED <<rows, spent, sub, ops>>

\* The scheduler parks a buy of a schedule that has no open one.
ParksBuy == loop.pc = "park" /\ ~HasOpenRow(loop.cur) /\ Opens /\ UNCHANGED <<spent, sub>>

\* The chain includes an op of the mempool.
Includes ==
    \E i \in DOMAIN rows, s \in {"landed", "reverted"} :
        ops[i] = "mempool" /\ ops' = [ops EXCEPT ![i] = s] /\ UNCHANGED <<rows, spent, sub>>

\* A request moves on; RelayAccepted and the three steps that write a table are named apart.
Advances(r) ==
    /\ UNCHANGED <<rows, spent, ops>>
    /\ \/ \E i \in DOMAIN rows : SubmitArrives(r, i)
       \/ LooksUp(r) \/ SubmitGatePaused(r) \/ SubmitGateExposure(r) \/ RelayRefused(r) \/ RelayAnswered(r)
       \/ RelayFails(r) \/ RequestDies(r)

Relays(r) == RelayAccepted(r) /\ UNCHANGED <<rows, spent>>
Records(r) == RecordsSpend(r) /\ UNCHANGED <<rows, ops>>
Closing(r) == (MarksSubmitted(r) \/ MarksFailed(r)) /\ UNCHANGED <<spent, ops>>

LEMMA TableMoves ==
    ASSUME TypeOK, [Next]_vars
    PROVE  \/ TablesRest \/ ParksBuy \/ Includes \/ Crash
           \/ \E r \in Requests : Advances(r) \/ Relays(r) \/ Records(r) \/ Closing(r)
<1> USE DEF db, chain, vars
<1>1. CASE LoopStep \/ LoopStepFails
  BY <1>1 DEF LoopStep, LoopStepFails, TickStarts, TickEnds, LoopGatePaused, LoopGateExposure, BuildRefused, Builds, Parks, MarksRun,
              PicksSchedule, TablesRest, ParksBuy, Opens
<1>2. ASSUME NEW r \in Requests, SubmitStep(r) PROVE Advances(r) \/ Relays(r) \/ Records(r) \/ Closing(r)
  BY <1>2 DEF SubmitStep, LooksUp, SubmitGatePaused, SubmitGateExposure, RelayAccepted, RelayRefused, RelayAnswered,
              RecordsSpend, MarksSubmitted, MarksFailed, Advances, Relays, Records, Closing
<1>3. ASSUME NEW r \in Requests, RelayFails(r) \/ RequestDies(r) \/ \E i \in DOMAIN rows : SubmitArrives(r, i)
      PROVE  Advances(r)
  BY <1>3 DEF RelayFails, RequestDies, SubmitArrives, Advances
<1>4. CASE TimePasses \/ OperatorPauses \/ (\E a \in Accounts : SessionChanges(a) \/ LaneUsedElsewhere(a))
             \/ UNCHANGED vars
  BY <1>4 DEF TimePasses, OperatorPauses, SessionChanges, LaneUsedElsewhere, TablesRest
<1>5. ASSUME NEW i \in DOMAIN rows, OpIncluded(i, "landed") \/ OpIncluded(i, "reverted") PROVE Includes
  BY <1>5 DEF OpIncluded, Includes
<1> QED
  BY <1>1, <1>2, <1>3, <1>4, <1>5 DEF Next

\* A request step moves only its own request.
LEMMA RequestMoves ==
    ASSUME TypeOK, NEW r \in Requests, Advances(r) \/ Relays(r) \/ Records(r) \/ Closing(r)
    PROVE  /\ sub' \in [Requests -> SubState]
           /\ sub'[r].row \in DOMAIN rows
           /\ \A q \in Requests : q # r => sub'[q] = sub[q]
<1>1. sub[r] \in SubState /\ DOMAIN rows \subseteq Nat
  BY SameDomains DEF TypeOK
<1>2. ASSUME NEW pc \in {"paused", "exposure", "relay", "relayed", "record", "mark", "fail", "done"}, Goes(r, pc),
             sub[r].pc # "idle"
      PROVE  sub' \in [Requests -> SubState] /\ sub'[r].row \in DOMAIN rows
               /\ \A q \in Requests : q # r => sub'[q] = sub[q]
  BY <1>1, <1>2 DEF TypeOK, Goes, SubState
<1>3. ASSUME NEW i \in DOMAIN rows, SubmitArrives(r, i)
      PROVE  sub' \in [Requests -> SubState] /\ sub'[r].row \in DOMAIN rows
               /\ \A q \in Requests : q # r => sub'[q] = sub[q]
  BY <1>1, <1>3 DEF TypeOK, SubmitArrives, SubState
<1>4. ASSUME ~\E i \in DOMAIN rows : SubmitArrives(r, i)
      PROVE  sub[r].pc # "idle" /\
             \E pc \in {"paused", "exposure", "relay", "relayed", "record", "mark", "fail", "done"} : Goes(r, pc)
  BY <1>4 DEF Advances, Relays, Records, Closing, LooksUp, SubmitGatePaused, SubmitGateExposure, RelayAccepted,
              RelayRefused, RelayAnswered, RelayFails, RequestDies, RecordsSpend, MarksSubmitted, MarksFailed
<1> QED
  BY <1>2, <1>3, <1>4

-----------------------------------------------------------------------------
(* Types.                                                                  *)

LEMMA InitTypes == Init => TypeOK
<1> SUFFICES ASSUME Init PROVE TypeOK
  OBVIOUS
<1>1. Asleep \in LoopState
  BY PlanAssumption DEF Asleep, LoopState
<1>2. rows \in Seq(Row) /\ ops \in Seq(OpStatus) /\ Len(ops) = Len(rows)
  BY EmptySeq DEF Init
<1>3. sub \in [Requests -> SubState] /\ \A r \in Requests : sub[r].pc = "idle"
  BY DEF Init, SubState
<1> QED
  <2>1. paused \in BOOLEAN /\ active \subseteq Accounts /\ loop \in LoopState
    BY <1>1 DEF Init
  <2>2. /\ time \in 0 .. MaxTime /\ faults \in 0 .. MaxFaults /\ nextRun \in [Scheds -> Nat]
        /\ spent \in [Purses -> Nat] /\ nonce \in [Accounts -> Nat]
    BY PlanAssumption DEF Init
  <2> QED
    BY <1>2, <1>3, <2>1, <2>2 DEF TypeOK

\* The scheduler's own variables.
LoopTypes == loop \in LoopState /\ nextRun \in [Scheds -> Nat] /\ time \in 0 .. MaxTime /\ paused \in BOOLEAN
               /\ active \subseteq Accounts /\ nonce \in [Accounts -> Nat] /\ faults \in 0 .. MaxFaults

LEMMA LoopTyped == ASSUME TypeOK, [Next]_vars PROVE LoopTypes'
<1> USE DEF db, chain, vars
<1>0. LoopTypes /\ MaxFaults \in Nat /\ MaxTime \in Nat
  BY PlanAssumption DEF TypeOK, LoopTypes
<1>asleep. Asleep \in LoopState
  BY PlanAssumption DEF Asleep, LoopState
<1>1. CASE LoopStep
  <2>1. CASE TickStarts
    <3>1. time \in Nat /\ {s \in Scheds : nextRun[s] <= time} \in SUBSET Scheds
      BY <1>0 DEF LoopTypes
    <3>2. loop' \in LoopState
      BY <1>0, <2>1, <3>1 DEF TickStarts, LoopTypes, LoopState
    <3> QED
      BY <1>0, <2>1, <3>2 DEF TickStarts, LoopTypes
  <2>6. CASE TickEnds
    BY <1>0, <1>asleep, <2>6 DEF TickEnds, LoopTypes
  <2>0. CASE LoopGatePaused \/ LoopGateExposure \/ BuildRefused
    BY <1>0, <2>0 DEF LoopGatePaused, LoopGateExposure, BuildRefused, LoopTypes, LoopState
  <2>5. ASSUME NEW s \in Scheds, PicksSchedule(s) PROVE LoopTypes'
    BY <1>0, <2>5 DEF PicksSchedule, LoopTypes, LoopState
  <2>2. CASE Builds
    <3>1. nonce[Plan[loop.cur].account] \in Nat
      BY <1>0, PlanAssumption DEF LoopTypes, LoopState
    <3> QED
      BY <1>0, <2>2, <3>1 DEF Builds, LoopTypes, LoopState
  <2>3. CASE Parks
    BY <1>0, <2>3 DEF Parks, LoopTypes, LoopState
  <2>4. CASE MarksRun
    <3>1. loop.now + Plan[loop.cur].interval \in Nat
      BY <1>0, PlanAssumption DEF LoopTypes, LoopState
    <3> QED
      BY <1>0, <2>4, <3>1 DEF MarksRun, LoopTypes, LoopState
  <2> QED
    BY <1>1, <2>0, <2>1, <2>2, <2>3, <2>4, <2>5, <2>6 DEF LoopStep
<1>2. CASE LoopStepFails
  BY <1>0, <1>2 DEF LoopStepFails, LoopTypes, LoopState
<1>3. ASSUME NEW r \in Requests, SubmitStep(r) PROVE LoopTypes'
  <2>1. UNCHANGED <<loop, nextRun, time, paused, active, nonce, faults>>
    BY <1>3 DEF SubmitStep, LooksUp, SubmitGatePaused, SubmitGateExposure, RelayAccepted, RelayRefused,
                RelayAnswered, RecordsSpend, MarksSubmitted, MarksFailed
  <2> QED
    BY <1>0, <2>1 DEF LoopTypes
<1>4. ASSUME NEW r \in Requests, RelayFails(r) \/ RequestDies(r) \/ \E i \in DOMAIN rows : SubmitArrives(r, i)
      PROVE  LoopTypes'
  BY <1>0, <1>4 DEF RelayFails, RequestDies, SubmitArrives, LoopTypes
<1>5. CASE Crash
  BY <1>0, <1>asleep, <1>5 DEF Crash, LoopTypes
<1>6. CASE TimePasses \/ UNCHANGED vars
  BY <1>0, <1>6 DEF TimePasses, LoopTypes
<1>9. CASE OperatorPauses
  <2>1. paused' \in BOOLEAN
    BY <1>9 DEF OperatorPauses
  <2>2. UNCHANGED <<loop, nextRun, time, active, nonce, faults>>
    BY <1>9 DEF OperatorPauses
  <2> QED
    BY <1>0, <2>1, <2>2 DEF LoopTypes
<1>7. ASSUME NEW a \in Accounts, SessionChanges(a) \/ LaneUsedElsewhere(a) PROVE LoopTypes'
  BY <1>0, <1>7 DEF SessionChanges, LaneUsedElsewhere, LoopTypes
<1>8. ASSUME NEW i \in DOMAIN rows, OpIncluded(i, "landed") \/ OpIncluded(i, "reverted") PROVE LoopTypes'
  <2>1. Account(i) \in Accounts
    BY RowTypes
  <2>2. nonce[Account(i)] + 1 \in Nat
    BY <1>0, <2>1 DEF LoopTypes
  <2> QED
    BY <1>0, <1>8, <2>1, <2>2 DEF OpIncluded, LoopTypes
<1> QED
  BY <1>1, <1>2, <1>3, <1>4, <1>5, <1>6, <1>7, <1>8, <1>9 DEF Next

LEMMA StepTypes == ASSUME TypeOK, [Next]_vars PROVE TypeOK'
<1>0. /\ LoopTypes' /\ rows \in Seq(Row) /\ ops \in Seq(OpStatus) /\ Len(ops) = Len(rows)
      /\ spent \in [Purses -> Nat] /\ sub \in [Requests -> SubState]
      /\ \A r \in Requests : sub[r].pc # "idle" => sub[r].row \in DOMAIN rows
  BY LoopTyped DEF TypeOK
<1> DEFINE Tables == /\ rows \in Seq(Row) /\ ops \in Seq(OpStatus) /\ Len(ops) = Len(rows)
                     /\ spent \in [Purses -> Nat] /\ sub \in [Requests -> SubState]
                     /\ \A r \in Requests : sub[r].pc # "idle" => sub[r].row \in DOMAIN rows
<1> SUFFICES Tables'
  BY <1>0 DEF TypeOK, LoopTypes
<1>1. CASE TablesRest
  BY <1>0, <1>1 DEF TablesRest
<1>2. CASE ParksBuy
  <2>1. /\ rows' \in Seq(Row) /\ ops' \in Seq(OpStatus) /\ Len(ops') = Len(rows')
        /\ DOMAIN rows \subseteq DOMAIN rows'
    BY <1>2, OpenedRow DEF ParksBuy
  <2> QED
    BY <1>0, <1>2, <2>1 DEF ParksBuy
<1>3. CASE Includes
  <2>1. OpsAdvance
    BY <1>3, OpAdvances DEF Includes, OpStatus
  <2> QED
    BY <1>0, <1>3, <2>1 DEF Includes, OpsAdvance
<1>4. CASE Crash
  <2>1. sub' \in [Requests -> SubState] /\ \A r \in Requests : sub'[r].pc # "idle" => sub'[r].row \in DOMAIN rows
    BY <1>0, <1>4 DEF Crash, SubState
  <2> QED
    BY <1>0, <1>4, <2>1 DEF Crash, db, chain
<1>5. ASSUME NEW r \in Requests, Advances(r) \/ Relays(r) \/ Records(r) \/ Closing(r) PROVE Tables'
  <2>1. /\ sub' \in [Requests -> SubState] /\ sub'[r].row \in DOMAIN rows
        /\ \A q \in Requests : q # r => sub'[q] = sub[q]
    BY <1>5, RequestMoves
  <2>2. \A q \in Requests : sub'[q].pc # "idle" => sub'[q].row \in DOMAIN rows
    BY <1>0, <2>1
  <2>3. CASE Advances(r)
    BY <1>0, <2>1, <2>2, <2>3 DEF Advances
  <2>4. CASE Relays(r)
    <3>1. PICK i \in DOMAIN rows : i = sub[r].row
      BY <1>0, <2>4 DEF Relays, RelayAccepted
    <3>2. OpsAdvance
      BY <2>4, <3>1, OpAdvances DEF Relays, RelayAccepted, OpStatus
    <3> QED
      BY <1>0, <2>1, <2>2, <2>4, <3>2 DEF Relays, OpsAdvance
  <2>5. CASE Records(r)
    <3>1. PICK i \in DOMAIN rows : i = sub[r].row
      BY <1>0, <2>5 DEF Records, RecordsSpend
    <3>2. Purse(i) \in Purses /\ Amount(i) \in Nat
      BY <3>1, RowTypes
    <3>3. spent' = [spent EXCEPT ![Purse(i)] = spent[Purse(i)] + Amount(i)]
      BY <2>5, <3>1 DEF Records, RecordsSpend
    <3>4. spent' \in [Purses -> Nat]
      <4>1. spent[Purse(i)] + Amount(i) \in Nat
        BY <1>0, <3>2
      <4> QED
        BY <1>0, <3>3, <4>1
    <3> QED
      BY <1>0, <2>1, <2>2, <2>5, <3>4 DEF Records
  <2>6. CASE Closing(r)
    <3>1. PICK i \in DOMAIN rows : i = sub[r].row
      BY <1>0, <2>6 DEF Closing, MarksSubmitted, MarksFailed
    <3>2. Closes(i, "submitted") \/ Closes(i, "failed")
      BY <2>6, <3>1 DEF Closing, MarksSubmitted, MarksFailed, Closes
    <3>3. rows' \in Seq(Row) /\ DOMAIN rows' = DOMAIN rows /\ Len(rows') = Len(rows)
      BY <3>2, ClosedRow DEF RowStatus
    <3> QED
      BY <1>0, <2>1, <2>2, <2>6, <3>3 DEF Closing
  <2> QED
    BY <1>5, <2>3, <2>4, <2>5, <2>6
<1> QED
  BY <1>1, <1>2, <1>3, <1>4, <1>5, TableMoves

\* Every variable of the DCA handshake keeps its type (DcaScheduler.kt, Application.kt submit).
THEOREM TypeCorrect == Spec => []TypeOK
<1>1. TypeOK /\ [Next]_vars => TypeOK'
  BY StepTypes
<1> QED
  BY <1>1, InitTypes, PTL DEF Spec

-----------------------------------------------------------------------------
(* The handshake, with every fault.                                        *)

\* A request that has the bundler's acceptance behind it is at an op that was sent.
SentBehind == \A r \in Requests : sub[r].pc \in {"relayed", "record", "mark"} => ops[sub[r].row] # "unsent"

HandshakeInv == SentBehind /\ HandshakeSafe

\* Ops that only advance, rows that stay.
LEMMA HandshakeRests ==
    ASSUME TypeOK, HandshakeInv, rows' = rows, ops' = ops \/ OpsAdvance, SentBehind'
    PROVE  HandshakeInv'
BY SameDomains DEF HandshakeInv, HandshakeSafe, OpsAdvance

LEMMA HandshakeKeeps == ASSUME TypeOK, HandshakeInv, [Next]_vars PROVE HandshakeInv'
<1>1. CASE TablesRest
  BY <1>1, HandshakeRests DEF TablesRest, HandshakeInv, SentBehind
<1>2. CASE ParksBuy
  <2>1. PICK n : /\ n \notin DOMAIN rows /\ DOMAIN rows' = DOMAIN rows \union {n} /\ DOMAIN ops = DOMAIN rows
                 /\ ops'[n] = "unsent" /\ rows'[n].sched = loop.cur /\ rows'[n].status = "pending"
                 /\ \A j \in DOMAIN rows : rows'[j] = rows[j] /\ ops'[j] = ops[j]
    BY <1>2, OpenedRow DEF ParksBuy
  <2>2. SentBehind'
    BY <1>2, <2>1 DEF ParksBuy, TypeOK, HandshakeInv, SentBehind
  <2>3. \A j \in DOMAIN rows : rows[j].sched = loop.cur => rows[j].status # "pending"
    BY <1>2 DEF ParksBuy, HasOpenRow
  <2> QED
    BY <2>1, <2>2, <2>3 DEF HandshakeInv, HandshakeSafe
<1>3. CASE Includes
  <2>1. OpsAdvance
    BY <1>3, OpAdvances DEF Includes, OpStatus
  <2>2. SentBehind'
    BY <1>3, <2>1, SameDomains DEF Includes, OpsAdvance, TypeOK, HandshakeInv, SentBehind
  <2> QED
    BY <1>3, <2>1, <2>2, HandshakeRests DEF Includes
<1>4. CASE Crash
  <2>1. rows' = rows /\ ops' = ops /\ \A r \in Requests : sub'[r].pc \in {"idle", "done"}
    BY <1>4 DEF Crash, db, chain, TypeOK, SubState
  <2> QED
    BY <2>1, HandshakeRests DEF SentBehind
<1>5. ASSUME NEW r \in Requests, Advances(r) \/ Relays(r) \/ Records(r) \/ Closing(r) PROVE HandshakeInv'
  <2>1. /\ sub' \in [Requests -> SubState] /\ sub[r] \in SubState
        /\ \A q \in Requests : q # r => sub'[q] = sub[q]
    BY <1>5, RequestMoves DEF TypeOK
  <2>2. CASE Advances(r)
    <3>1. sub'[r].pc \in {"relayed", "record", "mark"} => sub[r].pc = "relayed" /\ sub'[r].row = sub[r].row
      BY <2>1, <2>2 DEF Advances, SubmitArrives, LooksUp, SubmitGatePaused, SubmitGateExposure, RelayRefused,
                        RelayAnswered, RelayFails, RequestDies, Goes, TypeOK, SubState
    <3>2. SentBehind'
      BY <2>1, <2>2, <3>1 DEF Advances, HandshakeInv, SentBehind
    <3> QED
      BY <2>2, <3>2, HandshakeRests DEF Advances
  <2>3. CASE Relays(r)
    <3>1. PICK i \in DOMAIN rows : i = sub[r].row
      BY <2>3 DEF Relays, RelayAccepted, TypeOK
    <3>2. OpsAdvance /\ ops'[i] = "mempool"
      BY <2>3, <3>1, OpAdvances DEF Relays, RelayAccepted, OpStatus
    <3>3. sub'[r].row = i
      BY <2>1, <2>3, <3>1 DEF Relays, RelayAccepted, Goes, TypeOK, SubState
    <3>4. SentBehind'
      BY <2>1, <3>2, <3>3, SameDomains DEF OpsAdvance, TypeOK, HandshakeInv, SentBehind
    <3> QED
      BY <2>3, <3>2, <3>4, HandshakeRests DEF Relays
  <2>4. CASE Records(r)
    <3>1. sub[r].pc = "record" /\ sub'[r].row = sub[r].row
      BY <2>1, <2>4 DEF Records, RecordsSpend, Goes, TypeOK, SubState
    <3>2. rows' = rows /\ ops' = ops
      BY <2>4 DEF Records
    <3>3. SentBehind'
      BY <2>1, <3>1, <3>2 DEF HandshakeInv, SentBehind
    <3> QED
      BY <3>2, <3>3, HandshakeRests
  <2>5. CASE Closing(r)
    <3>1. PICK i \in DOMAIN rows : i = sub[r].row
      BY <2>5 DEF Closing, MarksSubmitted, MarksFailed, TypeOK
    <3>2. PICK status \in {"submitted", "failed"} :
              Closes(i, status) /\ (status = "submitted" => sub[r].pc = "mark")
      BY <2>5, <3>1 DEF Closing, MarksSubmitted, MarksFailed, Closes
    <3>3. /\ DOMAIN rows' = DOMAIN rows /\ rows'[i].status = status
          /\ \A j \in DOMAIN rows : (j # i => rows'[j] = rows[j]) /\ rows'[j].sched = rows[j].sched
      BY <3>2, ClosedRow DEF RowStatus
    <3>4. ops' = ops /\ sub'[r].pc = "done"
      BY <2>1, <2>5 DEF Closing, MarksSubmitted, MarksFailed, Goes, TypeOK, SubState
    <3>5. SentBehind'
      BY <2>1, <3>4 DEF HandshakeInv, SentBehind
    <3>6. HandshakeSafe'
      BY <3>1, <3>2, <3>3, <3>4 DEF HandshakeInv, HandshakeSafe, SentBehind
    <3> QED
      BY <3>5, <3>6 DEF HandshakeInv
  <2> QED
    BY <1>5, <2>2, <2>3, <2>4, <2>5
<1> QED
  BY <1>1, <1>2, <1>3, <1>4, <1>5, TableMoves

\* A buy is marked submitted only after the bundler took its op, and a schedule has one open build,
\* with any number of concurrent submits, faults and crashes (Application.kt submit,
\* PendingBuyRepository.add).
THEOREM HandshakeIsSafe == Spec => []HandshakeSafe
<1>1. Init => HandshakeInv
  BY DEF Init, HandshakeInv, SentBehind, HandshakeSafe
<1>2. TypeOK /\ HandshakeInv /\ [Next]_vars => HandshakeInv'
  BY HandshakeKeeps
<1>3. HandshakeInv => HandshakeSafe
  BY DEF HandshakeInv
<1> QED
  BY <1>1, <1>2, <1>3, TypeCorrect, PTL DEF Spec

-----------------------------------------------------------------------------
(* The slots of a schedule, while nothing fails.                           *)

Working == {"paused", "exposure", "build", "park", "mark"}

\* The row was parked in this round, its schedule is not marked yet.
JustParked(i) == loop.pc = "mark" /\ rows[i].sched = loop.cur /\ rows[i].builtAt = loop.now

SlotInv ==
    /\ loop.pc # "sleep" => \A s \in loop.due : nextRun[s] <= loop.now
    /\ loop.pc \in Working => nextRun[loop.cur] <= loop.now /\ loop.cur \notin loop.due
    /\ \A i \in DOMAIN rows : \/ rows[i].builtAt + Plan[rows[i].sched].interval <= nextRun[rows[i].sched]
                              \/ JustParked(i)
    /\ OneBuyPerSlot

\* Neither the scheduler nor the identity of a row moves.
SlotsRest ==
    /\ UNCHANGED <<loop, nextRun>> /\ DOMAIN rows' = DOMAIN rows
    /\ \A i \in DOMAIN rows : rows'[i].sched = rows[i].sched /\ rows'[i].builtAt = rows[i].builtAt

LEMMA SlotsStay == ASSUME SlotInv, SlotsRest PROVE SlotInv'
BY DEF SlotInv, SlotsRest, OneBuyPerSlot, JustParked

\* A step of the scheduler that touches no table.
LEMMA SlotsWait ==
    ASSUME SlotInv, rows' = rows, nextRun' = nextRun, loop.pc # "mark",
           loop'.pc # "sleep" => \A s \in loop'.due : nextRun[s] <= loop'.now,
           loop'.pc \in Working => nextRun[loop'.cur] <= loop'.now /\ loop'.cur \notin loop'.due
    PROVE  SlotInv'
BY DEF SlotInv, OneBuyPerSlot, JustParked

LEMMA SlotsKeep == ASSUME TypeOK, SlotInv, MaxFaults = 0, [Next]_vars PROVE SlotInv'
<1> USE DEF db, chain, vars
<1>0. loop \in LoopState /\ nextRun \in [Scheds -> Nat] /\ faults = 0
  BY DEF TypeOK
<1>1. CASE LoopStep
  <2>1. CASE TickStarts \/ TickEnds \/ LoopGatePaused \/ LoopGateExposure \/ BuildRefused \/ Builds
    <3>1. CASE TickStarts
      BY <1>0, <3>1, SlotsWait DEF TickStarts, LoopState, Working
    <3>2. CASE TickEnds
      BY <1>0, <3>2, SlotsWait DEF TickEnds, Asleep, Working
    <3>3. CASE LoopGatePaused \/ LoopGateExposure \/ BuildRefused \/ Builds
      <4>1. /\ rows' = rows /\ nextRun' = nextRun /\ loop.pc \in Working \ {"mark"}
            /\ loop'.due = loop.due /\ loop'.now = loop.now /\ loop'.cur = loop.cur
        BY <1>0, <3>3 DEF LoopGatePaused, LoopGateExposure, BuildRefused, Builds, LoopState, Working
      <4> QED
        BY <4>1, SlotsWait DEF SlotInv, Working
    <3> QED
      BY <2>1, <3>1, <3>2, <3>3
  <2>2. ASSUME NEW s \in Scheds, PicksSchedule(s) PROVE SlotInv'
    <3>1. /\ rows' = rows /\ nextRun' = nextRun /\ loop.pc = "pick" /\ s \in loop.due
          /\ loop'.due = loop.due \ {s} /\ loop'.now = loop.now /\ loop'.cur = s
      BY <1>0, <2>2 DEF PicksSchedule, LoopState
    <3> QED
      BY <3>1, SlotsWait DEF SlotInv
  <2>3. CASE Parks
    <3>1. loop.pc = "park" /\ loop'.pc = "mark" /\ nextRun' = nextRun
            /\ loop'.due = loop.due /\ loop'.now = loop.now /\ loop'.cur = loop.cur
      BY <1>0, <2>3 DEF Parks, LoopState
    <3>2. CASE rows' = rows
      BY <3>1, <3>2, SlotsWait DEF SlotInv, Working
    <3>3. CASE Opens
      <4>1. PICK n : /\ n \notin DOMAIN rows /\ DOMAIN rows' = DOMAIN rows \union {n}
                     /\ rows'[n].sched = loop.cur /\ rows'[n].builtAt = loop.now
                     /\ n = Len(rows) + 1
                     /\ \A j \in DOMAIN rows : j < n /\ rows'[j] = rows[j]
        BY <3>3, OpenedRow
      <4>2. nextRun[loop.cur] <= loop.now /\ loop.cur \notin loop.due /\ nextRun[loop.cur] \in Nat /\ loop.now \in Nat
        BY <1>0, <3>1 DEF SlotInv, Working, LoopState
      <4>3. \A j \in DOMAIN rows : rows[j].builtAt + Plan[rows[j].sched].interval <= nextRun[rows[j].sched]
        BY <3>1 DEF SlotInv, JustParked
      <4>4. \A j \in DOMAIN rows : rows[j].sched \in Scheds /\ rows[j].builtAt \in Nat /\ Plan[rows[j].sched].interval \in Nat
        BY RowTypes, PlanAssumption
      <4>5. \A j \in DOMAIN rows : rows[j].sched = loop.cur => loop.now >= rows[j].builtAt + Plan[rows[j].sched].interval
        BY <4>2, <4>3, <4>4
      <4>6. \A j \in DOMAIN rows : ~(n < j) /\ ~(n < n)
        BY <4>1, SameDomains
      <4>7. OneBuyPerSlot'
        BY <4>1, <4>5, <4>6 DEF OneBuyPerSlot, SlotInv
      <4>8. \A i \in DOMAIN rows' : \/ rows'[i].builtAt + Plan[rows'[i].sched].interval <= nextRun[rows'[i].sched]
                                   \/ (rows'[i].sched = loop.cur /\ rows'[i].builtAt = loop.now)
        BY <4>1, <4>3
      <4>9. \A s \in loop.due : nextRun[s] <= loop.now
        BY <3>1 DEF SlotInv
      <4> QED
        BY <3>1, <4>2, <4>7, <4>8, <4>9 DEF SlotInv, JustParked
    <3> QED
      BY <2>3, <3>2, <3>3 DEF Parks, Opens
  <2>4. CASE MarksRun
    <3>1. /\ loop.pc = "mark" /\ loop'.pc = "pick" /\ rows' = rows
          /\ loop'.due = loop.due /\ loop'.now = loop.now
          /\ nextRun'[loop.cur] = loop.now + Plan[loop.cur].interval
          /\ \A s \in Scheds : s # loop.cur => nextRun'[s] = nextRun[s]
      BY <1>0, <2>4 DEF MarksRun, LoopState
    <3>2. /\ nextRun[loop.cur] <= loop.now /\ loop.cur \notin loop.due /\ loop.due \subseteq Scheds
          /\ nextRun[loop.cur] \in Nat /\ loop.now \in Nat /\ Plan[loop.cur].interval \in Nat
      BY <1>0, <3>1, PlanAssumption DEF SlotInv, Working, LoopState
    <3>3. ASSUME NEW i \in DOMAIN rows PROVE rows[i].builtAt + Plan[rows[i].sched].interval <= nextRun'[rows[i].sched]
      <4>1. rows[i].sched \in Scheds /\ rows[i].builtAt \in Nat /\ Plan[rows[i].sched].interval \in Nat
        BY RowTypes, PlanAssumption
      <4>2. CASE rows[i].sched # loop.cur
        BY <3>1, <4>1, <4>2 DEF SlotInv, JustParked
      <4>3. CASE rows[i].sched = loop.cur
        <5>1. rows[i].builtAt + Plan[loop.cur].interval <= nextRun[loop.cur] \/ rows[i].builtAt = loop.now
          BY <4>3 DEF SlotInv, JustParked
        <5> QED
          BY <3>1, <3>2, <4>1, <4>3, <5>1
      <4> QED
        BY <4>2, <4>3
    <3> QED
      BY <3>1, <3>2, <3>3 DEF SlotInv, OneBuyPerSlot, Working
  <2> QED
    BY <1>1, <2>1, <2>2, <2>3, <2>4 DEF LoopStep
<1>2. CASE LoopStepFails \/ Crash
  BY <1>0, <1>2 DEF LoopStepFails, Crash
<1>3. ASSUME UNCHANGED <<loop, nextRun>>, rows' = rows PROVE SlotInv'
  BY <1>3, SlotsStay DEF SlotsRest
<1>4. ASSUME NEW r \in Requests, SubmitStep(r) PROVE SlotInv'
  <2>1. CASE MarksSubmitted(r) \/ MarksFailed(r)
    <3>1. PICK i \in DOMAIN rows : i = sub[r].row
      BY <2>1 DEF MarksSubmitted, MarksFailed, TypeOK
    <3>2. Closes(i, "submitted") \/ Closes(i, "failed")
      BY <2>1, <3>1 DEF MarksSubmitted, MarksFailed, Closes
    <3>3. SlotsRest
      BY <2>1, <3>2, ClosedRow DEF SlotsRest, RowStatus, MarksSubmitted, MarksFailed
    <3> QED
      BY <3>3, SlotsStay
  <2>2. CASE ~(MarksSubmitted(r) \/ MarksFailed(r))
    <3>1. UNCHANGED <<loop, nextRun>> /\ rows' = rows
      BY <1>4, <2>2 DEF SubmitStep, LooksUp, SubmitGatePaused, SubmitGateExposure, RelayAccepted, RelayRefused,
                        RelayAnswered, RecordsSpend
    <3> QED
      BY <1>3, <3>1
  <2> QED
    BY <2>1, <2>2
<1>5. ASSUME NEW r \in Requests, RelayFails(r) \/ RequestDies(r) \/ \E i \in DOMAIN rows : SubmitArrives(r, i)
      PROVE  SlotInv'
  BY <1>3, <1>5 DEF RelayFails, RequestDies, SubmitArrives
<1>6. CASE TimePasses \/ OperatorPauses \/ (\E a \in Accounts : SessionChanges(a) \/ LaneUsedElsewhere(a))
             \/ UNCHANGED vars \/ \E i \in DOMAIN rows : OpIncluded(i, "landed") \/ OpIncluded(i, "reverted")
  BY <1>3, <1>6 DEF TimePasses, OperatorPauses, SessionChanges, LaneUsedElsewhere, OpIncluded
<1> QED
  BY <1>1, <1>2, <1>4, <1>5, <1>6 DEF Next

\* While no call fails and no process dies, two buys of a schedule are built at least one interval
\* apart, whatever submits, pauses and the chain do meanwhile (DcaScheduler.tick).
THEOREM SlotsBuyOnce == ASSUME MaxFaults = 0 PROVE Spec => []OneBuyPerSlot
<1>1. Init => SlotInv
  BY DEF Init, SlotInv, OneBuyPerSlot, Asleep, Working
<1>2. TypeOK /\ SlotInv /\ [Next]_vars => SlotInv'
  BY SlotsKeep
<1>3. SlotInv => OneBuyPerSlot
  BY DEF SlotInv
<1> QED
  BY <1>1, <1>2, <1>3, TypeCorrect, PTL DEF Spec

-----------------------------------------------------------------------------
(* One submit at a time, with every fault.                                 *)

Rests(r) == sub[r].pc \in {"idle", "done"}

\* A request that passed the exposure gate and has not recorded its buy yet.
Passed == {"relay", "relayed", "record"}
Active == Passed \union {"paused", "exposure", "mark", "fail"}

RowOpen(r) == sub[r].pc \in Active => rows[sub[r].row].status = "pending"
FitsCap(r) == sub[r].pc \in Passed => spent[Purse(sub[r].row)] + Amount(sub[r].row) <= ExposureCap[Purse(sub[r].row)]

SerialInv ==
    /\ \A q, r \in Requests : Rests(q) \/ Rests(r) \/ q = r
    /\ \A r \in Requests : RowOpen(r) /\ FitsCap(r)
    /\ SpentWithinCap

\* Nobody but r is under way, before and after.
LEMMA SerialStep ==
    ASSUME SerialInv, NEW r \in Requests, \A q \in Requests : q # r => Rests(q) /\ sub'[q] = sub[q],
           RowOpen(r)', FitsCap(r)', SpentWithinCap'
    PROVE  SerialInv'
BY DEF SerialInv, Rests, RowOpen, FitsCap, Active, Passed

\* The tables and requests stay, apart from new rows.
LEMMA SerialRests ==
    ASSUME TypeOK, SerialInv, spent' = spent, sub' = sub, \A i \in DOMAIN rows : rows'[i] = rows[i]
    PROVE  SerialInv'
<1>1. \A r \in Requests : sub[r].pc \in Active => sub[r].row \in DOMAIN rows
  BY DEF TypeOK, Active, Passed
<1>2. \A r \in Requests : RowOpen(r)' /\ FitsCap(r)'
  BY <1>1 DEF SerialInv, RowOpen, FitsCap, Purse, Amount, Active
<1> QED
  BY <1>2 DEF SerialInv, Rests, SpentWithinCap

LEMMA SerialKeeps == ASSUME Serial, TypeOK, SerialInv, [Next]_vars PROVE SerialInv'
<1>1. CASE TablesRest \/ Includes
  BY <1>1, SerialRests DEF TablesRest, Includes
<1>2. CASE ParksBuy
  BY <1>2, OpenedRow, SerialRests DEF ParksBuy
<1>3. CASE Crash
  <2>1. spent' = spent /\ \A r \in Requests : sub'[r].pc \in {"idle", "done"}
    BY <1>3 DEF Crash, db, TypeOK, SubState
  <2> QED
    BY <2>1 DEF SerialInv, Rests, RowOpen, FitsCap, SpentWithinCap, Active, Passed
<1>4. ASSUME NEW r \in Requests, Advances(r) \/ Relays(r) \/ Records(r) \/ Closing(r) PROVE SerialInv'
  <2>1. /\ sub' \in [Requests -> SubState] /\ sub[r] \in SubState
        /\ \A q \in Requests : q # r => sub'[q] = sub[q]
    BY <1>4, RequestMoves DEF TypeOK
  <2>2. \A q \in Requests : q # r => Rests(q)
    <3>1. CASE \E i \in DOMAIN rows : SubmitArrives(r, i)
      BY <3>1 DEF SubmitArrives, Rests
    <3>2. CASE ~\E i \in DOMAIN rows : SubmitArrives(r, i)
      <4>1. ~Rests(r)
        BY <1>4, <3>2 DEF Advances, Relays, Records, Closing, LooksUp, SubmitGatePaused, SubmitGateExposure, RelayRefused,
                          RelayAnswered, RelayFails, RequestDies, RelayAccepted, RecordsSpend, MarksSubmitted,
                          MarksFailed, Rests
      <4> QED
        BY <4>1 DEF SerialInv
    <3> QED
      BY <3>1, <3>2
  <2>step. ASSUME RowOpen(r)', FitsCap(r)', SpentWithinCap' PROVE SerialInv'
    BY <2>1, <2>2, <2>step, SerialStep
  <2>now. RowOpen(r) /\ FitsCap(r) /\ SpentWithinCap
    BY DEF SerialInv
  <2>goes. ASSUME NEW pc, Goes(r, pc) PROVE sub'[r].pc = pc /\ sub'[r].row = sub[r].row
    BY <2>1, <2>goes DEF Goes, TypeOK, SubState
  <2>3. CASE Advances(r)
    <3>1. rows' = rows /\ spent' = spent
      BY <2>3 DEF Advances
    <3>2. SpentWithinCap'
      BY <2>now, <3>1 DEF SpentWithinCap
    <3>3. CASE \E i \in DOMAIN rows : SubmitArrives(r, i)
      <4>1. sub'[r].pc = "lookup"
        BY <3>3 DEF SubmitArrives, TypeOK
      <4> QED
        BY <2>step, <3>2, <4>1 DEF RowOpen, FitsCap, Active, Passed
    <3>4. CASE LooksUp(r) \/ SubmitGatePaused(r) \/ RelayRefused(r) \/ RelayAnswered(r) \/ RelayFails(r) \/ RequestDies(r)
      <4>1. /\ sub'[r].row = sub[r].row
            /\ sub'[r].pc \in Active => sub[r].pc \in Active \/ rows[sub[r].row].status = "pending"
            /\ sub'[r].pc \in Passed => sub[r].pc \in Passed
        BY <2>goes, <3>4 DEF LooksUp, SubmitGatePaused, RelayRefused, RelayAnswered, RelayFails, RequestDies, Active, Passed
      <4>2. RowOpen(r)' /\ FitsCap(r)'
        BY <2>now, <3>1, <4>1 DEF RowOpen, FitsCap, Purse, Amount
      <4> QED
        BY <2>step, <3>2, <4>2
    <3>5. CASE SubmitGateExposure(r)
      <4>1. /\ sub'[r].row = sub[r].row /\ sub[r].pc = "exposure" /\ sub'[r].pc \in {"relay", "fail"}
            /\ sub'[r].pc = "relay" => WithinExposureCap(Purse(sub[r].row), Amount(sub[r].row))
        BY <2>goes, <3>5 DEF SubmitGateExposure
      <4>2. RowOpen(r)' /\ FitsCap(r)'
        BY <2>now, <3>1, <4>1 DEF RowOpen, FitsCap, Purse, Amount, WithinExposureCap, Active, Passed
      <4> QED
        BY <2>step, <3>2, <4>2
    <3> QED
      BY <2>3, <3>3, <3>4, <3>5 DEF Advances
  <2>4. CASE Relays(r)
    <3>1. rows' = rows /\ spent' = spent /\ sub'[r].row = sub[r].row /\ sub[r].pc = "relay" /\ sub'[r].pc = "relayed"
      BY <2>4, <2>goes DEF Relays, RelayAccepted
    <3>2. RowOpen(r)' /\ FitsCap(r)' /\ SpentWithinCap'
      BY <2>now, <3>1 DEF RowOpen, FitsCap, Purse, Amount, SpentWithinCap, Active, Passed
    <3> QED
      BY <2>step, <3>2
  <2>5. CASE Records(r)
    <3>1. PICK i \in DOMAIN rows : i = sub[r].row
      BY <2>5 DEF Records, RecordsSpend, TypeOK
    <3>2. /\ rows' = rows /\ sub'[r].row = i /\ sub[r].pc = "record" /\ sub'[r].pc = "mark"
          /\ spent' = [spent EXCEPT ![Purse(i)] = spent[Purse(i)] + Amount(i)]
      BY <2>5, <2>goes, <3>1 DEF Records, RecordsSpend
    <3>3. spent[Purse(i)] + Amount(i) <= ExposureCap[Purse(i)]
      BY <2>now, <3>1, <3>2 DEF FitsCap, Passed
    <3>4. \A u \in Purses : spent'[u] = IF u = Purse(i) THEN spent[Purse(i)] + Amount(i) ELSE spent[u]
      BY <3>2 DEF TypeOK
    <3>5. SpentWithinCap'
      BY <2>now, <3>3, <3>4 DEF SpentWithinCap
    <3>6. RowOpen(r)' /\ FitsCap(r)'
      BY <2>now, <3>1, <3>2 DEF RowOpen, FitsCap, Active, Passed
    <3> QED
      BY <2>step, <3>5, <3>6
  <2>6. CASE Closing(r)
    <3>1. sub'[r].pc = "done" /\ spent' = spent
      BY <2>6, <2>goes DEF Closing, MarksSubmitted, MarksFailed
    <3>2. RowOpen(r)' /\ FitsCap(r)' /\ SpentWithinCap'
      BY <2>now, <3>1 DEF RowOpen, FitsCap, SpentWithinCap, Active, Passed
    <3> QED
      BY <2>step, <3>2
  <2> QED
    BY <1>4, <2>3, <2>4, <2>5, <2>6
<1> QED
  BY <1>1, <1>2, <1>3, <1>4, TableMoves

LEMMA SerialStarts == Init => SerialInv
BY PlanAssumption DEF Init, SerialInv, Rests, RowOpen, FitsCap, SpentWithinCap, Active, Passed

\* One submit at a time: only the buy that is being submitted is open, and the recorded spend plus
\* that buy fits the cap at every step of the submit (SubmitGate.kt, Application.kt submit).
THEOREM SerialInvariant == ASSUME Serial PROVE Spec => []SerialInv
<1>1. TypeOK /\ SerialInv /\ [Next]_vars => SerialInv'
  BY SerialKeeps
<1> QED
  BY <1>1, SerialStarts, TypeCorrect, PTL DEF Spec

\* With one submit at a time the recorded exposure stays within its cap, whatever fails and
\* whatever the scheduler parks meanwhile (SubmitGate.kt, Application.kt submit).
THEOREM SpendIsCapped == ASSUME Serial PROVE Spec => []SpentWithinCap
<1>1. SerialInv => SpentWithinCap
  BY DEF SerialInv
<1> QED
  BY <1>1, SerialInvariant, PTL

\* A closing request closes an open row.
LEMMA ClosesOpen ==
    ASSUME TypeOK, SerialInv, NEW r \in Requests, Closing(r)
    PROVE  \E i \in DOMAIN rows, status \in {"submitted", "failed"} :
              /\ i = sub[r].row /\ rows[i].status = "pending" /\ Closes(i, status)
              /\ sub[r].pc = IF status = "submitted" THEN "mark" ELSE "fail"
<1>1. CASE MarksSubmitted(r)
  <2>1. /\ sub[r].row \in DOMAIN rows /\ rows[sub[r].row].status = "pending"
        /\ Closes(sub[r].row, "submitted") /\ sub[r].pc = "mark"
    BY <1>1 DEF MarksSubmitted, Closes, TypeOK, SerialInv, RowOpen, Active
  <2> QED
    BY <2>1
<1>2. CASE MarksFailed(r)
  <2>1. /\ sub[r].row \in DOMAIN rows /\ rows[sub[r].row].status = "pending"
        /\ Closes(sub[r].row, "failed") /\ sub[r].pc = "fail"
    BY <1>2 DEF MarksFailed, Closes, TypeOK, SerialInv, RowOpen, Active
  <2> QED
    BY <2>1
<1> QED
  BY <1>1, <1>2 DEF Closing

LEMMA ClosedStay ==
    ASSUME TypeOK, SerialInv, [Next]_vars
    PROVE  \A i \in DOMAIN rows : rows[i].status # "pending" => rows'[i].status = rows[i].status
<1>1. CASE TablesRest \/ Includes \/ Crash
  BY <1>1 DEF TablesRest, Includes, Crash, db
<1>2. CASE ParksBuy
  BY <1>2, OpenedRow DEF ParksBuy
<1>3. ASSUME NEW r \in Requests, Advances(r) \/ Relays(r) \/ Records(r)
      PROVE  rows' = rows
  BY <1>3 DEF Advances, Relays, Records
<1>4. ASSUME NEW r \in Requests, Closing(r)
      PROVE  \A i \in DOMAIN rows : rows[i].status # "pending" => rows'[i] = rows[i]
  <2>1. PICK i \in DOMAIN rows, status \in {"submitted", "failed"} : rows[i].status = "pending" /\ Closes(i, status)
    BY <1>4, ClosesOpen
  <2> QED
    BY <2>1, ClosedRow DEF RowStatus
<1> QED
  BY <1>1, <1>2, <1>3, <1>4, TableMoves

\* With one submit at a time a closed buy stays as it is, whatever fails (V4 schema).
THEOREM StatusIsFinal == ASSUME Serial PROVE Spec => StatusFinal
<1>1. TypeOK /\ SerialInv /\ [Next]_vars =>
        [\A i \in DOMAIN rows : rows[i].status # "pending" => rows'[i].status = rows[i].status]_vars
  BY ClosedStay
<1> QED
  BY <1>1, TypeCorrect, SerialInvariant, PTL DEF Spec, StatusFinal

-----------------------------------------------------------------------------
(* One submit at a time, while nothing fails.                              *)

\* A request knows that the bundler has its op.
Knows(r, i) == sub[r].pc \in {"relayed", "record", "mark"} /\ sub[r].row = i

MatchInv ==
    /\ RowMatchesOp
    /\ \A i \in DOMAIN rows : rows[i].status = "pending" /\ ops[i] # "unsent" => \E r \in Requests : Knows(r, i)

LEMMA MatchKeeps ==
    ASSUME Serial, MaxFaults = 0, TypeOK, HandshakeInv, SerialInv, MatchInv, [Next]_vars
    PROVE  MatchInv'
<1>0. faults = 0 /\ DOMAIN ops = DOMAIN rows
  BY SameDomains DEF TypeOK
<1>1. CASE TablesRest
  BY <1>1 DEF TablesRest, MatchInv, RowMatchesOp, Knows
<1>2. CASE ParksBuy
  <2>1. PICK n : /\ DOMAIN rows' = DOMAIN rows \union {n}
                 /\ ops'[n] = "unsent" /\ rows'[n].status = "pending"
                 /\ \A j \in DOMAIN rows : rows'[j] = rows[j] /\ ops'[j] = ops[j]
    BY <1>2, OpenedRow DEF ParksBuy
  <2> QED
    BY <1>2, <2>1 DEF ParksBuy, MatchInv, RowMatchesOp, Knows
<1>3. CASE Includes
  <2>1. PICK i \in DOMAIN rows, s \in {"landed", "reverted"} :
            ops[i] = "mempool" /\ ops' = [ops EXCEPT ![i] = s] /\ UNCHANGED <<rows, spent, sub>>
    BY <1>3 DEF Includes
  <2>2. ops'[i] # "unsent" /\ \A j \in DOMAIN rows : j # i => ops'[j] = ops[j]
    BY <1>0, <2>1
  <2> QED
    BY <2>1, <2>2 DEF MatchInv, RowMatchesOp, Knows
<1>4. CASE Crash
  BY <1>0, <1>4 DEF Crash
<1>5. ASSUME NEW r \in Requests, Advances(r) \/ Relays(r) \/ Records(r) \/ Closing(r) PROVE MatchInv'
  <2>1. /\ sub[r] \in SubState /\ \A q \in Requests : q # r => sub'[q] = sub[q]
    BY <1>5, RequestMoves DEF TypeOK
  <2>goes. ASSUME NEW pc, Goes(r, pc) PROVE sub'[r].pc = pc /\ sub'[r].row = sub[r].row
    BY <2>1, <2>goes DEF Goes, TypeOK, SubState
  <2>know. ASSUME \A i : Knows(r, i) => Knows(r, i)' PROVE \A q \in Requests, i \in DOMAIN rows : Knows(q, i) => Knows(q, i)'
    BY <2>1, <2>know DEF Knows
  <2>2. CASE Advances(r)
    <3>1. rows' = rows /\ ops' = ops
      BY <2>2 DEF Advances
    <3>2. \A i : Knows(r, i) => Knows(r, i)'
      <4>1. CASE RelayAnswered(r)
        BY <2>goes, <4>1 DEF RelayAnswered, Knows
      <4>2. CASE ~RelayAnswered(r)
        <5>1. sub[r].pc \notin {"relayed", "record", "mark"}
          BY <1>0, <2>2, <4>2 DEF Advances, SubmitArrives, LooksUp, SubmitGatePaused, SubmitGateExposure,
                                  RelayRefused, RelayFails, RequestDies
        <5> QED
          BY <5>1 DEF Knows
      <4> QED
        BY <4>1, <4>2
    <3> QED
      BY <2>know, <3>1, <3>2 DEF MatchInv, RowMatchesOp
  <2>3. CASE Relays(r)
    <3>1. PICK i \in DOMAIN rows : i = sub[r].row /\ rows[i].status = "pending"
      BY <2>3 DEF Relays, RelayAccepted, TypeOK, SerialInv, RowOpen, Active, Passed
    <3>2. /\ rows' = rows /\ ops'[i] = "mempool" /\ \A j \in DOMAIN rows : j # i => ops'[j] = ops[j]
      BY <1>0, <2>3, <3>1, OpAdvances DEF Relays, RelayAccepted, OpStatus
    <3>3. sub[r].pc = "relay" /\ sub'[r].pc = "relayed" /\ sub'[r].row = i
      BY <2>3, <2>goes, <3>1 DEF Relays, RelayAccepted
    <3>4. Knows(r, i)' /\ \A j : ~Knows(r, j)
      BY <3>3 DEF Knows
    <3> QED
      BY <2>know, <3>1, <3>2, <3>4 DEF MatchInv, RowMatchesOp
  <2>4. CASE Records(r)
    <3>1. rows' = rows /\ ops' = ops
      BY <2>4 DEF Records
    <3>2. \A i : Knows(r, i) => Knows(r, i)'
      BY <2>4, <2>goes DEF Records, RecordsSpend, Knows
    <3> QED
      BY <2>know, <3>1, <3>2 DEF MatchInv, RowMatchesOp
  <2>5. CASE Closing(r)
    <3>1. PICK i \in DOMAIN rows, status \in {"submitted", "failed"} :
              /\ i = sub[r].row /\ rows[i].status = "pending" /\ Closes(i, status)
              /\ sub[r].pc = IF status = "submitted" THEN "mark" ELSE "fail"
      BY <2>5, ClosesOpen
    <3>2. /\ ops' = ops /\ DOMAIN rows' = DOMAIN rows /\ rows'[i].status = status
          /\ \A j \in DOMAIN rows : j # i => rows'[j] = rows[j]
      BY <2>5, <3>1, ClosedRow DEF Closing, RowStatus
    <3>3. status = "submitted" => ops[i] # "unsent"
      BY <3>1 DEF HandshakeInv, SentBehind
    <3>4. status = "failed" => ops[i] = "unsent"
      <4>1. SUFFICES ASSUME status = "failed", ops[i] # "unsent" PROVE FALSE
        OBVIOUS
      <4>2. PICK q \in Requests : Knows(q, i)
        BY <3>1, <4>1 DEF MatchInv
      <4>3. ~Rests(q) /\ ~Rests(r) /\ q # r
        BY <3>1, <4>1, <4>2 DEF Knows, Rests
      <4> QED
        BY <4>3 DEF SerialInv
    <3>5. \A j \in DOMAIN rows, q \in Requests : j # i /\ Knows(q, j) => Knows(q, j)'
      BY <2>1, <3>1 DEF Knows
    <3> QED
      BY <3>2, <3>3, <3>4, <3>5 DEF MatchInv, RowMatchesOp
  <2> QED
    BY <1>5, <2>2, <2>3, <2>4, <2>5
<1> QED
  BY <1>1, <1>2, <1>3, <1>4, <1>5, TableMoves

\* One submit at a time and without faults, a row says what became of its op
\* (Application.kt submit, PendingBuyRepository.setStatus).
THEOREM RowsTellTheTruth == ASSUME Serial, MaxFaults = 0 PROVE Spec => []RowMatchesOp
<1>1. Init => MatchInv /\ HandshakeInv
  BY DEF Init, MatchInv, RowMatchesOp, HandshakeInv, SentBehind, HandshakeSafe
<1>2. TypeOK /\ HandshakeInv /\ SerialInv /\ MatchInv /\ [Next]_vars => MatchInv' /\ HandshakeInv'
  BY MatchKeeps, HandshakeKeeps
<1>3. MatchInv => RowMatchesOp
  BY DEF MatchInv
<1> QED
  BY <1>1, <1>2, <1>3, TypeCorrect, SerialInvariant, PTL DEF Spec

-----------------------------------------------------------------------------
(* The recorded spend, one submit at a time and without faults.            *)

LEMMA RowsFinite == ASSUME TypeOK PROVE IsFiniteSet(DOMAIN rows)
<1>1. DOMAIN rows = 1 .. Len(rows) /\ Len(rows) \in Int /\ 1 \in Int
  BY SameDomains
<1>2. IsFiniteSet(1 .. Len(rows))
  BY <1>1, FS_Interval
<1> QED BY <1>1, <1>2

HandedSum(u) == SumFunction([i \in Handed(u) |-> Amount(i)])
UnrecordedSum(u) == SumFunction([r \in Unrecorded(u) |-> Amount(sub[r].row)])

\* The same ops were handed over, for the same amounts.
LEMMA HandedRests ==
    ASSUME TypeOK, NEW u, DOMAIN rows \subseteq DOMAIN rows', \A i \in DOMAIN rows : rows'[i].sched = rows[i].sched,
           \A i \in DOMAIN rows : ops[i] # "unsent" <=> ops'[i] # "unsent",
           \A i \in DOMAIN rows' \ DOMAIN rows : ops'[i] = "unsent"
    PROVE  HandedSum(u)' = HandedSum(u)
<1>1. \A i \in DOMAIN rows : Purse(i)' = Purse(i) /\ Amount(i)' = Amount(i)
  BY DEF Purse, Amount
<1>2. Handed(u)' = Handed(u)
  BY <1>1 DEF Handed
<1>3. \A i \in Handed(u) : Amount(i)' = Amount(i)
  BY <1>1 DEF Handed
<1>4. [i \in Handed(u) |-> Amount(i)]' = [i \in Handed(u) |-> Amount(i)]
  BY <1>2, <1>3
<1> QED BY <1>4 DEF HandedSum

\* The same requests have an answer they have not recorded.
LEMMA UnrecordedRests ==
    ASSUME TypeOK, NEW u, \A i \in DOMAIN rows : rows'[i].sched = rows[i].sched,
           \A r \in Requests : \/ sub'[r] = sub[r]
                               \/ /\ sub[r].pc \notin {"relayed", "record"}
                                  /\ sub'[r].pc \notin {"relayed", "record"}
                               \/ /\ sub[r].pc = "relayed" /\ sub'[r].pc = "record"
                                  /\ sub'[r].row = sub[r].row
    PROVE  UnrecordedSum(u)' = UnrecordedSum(u)
<1>1. \A r \in Requests : sub[r].pc \in {"relayed", "record"} => sub[r].row \in DOMAIN rows
  BY DEF TypeOK
<1>2. \A r \in Requests : sub[r].pc \in {"relayed", "record"}
         => rows'[sub[r].row].sched = rows[sub[r].row].sched /\ sub'[r].row = sub[r].row
  BY <1>1
<1>3. \A r \in Requests : sub'[r].pc \in {"relayed", "record"} <=> sub[r].pc \in {"relayed", "record"}
  OBVIOUS
<1>4. Unrecorded(u)' = Unrecorded(u)
  BY <1>2, <1>3 DEF Unrecorded, Purse
<1>5. [r \in Unrecorded(u) |-> Amount(sub[r].row)]' = [r \in Unrecorded(u) |-> Amount(sub[r].row)]
  BY <1>2, <1>4 DEF Unrecorded, Amount
<1> QED BY <1>5 DEF UnrecordedSum

\* One submit at a time: only the request under way can have an answer it has not recorded.
LEMMA UnrecordedAlone ==
    ASSUME TypeOK, NEW r \in Requests, \A q \in Requests : q # r => Rests(q), NEW u
    PROVE  /\ sub[r].pc \in {"relayed", "record"} /\ Purse(sub[r].row) = u => UnrecordedSum(u) = Amount(sub[r].row)
           /\ sub[r].pc \notin {"relayed", "record"} => UnrecordedSum(u) = 0
<1>1. ASSUME sub[r].pc \in {"relayed", "record"}, Purse(sub[r].row) = u PROVE UnrecordedSum(u) = Amount(sub[r].row)
  <2>1. Unrecorded(u) = {r}
    BY <1>1 DEF Unrecorded, Rests
  <2>2. Amount(sub[r].row) \in Int
    <3>1. sub[r].row \in DOMAIN rows
      BY <1>1 DEF TypeOK
    <3> QED BY <3>1, RowTypes
  <2> DEFINE f == [q \in Unrecorded(u) |-> Amount(sub[q].row)]
  <2>3. DOMAIN f = {r} /\ f[r] = Amount(sub[r].row)
    BY <2>1
  <2>4. UnrecordedSum(u) = SumFunction(f)
    BY DEF UnrecordedSum
  <2> HIDE DEF f
  <2> QED BY <2>2, <2>3, <2>4, SumOfOne
<1>2. ASSUME sub[r].pc \notin {"relayed", "record"} PROVE UnrecordedSum(u) = 0
  <2>1. Unrecorded(u) = {}
    BY <1>2 DEF Unrecorded, Rests
  <2> DEFINE f == [q \in Unrecorded(u) |-> Amount(sub[q].row)]
  <2>2. DOMAIN f = {}
    BY <2>1
  <2> HIDE DEF f
  <2>3. SumFunction(f) = 0
    BY <2>2, SumOfNone
  <2> QED BY <2>3 DEF UnrecordedSum, f
<1> QED BY <1>1, <1>2

\* An op that the bundler takes for the first time.
LEMMA HandedGrows ==
    ASSUME TypeOK, NEW i \in DOMAIN rows, rows' = rows, ops[i] = "unsent", ops'[i] # "unsent",
           \A j \in DOMAIN rows : j # i => ops'[j] = ops[j], NEW u
    PROVE  HandedSum(u) \in Int /\ HandedSum(u)' = IF u = Purse(i) THEN HandedSum(u) + Amount(i) ELSE HandedSum(u)
<1> DEFINE f == [j \in Handed(u) |-> Amount(j)]
           g == [j \in Handed(u)' |-> Amount(j)']
<1>1. \A j : Amount(j)' = Amount(j) /\ Purse(j)' = Purse(j)
  BY DEF Amount, Purse
<1>2. Handed(u)' = IF u = Purse(i) THEN Handed(u) \union {i} ELSE Handed(u)
  BY <1>1 DEF Handed
<1>3. Handed(u) \subseteq DOMAIN rows /\ i \notin Handed(u) /\ \A j \in DOMAIN rows : Amount(j) \in Int
  BY RowTypes DEF Handed
<1>4. IsFiniteSet(Handed(u))
  BY <1>3, RowsFinite, FS_Subset
<1>5. DOMAIN f = Handed(u) /\ DOMAIN g = Handed(u)' /\ \A j \in Handed(u) : f[j] = Amount(j)
  OBVIOUS
<1>6. \A j \in Handed(u)' : g[j] = Amount(j)
  BY <1>1
<1>7. HandedSum(u) = SumFunction(f) /\ HandedSum(u)' = SumFunction(g)
  BY DEF HandedSum
<1>8. SumFunction(f) \in Int
  <2> HIDE DEF f, g
  <2> QED BY <1>3, <1>4, <1>5, SumInt DEF SumFunction
<1>9. CASE u = Purse(i)
  <2>1. Handed(u)' = Handed(u) \union {i} /\ g[i] = Amount(i) /\ \A j \in Handed(u) : g[j] = f[j] /\ f[j] \in Int
    BY <1>2, <1>3, <1>5, <1>6, <1>9
  <2> HIDE DEF f, g
  <2>2. SumFunction(g) = SumFunction(f) + g[i]
    BY <1>3, <1>4, <1>5, <2>1, SumOfMore
  <2> QED BY <1>7, <1>8, <1>9, <2>1, <2>2
<1>10. CASE u # Purse(i)
  <2>1. g = f
    BY <1>1, <1>2, <1>10
  <2> HIDE DEF f, g
  <2> QED BY <1>7, <1>8, <1>10, <2>1
<1> QED BY <1>9, <1>10

LEMMA RecordedKeeps ==
    ASSUME Serial, MaxFaults = 0, TypeOK, SerialInv, MatchInv, SpendRecorded, [Next]_vars
    PROVE  SpendRecorded'
<1>0. faults = 0 /\ DOMAIN ops = DOMAIN rows
  BY SameDomains DEF TypeOK
<1>now. \A u \in Purses : spent[u] = HandedSum(u) - UnrecordedSum(u)
  BY DEF SpendRecorded, HandedSum, UnrecordedSum
<1>then. SUFFICES ASSUME NEW u \in Purses PROVE spent'[u] = HandedSum(u)' - UnrecordedSum(u)'
  BY DEF SpendRecorded, HandedSum, UnrecordedSum
<1>rest. ASSUME spent' = spent, HandedSum(u)' = HandedSum(u), UnrecordedSum(u)' = UnrecordedSum(u)
         PROVE  spent'[u] = HandedSum(u)' - UnrecordedSum(u)'
  BY <1>now, <1>rest
<1>1. CASE TablesRest
  BY <1>rest, <1>1, HandedRests, UnrecordedRests DEF TablesRest
<1>2. CASE ParksBuy
  <2>1. PICK n : /\ DOMAIN rows' = DOMAIN rows \union {n} /\ ops'[n] = "unsent"
                 /\ \A j \in DOMAIN rows : rows'[j] = rows[j] /\ ops'[j] = ops[j]
    BY <1>2, OpenedRow DEF ParksBuy
  <2>2. HandedSum(u)' = HandedSum(u)
    BY <2>1, HandedRests
  <2>3. UnrecordedSum(u)' = UnrecordedSum(u)
    BY <1>2, <2>1, UnrecordedRests DEF ParksBuy
  <2> QED BY <1>rest, <1>2, <2>2, <2>3 DEF ParksBuy
<1>3. CASE Includes
  <2>1. PICK i \in DOMAIN rows, s \in {"landed", "reverted"} :
            ops[i] = "mempool" /\ ops' = [ops EXCEPT ![i] = s] /\ UNCHANGED <<rows, spent, sub>>
    BY <1>3 DEF Includes
  <2>2. ops'[i] # "unsent" /\ \A j \in DOMAIN rows : j # i => ops'[j] = ops[j]
    BY <1>0, <2>1
  <2>3. HandedSum(u)' = HandedSum(u)
    BY <2>1, <2>2, HandedRests
  <2>4. UnrecordedSum(u)' = UnrecordedSum(u)
    BY <2>1, UnrecordedRests
  <2> QED BY <1>rest, <2>1, <2>3, <2>4
<1>4. CASE Crash
  BY <1>0, <1>4 DEF Crash
<1>5. ASSUME NEW r \in Requests, Advances(r) \/ Relays(r) \/ Records(r) \/ Closing(r)
      PROVE  spent'[u] = HandedSum(u)' - UnrecordedSum(u)'
  <2>1. /\ sub[r] \in SubState /\ \A q \in Requests : q # r => sub'[q] = sub[q]
    BY <1>5, RequestMoves DEF TypeOK
  <2>goes. ASSUME NEW pc, Goes(r, pc) PROVE sub'[r].pc = pc /\ sub'[r].row = sub[r].row
    BY <2>1, <2>goes DEF Goes, TypeOK, SubState
  <2>alone. ASSUME ~Rests(r) PROVE \A q \in Requests : q # r => Rests(q) /\ Rests(q)'
    BY <2>1, <2>alone DEF SerialInv, Rests
  <2>2. CASE Advances(r)
    <3>1. rows' = rows /\ ops' = ops /\ spent' = spent
      BY <2>2 DEF Advances
    <3>2. \/ sub[r].pc \notin {"relayed", "record"} /\ sub'[r].pc \notin {"relayed", "record"}
          \/ sub[r].pc = "relayed" /\ sub'[r].pc = "record" /\ sub'[r].row = sub[r].row
      BY <1>0, <2>2, <2>goes DEF Advances, SubmitArrives, LooksUp, SubmitGatePaused, SubmitGateExposure,
                                 RelayRefused, RelayAnswered, RelayFails, RequestDies, TypeOK
    <3>3. UnrecordedSum(u)' = UnrecordedSum(u)
      BY <2>1, <3>1, <3>2, UnrecordedRests
    <3>4. HandedSum(u)' = HandedSum(u)
      BY <3>1, HandedRests
    <3> QED BY <1>rest, <3>1, <3>3, <3>4
  <2>3. CASE Relays(r)
    <3>1. PICK i \in DOMAIN rows : i = sub[r].row /\ rows[i].status = "pending"
      BY <2>3 DEF Relays, RelayAccepted, TypeOK, SerialInv, RowOpen, Active, Passed
    <3>2. /\ rows' = rows /\ spent' = spent /\ ops'[i] = "mempool" /\ \A j \in DOMAIN rows : j # i => ops'[j] = ops[j]
          /\ sub[r].pc = "relay" /\ sub'[r].pc = "relayed" /\ sub'[r].row = i
      BY <1>0, <2>3, <2>goes, <3>1, OpAdvances DEF Relays, RelayAccepted, OpStatus
    <3>3. ops[i] = "unsent"
      <4>1. SUFFICES ASSUME ops[i] # "unsent" PROVE FALSE
        OBVIOUS
      <4>2. PICK q \in Requests : Knows(q, i)
        BY <3>1, <4>1 DEF MatchInv
      <4>3. ~Rests(q) /\ ~Rests(r) /\ q # r
        BY <3>2, <4>2 DEF Knows, Rests
      <4> QED BY <4>3 DEF SerialInv
    <3>4. HandedSum(u) \in Int /\ HandedSum(u)' = IF u = Purse(i) THEN HandedSum(u) + Amount(i) ELSE HandedSum(u)
      BY <3>2, <3>3, HandedGrows
    <3>5. \A q \in Requests : q # r => Rests(q) /\ Rests(q)'
      BY <2>alone, <3>2 DEF Rests
    <3>6. UnrecordedSum(u) = 0
      BY <3>2, <3>5, UnrecordedAlone
    <3>7. TypeOK'
      BY StepTypes
    <3>8. UnrecordedSum(u)' = IF u = Purse(i) THEN Amount(i) ELSE 0
      <4>1. \A j \in DOMAIN rows : Purse(j)' = Purse(j) /\ Amount(j)' = Amount(j)
        BY <3>2 DEF Purse, Amount
      <4>2. Unrecorded(u)' = IF u = Purse(i) THEN {r} ELSE {}
        BY <3>1, <3>2, <3>5 DEF Unrecorded, Rests, Purse
      <4>3. CASE u = Purse(i)
        <5>1. [q \in Unrecorded(u) |-> Amount(sub[q].row)]' = [q \in {r} |-> Amount(i)]
          BY <3>1, <3>2, <4>2, <4>3 DEF Amount
        <5> DEFINE g == [q \in {r} |-> Amount(i)]
        <5>2. DOMAIN g = {r} /\ g[r] = Amount(i) /\ g[r] \in Int
          BY RowTypes
        <5>3. UnrecordedSum(u)' = SumFunction(g)
          BY <5>1 DEF UnrecordedSum
        <5> HIDE DEF g
        <5> QED BY <4>3, <5>2, <5>3, SumOfOne
      <4>4. CASE u # Purse(i)
        <5> DEFINE g == [q \in Unrecorded(u) |-> Amount(sub[q].row)]'
        <5>1. DOMAIN g = {}
          BY <4>2, <4>4
        <5>2. UnrecordedSum(u)' = SumFunction(g)
          BY DEF UnrecordedSum
        <5> HIDE DEF g
        <5> QED BY <4>4, <5>1, <5>2, SumOfNone
      <4> QED BY <4>3, <4>4
    <3>9. Amount(i) \in Int
      BY RowTypes
    <3> QED BY <1>now, <3>2, <3>4, <3>6, <3>8, <3>9
  <2>4. CASE Records(r)
    <3>1. PICK i \in DOMAIN rows : i = sub[r].row
      BY <2>4 DEF Records, RecordsSpend, TypeOK
    <3>2. /\ rows' = rows /\ ops' = ops /\ sub[r].pc = "record" /\ sub'[r].pc = "mark"
          /\ spent' = [spent EXCEPT ![Purse(i)] = spent[Purse(i)] + Amount(i)]
      BY <2>4, <2>goes, <3>1 DEF Records, RecordsSpend
    <3>3. HandedSum(u)' = HandedSum(u)
      BY <3>2, HandedRests
    <3>4. \A q \in Requests : q # r => Rests(q) /\ Rests(q)'
      BY <2>alone, <3>2 DEF Rests
    <3>5. Unrecorded(u)' = {} /\ Unrecorded(u) = IF u = Purse(i) THEN {r} ELSE {}
      BY <3>1, <3>2, <3>4 DEF Unrecorded, Rests
    <3>6. UnrecordedSum(u)' = 0
      <4> DEFINE g == [q \in Unrecorded(u) |-> Amount(sub[q].row)]'
      <4>1. DOMAIN g = {}
        BY <3>5
      <4>2. UnrecordedSum(u)' = SumFunction(g)
        BY DEF UnrecordedSum
      <4> HIDE DEF g
      <4> QED BY <4>1, <4>2, SumOfNone
    <3>7. UnrecordedSum(u) = IF u = Purse(i) THEN Amount(i) ELSE 0
      <4>1. CASE u = Purse(i)
        BY <3>1, <3>2, <3>4, <4>1, UnrecordedAlone
      <4>2. CASE u # Purse(i)
        <5> DEFINE g == [q \in Unrecorded(u) |-> Amount(sub[q].row)]
        <5>1. DOMAIN g = {}
          BY <3>5, <4>2
        <5>2. UnrecordedSum(u) = SumFunction(g)
          BY DEF UnrecordedSum
        <5> HIDE DEF g
        <5> QED BY <4>2, <5>1, <5>2, SumOfNone
      <4> QED BY <4>1, <4>2
    <3>8. spent'[u] = IF u = Purse(i) THEN spent[u] + Amount(i) ELSE spent[u]
      BY <3>2 DEF TypeOK
    <3>9. Amount(i) \in Int /\ spent[u] \in Int
      BY RowTypes DEF TypeOK
    <3>10. HandedSum(u) \in Int
      <4> DEFINE f == [j \in Handed(u) |-> Amount(j)]
      <4>1. DOMAIN f = Handed(u) /\ \A j \in Handed(u) : f[j] \in Int
        BY RowTypes DEF Handed
      <4>2. IsFiniteSet(Handed(u))
        <5>1. Handed(u) \subseteq DOMAIN rows
          BY DEF Handed
        <5> QED BY <5>1, RowsFinite, FS_Subset
      <4>3. HandedSum(u) = SumFunctionOnSet(f, Handed(u))
        BY <4>1 DEF HandedSum, SumFunction
      <4> HIDE DEF f
      <4> QED BY <4>1, <4>2, <4>3, SumInt
    <3> QED BY <1>now, <3>3, <3>6, <3>7, <3>8, <3>9, <3>10
  <2>5. CASE Closing(r)
    <3>1. PICK i \in DOMAIN rows, status \in {"submitted", "failed"} : Closes(i, status)
      BY <2>5, ClosesOpen
    <3>2. /\ ops' = ops /\ spent' = spent /\ DOMAIN rows' = DOMAIN rows
          /\ \A j \in DOMAIN rows : rows'[j].sched = rows[j].sched
      BY <2>5, <3>1, ClosedRow DEF Closing, RowStatus
    <3>3. sub[r].pc \notin {"relayed", "record"} /\ sub'[r].pc \notin {"relayed", "record"}
      BY <2>5, <2>goes DEF Closing, MarksSubmitted, MarksFailed
    <3>4. HandedSum(u)' = HandedSum(u)
      BY <3>2, HandedRests
    <3>5. UnrecordedSum(u)' = UnrecordedSum(u)
      BY <2>1, <3>2, <3>3, UnrecordedRests
    <3> QED BY <1>rest, <3>2, <3>4, <3>5
  <2> QED
    BY <1>5, <2>2, <2>3, <2>4, <2>5
<1> QED
  BY <1>1, <1>2, <1>3, <1>4, <1>5, TableMoves

\* What is recorded for a purse is exactly what was handed to the bundler, less the buy whose answer
\* is on its way to the table: nothing is booked twice, and nothing the bundler took is forgotten,
\* with one submit at a time and without faults (Application.kt submit).
THEOREM SpendIsRecorded == ASSUME Serial, MaxFaults = 0 PROVE Spec => []SpendRecorded
<1>1. Init => MatchInv /\ HandshakeInv /\ SpendRecorded
  <2> SUFFICES ASSUME Init PROVE MatchInv /\ HandshakeInv /\ SpendRecorded
    OBVIOUS
  <2>1. MatchInv /\ HandshakeInv
    BY DEF Init, MatchInv, RowMatchesOp, HandshakeInv, SentBehind, HandshakeSafe
  <2>2. ASSUME NEW u \in Purses PROVE spent[u] = HandedSum(u) - UnrecordedSum(u)
    <3>1. Handed(u) = {} /\ Unrecorded(u) = {}
      BY DEF Init, Handed, Unrecorded
    <3>2. DOMAIN [i \in Handed(u) |-> Amount(i)] = {} /\ DOMAIN [r \in Unrecorded(u) |-> Amount(sub[r].row)] = {}
      BY <3>1
    <3>3. HandedSum(u) = 0 /\ UnrecordedSum(u) = 0
      BY <3>2, SumOfNone DEF HandedSum, UnrecordedSum
    <3> QED BY <3>3 DEF Init
  <2> QED BY <2>1, <2>2 DEF SpendRecorded, HandedSum, UnrecordedSum
<1>2. TypeOK /\ HandshakeInv /\ SerialInv /\ MatchInv /\ SpendRecorded /\ [Next]_vars
        => MatchInv' /\ HandshakeInv' /\ SpendRecorded'
  BY MatchKeeps, HandshakeKeeps, RecordedKeeps
<1> QED
  BY <1>1, <1>2, TypeCorrect, SerialInvariant, PTL DEF Spec
=============================================================================
