------------------------------ MODULE CopyLanes ------------------------------
(***************************************************************************)
(* The nonce lanes of CopyTrading, with their history.  An account has     *)
(* LaneMod lanes at the EntryPoint, nextNonceKey hands them out in a ring, *)
(* and the ring starts again with the process.  What can go wrong depends  *)
(* on how long ago a lane was handed out, which no variable of the service *)
(* records: the variables here do.  They are written beside the step they  *)
(* record, no step of the service reads them, and every behaviour of       *)
(* CopyTrading has its history.                                            *)
(***************************************************************************)
EXTENDS CopyTrading

VARIABLES
    handed,  \* follower -> lanes handed out since the process started
    ticket,  \* request -> how many had been handed out before its last one
    sent     \* op -> the ticket of its lane, and in which run of the process it was sent

history == <<handed, ticket, sent>>
laneVars == <<vars, history>>

FollowerOf(p) == Scope[p].follower

Asks(h) == req[h].phase = "submit"

\* This step hands request h a lane of account f.
Takes(h, f) == ~ Asks(h) /\ Asks(h)' /\ FollowerOf(req'[h].job.perm) = f

HistoryInit ==
    /\ handed = [f \in Followers |-> 0]
    /\ ticket = [h \in Handlers |-> 0]
    /\ sent = <<>>

Record ==
    /\ handed' = [f \in Followers |->
                     IF crashes' # crashes THEN 0
                     ELSE IF \E h \in Handlers : Takes(h, f) THEN handed[f] + 1 ELSE handed[f]]
    /\ ticket' = [h \in Handlers |->
                     IF \E f \in Followers : Takes(h, f) THEN handed[FollowerOf(req'[h].job.perm)] ELSE ticket[h]]
    /\ sent' = [i \in DOMAIN ops' |->
                     IF i \in DOMAIN ops THEN sent[i] ELSE [run |-> crashes, ticket |-> ticket[ops'[i].by]]]

LaneInit == Init /\ HistoryInit

LaneNext == Next /\ Record

LaneSpec == LaneInit /\ [][LaneNext]_laneVars

-----------------------------------------------------------------------------
(* Properties.                                                             *)

\* What holds a lane: a request that awaits submitMirror, or an op (op = 0: not sent yet).
Holder(h, i, p, lane, run, number) ==
    [by |-> h, op |-> i, follower |-> FollowerOf(p), lane |-> lane, run |-> run, ticket |-> number]

AskedBy(h) == Holder(h, 0, req[h].job.perm, req[h].job.lane, crashes, ticket[h])

SentAs(i) == Holder(ops[i].by, i, ops[i].perm, ops[i].lane, sent[i].run, sent[i].ticket)

UnderWay == {AskedBy(h) : h \in {g \in Handlers : Asks(g)}}
                \union {SentAs(i) : i \in {j \in DOMAIN ops : ops[j].status = "mempool"}}

SameLane(a, b) == a.follower = b.follower /\ a.lane = b.lane

\* "concurrent ops never share a lane" (copySession.ts nextNonceKey): of two mirrors of one account
\* that are under way on the same lane at the same time, one was sent before the last restart, or
\* every other lane was handed out between them.
LanesRotate ==
    \A a, b \in UnderWay :
        /\ a # b
        /\ SameLane(a, b)
        /\ a.run = b.run
        => \/ a.ticket + LaneMod <= b.ticket
           \/ b.ticket + LaneMod <= a.ticket
=============================================================================
