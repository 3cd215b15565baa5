---------------------------- MODULE CopyRegistry ----------------------------
(***************************************************************************)
(* CopySessionRegistry (aa-trigger/src/copySession.ts): the copy-session   *)
(* records with their JSON file, the in-memory reservations and the nonce  *)
(* lane counters.  Each operator below is one method; the ones that change *)
(* state are action formulas over the four variables, and CopyTrading      *)
(* calls them from the HTTP handlers.                                      *)
(*                                                                         *)
(* A record that is not in the Map has status "none".  Every upsert writes *)
(* the Map first and the file second (write a temporary file, rename it    *)
(* over the old one); ok = FALSE is a write that throws, which leaves the  *)
(* Map changed and the file as it was.                                     *)
(***************************************************************************)
EXTENDS Integers, Sequences, FiniteSets

CONSTANTS
    Perms,       \* permissionIds: one per copy session, fresh for every prepare
    Keys,        \* idempotency keys
    Followers,   \* follower accounts
    Scope,       \* permissionId -> the scope fixed at prepare
    BootFile,    \* content of copy-sessions.json when the service first starts
    LaneMod,     \* number of nonce lanes (2^16 in the code)
    DiskFaults   \* TRUE when writing the file may throw

VARIABLES
    records,       \* CopySessionRegistry.records
    disk,          \* the JSON file
    inflight,      \* CopySessionRegistry.inflight
    nonceCounters  \* CopySessionRegistry.nonceCounters

regVars == <<records, disk, inflight, nonceCounters>>

Statuses == {"none", "prepared", "granted", "revoked"}

CopyRecord == [status: Statuses, paused: BOOLEAN, spentTotal: Nat, mirroredTx: Seq(Keys)]

Booking == [txs: SUBSET Keys, spend: Int]

FreshRecord(status) == [status |-> status, paused |-> FALSE, spentTotal |-> 0, mirroredTx |-> <<>>]

\* A permissionId without an entry in the inflight Map.
NoBooking == [txs |-> {}, spend |-> 0]

Cap(p) == Scope[p].cap

Mirrored(r) == {r.mirroredTx[i] : i \in DOMAIN r.mirroredTx}

NoRepeats(s) == \A i, j \in DOMAIN s : s[i] = s[j] => i = j

ASSUME ScopeAssumption ==
    /\ \A p \in Perms : Scope[p].cap \in Nat /\ Scope[p].follower \in Followers
    /\ LaneMod \in Nat \ {0}

\* The file the service starts from is one an earlier run of it has written.
ASSUME BootAssumption ==
    /\ BootFile \in [Perms -> CopyRecord]
    /\ \A p \in Perms : /\ BootFile[p].spentTotal <= Cap(p)
                        /\ NoRepeats(BootFile[p].mirroredTx)

\* A session without a record has nothing charged.
ASSUME AbsentAssumption ==
    \A p \in Perms : BootFile[p].status = "none" => BootFile[p] = FreshRecord("none")

WriteOutcomes == IF DiskFaults THEN BOOLEAN ELSE {TRUE}

RegInit ==
    /\ disk = BootFile
    /\ records = BootFile
    /\ inflight = [p \in Perms |-> NoBooking]
    /\ nonceCounters = [f \in Followers |-> 0]

-----------------------------------------------------------------------------
(* Records.                                                                *)

Upsert(p, r, ok) ==
    /\ records' = [records EXCEPT ![p] = r]
    /\ disk' = IF ok THEN [records EXCEPT ![p] = r] ELSE disk

Prepare(p, ok) ==
    /\ records[p].status = "none"
    /\ Upsert(p, FreshRecord("prepared"), ok)

Grant(p, ok) ==
    /\ records[p].status \notin {"none", "revoked"}
    /\ Upsert(p, [records[p] EXCEPT !.status = "granted"], ok)

SetPaused(p, paused, ok) ==
    /\ records[p].status # "none"
    /\ Upsert(p, [records[p] EXCEPT !.paused = paused], ok)

Revoke(p, ok) ==
    /\ records[p].status # "none"
    /\ Upsert(p, [records[p] EXCEPT !.status = "revoked"], ok)

\* viewByFollower: the sessions GET /v1/copy/sessions shows.
ViewByFollower(f) ==
    {p \in Perms : records[p].status = "granted" /\ Scope[p].follower = f}

FindBySource(source, chain) ==
    {p \in Perms : /\ records[p].status = "granted"
                   /\ ~records[p].paused
                   /\ Scope[p].source = source
                   /\ Scope[p].chain = chain}

-----------------------------------------------------------------------------
(* Reservations.                                                           *)

\* A gate that counts only what is already recorded.
MirrorableIgnoringInflight(p, spend, key) ==
    /\ records[p].status = "granted"
    /\ ~records[p].paused
    /\ key \notin Mirrored(records[p])
    /\ key \notin inflight[p].txs
    /\ records[p].spentTotal + spend <= Cap(p)

\* A gate that does not look at the keys already mirrored.
MirrorableIgnoringMirrored(p, spend, key) ==
    /\ records[p].status = "granted"
    /\ ~records[p].paused
    /\ key \notin inflight[p].txs
    /\ records[p].spentTotal + inflight[p].spend + spend <= Cap(p)

\* assertMirrorable returns; otherwise it throws a GateError.
Mirrorable(p, spend, key) ==
    /\ records[p].status = "granted"
    /\ ~records[p].paused
    /\ key \notin Mirrored(records[p])
    /\ key \notin inflight[p].txs
    /\ records[p].spentTotal + inflight[p].spend + spend <= Cap(p)

\* reserve: check and book in one synchronous step.
Reserve(p, spend, key) ==
    /\ Mirrorable(p, spend, key)
    /\ inflight' = [inflight EXCEPT ![p] =
                       [txs |-> @.txs \union {key}, spend |-> @.spend + spend]]

\* A releaseInflight that drops the key and forgets to give the budget back.
ReleaseInflightKeepSpend(p, spend, key) ==
    LET b == inflight[p]
    IN  inflight' = [inflight EXCEPT ![p] = [txs |-> b.txs \ {key}, spend |-> b.spend]]

ReleaseInflight(p, spend, key) ==
    LET b == inflight[p]
        txs == b.txs \ {key}
    IN  inflight' = [inflight EXCEPT ![p] =
                       IF txs = {} THEN NoBooking
                       ELSE [txs |-> txs,
                             spend |-> IF key \in b.txs THEN b.spend - spend ELSE b.spend]]

\* A recordMirror that charges the budget and forgets the idempotency key.
RecordMirrorNoKey(p, spend, key, ok) ==
    Upsert(p, [records[p] EXCEPT !.spentTotal = @ + spend], ok)

\* A recordMirror that writes back the record it saw when the mirror was reserved.
RecordMirrorStale(p, spend, key, ok) ==
    Upsert(p, [records[p] EXCEPT !.status = "granted",
                                 !.spentTotal = @ + spend,
                                 !.mirroredTx = Append(@, key)], ok)

RecordMirror(p, spend, key, ok) ==
    Upsert(p, [records[p] EXCEPT !.spentTotal = @ + spend,
                                 !.mirroredTx = Append(@, key)], ok)

CommitReservation(p, spend, key, ok) ==
    /\ ReleaseInflight(p, spend, key)
    /\ RecordMirror(p, spend, key, ok)

ReleaseReservation(p, spend, key) == ReleaseInflight(p, spend, key)

-----------------------------------------------------------------------------
(* Nonce lanes and restart.                                                *)

\* Every op on the lane of the first one.
NextNonceKeyStuck(f) == UNCHANGED nonceCounters

\* A counter that runs past the lanes there are.
NextNonceKeyNoWrap(f) == nonceCounters' = [nonceCounters EXCEPT ![f] = @ + 1]

\* The lane handed out for follower f; the counter moves on.
NextNonceKey(f) == nonceCounters' = [nonceCounters EXCEPT ![f] = (@ + 1) % LaneMod]

\* A new process: the constructor reads the file, everything else starts empty.
Restart ==
    /\ records' = disk
    /\ inflight' = [p \in Perms |-> NoBooking]
    /\ nonceCounters' = [f \in Followers |-> 0]
    /\ UNCHANGED disk

-----------------------------------------------------------------------------
RegTypeOK ==
    /\ records \in [Perms -> CopyRecord]
    /\ disk \in [Perms -> CopyRecord]
    /\ inflight \in [Perms -> Booking]
    /\ nonceCounters \in [Followers -> 0 .. LaneMod - 1]
=============================================================================
