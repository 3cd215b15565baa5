-------------------------- MODULE CopyLedgerProofs --------------------------
(***************************************************************************)
(* More proofs about CopyTrading: what the registry file keeps, that the   *)
(* copy service implements MirrorLedger, that one source spend is mirrored *)
(* once, what ends a session, that the in-flight book is exactly the       *)
(* mirrors under way, that nothing drawn on-chain is under-counted, and    *)
(* when two mirrors may share a nonce lane.  They rest on the invariant of *)
(* CopyTradingProofs and on two short lists of what a step can do: to the  *)
(* registry (RegistryMoves), and to the mirrors under way (MirrorMoves).   *)
(***************************************************************************)
EXTENDS CopyTradingProofs, CopyLanes

-----------------------------------------------------------------------------
(* What a step does to the registry.                                       *)

RegistryRests == UNCHANGED <<records, disk, inflight>>

Holds == \E p \in Perms, k \in Keys, a \in Nat : Reserve(p, a, k) /\ UNCHANGED <<records, disk>>

\* The hold of key k is given back, whatever happens to the reserved sum.
GivesBack(p, k) ==
    /\ k \in inflight[p].txs
    /\ inflight' = [inflight EXCEPT ![p] = inflight'[p]]
    /\ inflight'[p].txs = inflight[p].txs \ {k}

Drops == \E p \in Perms, k \in Keys : GivesBack(p, k) /\ UNCHANGED <<records, disk>>

Charges ==
    \E p \in Perms, k \in Keys, a \in Nat, ok \in WriteOutcomes :
        GivesBack(p, k) /\ RecordMirror(p, a, k, ok)

\* A record is written that keeps the charges and does not un-revoke.
KeepsCharges(r, s) ==
    /\ s.spentTotal = r.spentTotal /\ s.mirroredTx = r.mirroredTx
    /\ s.status # "none"
    /\ r.status = "revoked" => s.status = "revoked"

Writes ==
    \E p \in Perms, r \in CopyRecord, ok \in WriteOutcomes :
        Upsert(p, r, ok) /\ KeepsCharges(records[p], r) /\ UNCHANGED inflight

\* A session that is not in the Map or in the file has nothing charged.
Absent(r) == r.status = "none" => r.spentTotal = 0 /\ r.mirroredTx = <<>>
AbsentIsFresh == \A p \in Perms : Absent(records[p]) /\ Absent(disk[p])

\* Only a session with a record has reservations.
HeldIsThere == \A p \in Perms : inflight[p].txs # {} => records[p].status # "none"

\* A claimed key is reserved, and releasing it gives exactly that key back.
LEMMA ReleaseGivesBack ==
    ASSUME IInv, NEW p \in Perms, NEW k, NEW a, <<k, a>> \in ClaimsOn(p), ReleaseInflight(p, a, k)
    PROVE  k \in Keys /\ GivesBack(p, k)
<1>1. inflight \in [Perms -> Booking]
  BY DEF IInv, TypeOK, RegTypeOK
<1>2. k \in inflight[p].txs
  BY DEF IInv, BookOK
<1>3. inflight'[p].txs = inflight[p].txs \ {k}
  BY <1>1 DEF ReleaseInflight, NoBooking
<1>4. inflight' = [inflight EXCEPT ![p] = inflight'[p]]
  BY <1>1 DEF ReleaseInflight
<1> QED
  BY <1>1, <1>2, <1>3, <1>4 DEF GivesBack, Booking

LEMMA WebhookMoves ==
    ASSUME IInv, NEW h \in Handlers, WebhookStep(h)
    PROVE  RegistryRests \/ Holds
<1>1. ASSUME NEW p \in Perms, FanBuildThrows(h, p) \/ FanSubmits(h, p) PROVE Holds
  <2>1. InPayload(h) /\ Wants(h, p)
    BY <1>1 DEF FanBuildThrows, FanSubmits, Runs, IInv, HandlersOK, HandlerOK
  <2>2. Amount(h, p) \in Nat /\ SpendKey(Activity(h)) \in Keys
    BY <2>1, AmountType DEF IInv
  <2> QED
    BY <1>1, <2>2 DEF Holds, FanBuildThrows, FanSubmits
<1>2. ASSUME \/ WebhookRejects(h) \/ WebhookArrives(h) \/ ScanSkips(h) \/ ScanFinds(h) \/ ScanReplies(h)
             \/ FanEnds(h) \/ \E p \in Perms : FanSkips(h, p)
      PROVE  RegistryRests
  BY <1>2 DEF WebhookRejects, WebhookArrives, ScanSkips, ScanFinds, ScanReplies, FanEnds, FanSkips,
              regVars, RegistryRests
<1> QED
  BY <1>1, <1>2 DEF WebhookStep

LEMMA TriggerMoves ==
    ASSUME IInv, NEW h \in Handlers, TriggerStep(h)
    PROVE  RegistryRests \/ Holds
<1>1. CASE TriggerRejects(h)
  BY <1>1 DEF TriggerRejects, regVars, RegistryRests
<1>2. CASE TriggerSubmits(h)
  <2>1. Kind(h) = "trigger" /\ TriggerValid(h)
    BY <1>2 DEF TriggerSubmits, Arrives
  <2>2. TriggerSpend(h) \in Nat /\ TriggerKey(Request[h]) \in Keys /\ Request[h].perm \in Perms
    BY <2>1, TriggerType
  <2> QED
    BY <1>2, <2>2 DEF Holds, TriggerSubmits
<1> QED
  BY <1>1, <1>2 DEF TriggerStep

LEMMA SubmitMoves ==
    ASSUME IInv, NEW h \in Handlers, SubmitStep(h)
    PROVE  RegistryRests \/ Drops
<1>1. CASE BundlerAccepts(h) \/ SubmitReturns(h)
  BY <1>1 DEF BundlerAccepts, SubmitReturns, regVars, RegistryRests
<1>2. CASE SubmitThrows(h) \/ ReplyLost(h)
  <2> DEFINE j == req[h].job
  <2>1. Submitting(h) /\ j \in Jobs
    BY <1>2 DEF SubmitThrows, ReplyLost, Awaits, Submitting, IInv, TypeOK
  <2>2. j.perm \in Perms /\ ReleaseInflight(j.perm, j.amt, j.key) /\ UNCHANGED <<records, disk>>
    BY <1>2, <2>1 DEF SubmitThrows, ReplyLost, ReleaseReservation, Jobs
  <2>3. <<j.key, j.amt>> \in ClaimsOn(j.perm)
    BY <2>1 DEF ClaimsOn, SubmittersOn
  <2> HIDE DEF j
  <2>4. j.key \in Keys /\ GivesBack(j.perm, j.key)
    BY <2>2, <2>3, ReleaseGivesBack
  <2> QED
    BY <2>2, <2>4 DEF Drops
<1> QED
  BY <1>1, <1>2 DEF SubmitStep

LEMMA SettleMoves ==
    ASSUME IInv, NEW i \in DOMAIN ops, Settle(i)
    PROVE  RegistryRests \/ Drops \/ Charges
<1>1. ops[i] \in Op
  BY LenProperties, ElementOfSeq DEF IInv, TypeOK
<1>2. PICK p \in Perms, k \in Keys, a \in Nat : ops[i].perm = p /\ ops[i].key = k /\ ops[i].amt = a
  BY <1>1 DEF Op
<1>3. ops[i].watch = "polling" => <<k, a>> \in ClaimsOn(p)
  BY <1>2 DEF ClaimsOn, BookedOn, Booked
<1>4. ASSUME NEW ok \in WriteOutcomes, SettleSuccess(i, ok) PROVE Charges
  <2>1. ReleaseInflight(p, a, k) /\ RecordMirror(p, a, k, ok) /\ <<k, a>> \in ClaimsOn(p)
    BY <1>2, <1>3, <1>4 DEF SettleSuccess, CommitReservation
  <2>2. GivesBack(p, k)
    BY <2>1, ReleaseGivesBack
  <2> QED
    BY <2>1, <2>2 DEF Charges
<1>5. CASE SettleReverted(i)
  <2>1. ReleaseInflight(p, a, k) /\ <<k, a>> \in ClaimsOn(p) /\ UNCHANGED <<records, disk>>
    BY <1>2, <1>3, <1>5 DEF SettleReverted, ReleaseReservation
  <2>2. GivesBack(p, k)
    BY <2>1, ReleaseGivesBack
  <2> QED
    BY <2>1, <2>2 DEF Drops
<1>6. CASE SettleTimeout(i)
  BY <1>6 DEF SettleTimeout, regVars, RegistryRests
<1> QED
  BY <1>4, <1>5, <1>6 DEF Settle

LEMMA RevokeWrites ==
    ASSUME IInv, NEW p \in Perms, NEW ok \in WriteOutcomes, Revoke(p, ok), UNCHANGED inflight
    PROVE  Writes
<1> DEFINE r == [records[p] EXCEPT !.status = "revoked"]
<1>1. records[p] \in CopyRecord
  BY DEF IInv, TypeOK, RegTypeOK
<1>2. r \in CopyRecord /\ KeepsCharges(records[p], r)
  BY <1>1 DEF CopyRecord, Statuses, KeepsCharges
<1>3. Upsert(p, r, ok)
  BY DEF Revoke
<1> HIDE DEF r
<1> QED
  BY <1>2, <1>3 DEF Writes

LEMMA ListMoves ==
    ASSUME IInv, NEW h \in Handlers, ListStep(h)
    PROVE  RegistryRests \/ Writes
<1>1. ASSUME NEW p \in Perms, NEW ok \in WriteOutcomes, ListRevokes(h, p, ok) PROVE Writes
  BY <1>1, RevokeWrites DEF ListRevokes
<1>2. ASSUME ListArrives(h) \/ ListResumes(h) \/ ListReplies(h) PROVE RegistryRests
  BY <1>2 DEF ListArrives, ListResumes, ListReplies, regVars, RegistryRests
<1>3. ASSUME NEW p \in Perms, NEW failed \in BOOLEAN, ListReads(h, p, failed) PROVE RegistryRests
  BY <1>3 DEF ListReads, regVars, RegistryRests
<1> QED
  BY <1>1, <1>2, <1>3 DEF ListStep

LEMMA RevokeMoves ==
    ASSUME IInv, NEW h \in Handlers, RevokeStep(h)
    PROVE  RegistryRests \/ Writes
<1>1. ASSUME NEW ok \in WriteOutcomes, RelayReturns(h, ok) PROVE Writes
  <2>1. Kind(h) = "revoke"
    BY <1>1 DEF RelayReturns, Awaits, IInv, HandlersOK, HandlerOK
  <2>2. Request[h].perm \in Perms
    BY <2>1, RequestAssumption DEF WellFormedRequest, Kind
  <2> QED
    BY <1>1, <2>2, RevokeWrites DEF RelayReturns
<1>2. ASSUME RevokeArrives(h) \/ OpAccepted(h) \/ RelayThrows(h) PROVE RegistryRests
  BY <1>2 DEF RevokeArrives, OpAccepted, RelayThrows, regVars, RegistryRests
<1> QED
  BY <1>1, <1>2 DEF RevokeStep

LEMMA OwnerMoves ==
    ASSUME IInv, AbsentIsFresh, NEW p \in Perms, OwnerStep(p)
    PROVE  Writes
<1>1. records[p] \in CopyRecord
  BY DEF IInv, TypeOK, RegTypeOK
<1>2. ASSUME NEW r \in CopyRecord, NEW ok \in WriteOutcomes, Upsert(p, r, ok),
             KeepsCharges(records[p], r), UNCHANGED inflight
      PROVE  Writes
  BY <1>2 DEF Writes
<1>3. ASSUME NEW ok \in WriteOutcomes, OwnerPrepares(p, ok) PROVE Writes
  <2>1. FreshRecord("prepared") \in CopyRecord
    BY EmptySeq DEF FreshRecord, CopyRecord, Statuses
  <2>2. KeepsCharges(records[p], FreshRecord("prepared"))
    BY <1>3 DEF OwnerPrepares, Prepare, AbsentIsFresh, Absent, KeepsCharges, FreshRecord
  <2> QED
    BY <1>2, <1>3, <2>1, <2>2 DEF OwnerPrepares, Prepare
<1>4. ASSUME NEW ok \in WriteOutcomes, OwnerGrants(p, ok) PROVE Writes
  <2> DEFINE r == [records[p] EXCEPT !.status = "granted"]
  <2>1. r \in CopyRecord /\ KeepsCharges(records[p], r)
    BY <1>1, <1>4 DEF CopyRecord, Statuses, KeepsCharges, OwnerGrants, Grant
  <2>2. Upsert(p, r, ok) /\ UNCHANGED inflight
    BY <1>4 DEF OwnerGrants, Grant
  <2> HIDE DEF r
  <2> QED
    BY <1>2, <2>1, <2>2
<1>5. ASSUME NEW ok \in WriteOutcomes, NEW paused \in BOOLEAN, OwnerPauses(p, paused, ok) PROVE Writes
  <2> DEFINE r == [records[p] EXCEPT !.paused = paused]
  <2>1. r \in CopyRecord /\ KeepsCharges(records[p], r)
    BY <1>1, <1>5 DEF CopyRecord, KeepsCharges, OwnerPauses, SetPaused
  <2>2. Upsert(p, r, ok) /\ UNCHANGED inflight
    BY <1>5 DEF OwnerPauses, SetPaused
  <2> HIDE DEF r
  <2> QED
    BY <1>2, <2>1, <2>2
<1> QED
  BY <1>3, <1>4, <1>5 DEF OwnerStep

\* Every step makes one of these moves on the registry.
LEMMA RegistryMoves ==
    ASSUME IInv, AbsentIsFresh, [Next]_vars
    PROVE  RegistryRests \/ Holds \/ Drops \/ Charges \/ Writes \/ Crash
<1>1. ASSUME NEW h \in Handlers, RequestStep(h) PROVE RegistryRests \/ Holds \/ Drops \/ Writes
  BY <1>1, WebhookMoves, TriggerMoves, SubmitMoves, ListMoves, RevokeMoves DEF RequestStep
<1>2. CASE ChainStep
  BY <1>2 DEF ChainStep, OpSucceeds, OpReverts, EnableMined, OwnerRemoves, RemovalMined, regVars, RegistryRests
<1>3. CASE UNCHANGED vars
  BY <1>3 DEF vars, regVars, RegistryRests
<1> QED
  BY <1>1, <1>2, <1>3, SettleMoves, OwnerMoves DEF Next

-----------------------------------------------------------------------------
(* What the file keeps.                                                    *)

\* A later version of a record: nothing that was recorded is taken back.
Grows(r, s) ==
    /\ r.status = "revoked" => s.status = "revoked"
    /\ r.spentTotal <= s.spentTotal
    /\ IsPrefixOf(r.mirroredTx, s.mirroredTx)

\* The file is an earlier version of the Map.
FileBehind == \A p \in Perms : Grows(disk[p], records[p])

LEMMA GrowsReflexive ==
    ASSUME NEW r \in CopyRecord, NEW s, KeepsCharges(r, s) \/ s = r
    PROVE  Grows(r, s)
<1>1. r.spentTotal \in Nat /\ r.mirroredTx \in Seq(Keys)
  BY DEF CopyRecord
<1>2. Len(r.mirroredTx) \in Nat
  BY <1>1, LenProperties
<1> QED
  BY <1>1, <1>2 DEF Grows, KeepsCharges, IsPrefixOf

LEMMA GrowsTransitive ==
    ASSUME NEW r \in CopyRecord, NEW s \in CopyRecord, NEW t \in CopyRecord, Grows(r, s), Grows(s, t)
    PROVE  Grows(r, t)
<1>1. /\ r.spentTotal \in Nat /\ s.spentTotal \in Nat /\ t.spentTotal \in Nat
      /\ r.mirroredTx \in Seq(Keys) /\ s.mirroredTx \in Seq(Keys) /\ t.mirroredTx \in Seq(Keys)
  BY DEF CopyRecord
<1> DEFINE a == r.mirroredTx
           b == s.mirroredTx
           c == t.mirroredTx
<1>2. /\ Len(a) \in Nat /\ Len(b) \in Nat /\ Len(c) \in Nat
      /\ DOMAIN a = 1 .. Len(a) /\ DOMAIN b = 1 .. Len(b)
  BY <1>1, LenProperties
<1>3. IsPrefixOf(a, b) /\ IsPrefixOf(b, c)
  BY DEF Grows
<1>4. IsPrefixOf(a, c)
  <2> HIDE DEF a, b, c
  <2> QED
    BY <1>2, <1>3 DEF IsPrefixOf
<1> QED
  BY <1>1, <1>4 DEF Grows

\* recordMirror appends one key and adds one amount.
LEMMA ChargeGrows ==
    ASSUME IInv, NEW p \in Perms, NEW k \in Keys, NEW a \in Nat, NEW ok, RecordMirror(p, a, k, ok)
    PROVE  /\ Grows(records[p], records'[p])
           /\ records'[p].status = records[p].status
           /\ records'[p].spentTotal = records[p].spentTotal + a
           /\ Mirrored(records'[p]) = Mirrored(records[p]) \union {k}
           /\ records' = [records EXCEPT ![p] = records'[p]]
           /\ disk' = IF ok THEN records' ELSE disk
<1> DEFINE s == records[p].mirroredTx
<1>1. records \in [Perms -> CopyRecord] /\ s \in Seq(Keys) /\ records[p].spentTotal \in Nat
  BY DEF IInv, TypeOK, RegTypeOK, CopyRecord
<1>2. /\ Append(s, k) \in Seq(Keys)
      /\ Len(Append(s, k)) = Len(s) + 1
      /\ \A i \in 1 .. Len(s) : Append(s, k)[i] = s[i]
      /\ Append(s, k)[Len(s) + 1] = k
      /\ Len(s) \in Nat /\ DOMAIN s = 1 .. Len(s) /\ DOMAIN Append(s, k) = 1 .. Len(s) + 1
  BY <1>1, AppendProperties, LenProperties
<1>3. /\ records' = [records EXCEPT ![p] = records'[p]]
      /\ disk' = IF ok THEN records' ELSE disk
      /\ records'[p].status = records[p].status
      /\ records'[p].spentTotal = records[p].spentTotal + a
      /\ records'[p].mirroredTx = Append(s, k)
  BY <1>1 DEF RecordMirror, Upsert, CopyRecord
<1> HIDE DEF s
<1>4. IsPrefixOf(s, Append(s, k))
  BY <1>2 DEF IsPrefixOf
<1>5. Mirrored(records'[p]) = Mirrored(records[p]) \union {k}
  <2>1. \A i \in 1 .. Len(s) + 1 : i \in 1 .. Len(s) \/ i = Len(s) + 1
    BY <1>2
  <2>2. \A i \in 1 .. Len(s) : i \in 1 .. Len(s) + 1
    BY <1>2
  <2>3. Len(s) + 1 \in 1 .. Len(s) + 1
    BY <1>2
  <2>4. Mirrored(records'[p]) = {Append(s, k)[i] : i \in 1 .. Len(s) + 1}
    BY <1>2, <1>3 DEF Mirrored
  <2>5. Mirrored(records[p]) = {s[i] : i \in 1 .. Len(s)}
    BY <1>2 DEF Mirrored, s
  <2> QED
    BY <1>2, <2>1, <2>2, <2>3, <2>4, <2>5
<1> QED
  BY <1>1, <1>3, <1>4, <1>5 DEF Grows, s

FileInv == FileBehind /\ AbsentIsFresh /\ HeldIsThere

LEMMA InitFile == Init => FileInv
<1> SUFFICES ASSUME Init PROVE FileInv
  OBVIOUS
<1>1. records = BootFile /\ disk = BootFile /\ inflight = [p \in Perms |-> NoBooking]
  BY DEF Init, RegInit
<1>2. FileBehind
  BY <1>1, GrowsReflexive, BootAssumption DEF FileBehind
<1>3. AbsentIsFresh
  BY <1>1, AbsentAssumption DEF AbsentIsFresh, Absent, FreshRecord
<1>4. HeldIsThere
  BY <1>1 DEF HeldIsThere, NoBooking
<1> QED
  BY <1>2, <1>3, <1>4 DEF FileInv

\* Every move keeps the file behind the Map, and the file only grows.
LEMMA FileKeeps ==
    ASSUME IInv, FileInv, [Next]_vars
    PROVE  FileInv' /\ \A p \in Perms : Grows(disk[p], disk'[p])
<1>0. /\ records \in [Perms -> CopyRecord] /\ disk \in [Perms -> CopyRecord]
      /\ inflight \in [Perms -> Booking]
      /\ \A q \in Perms : records[q] \in CopyRecord /\ disk[q] \in CopyRecord /\ Grows(disk[q], records[q])
      /\ AbsentIsFresh /\ HeldIsThere
  BY DEF IInv, TypeOK, RegTypeOK, FileInv, FileBehind
<1>1. \A q \in Perms : Grows(disk[q], disk[q]) /\ Grows(records[q], records[q])
  BY <1>0, GrowsReflexive
<1>2. ASSUME records' \in [Perms -> CopyRecord], NEW ok, disk' = IF ok THEN records' ELSE disk,
             \A q \in Perms : Grows(records[q], records'[q]) /\ Absent(records'[q])
      PROVE  /\ FileBehind' /\ AbsentIsFresh'
             /\ \A p \in Perms : Grows(disk[p], disk'[p])
  <2>1. ASSUME NEW q \in Perms PROVE Grows(disk[q], records'[q]) /\ Grows(records'[q], records'[q])
    <3>1. records'[q] \in CopyRecord
      BY <1>2
    <3> QED
      BY <1>0, <1>2, <3>1, GrowsTransitive, GrowsReflexive
  <2>2. disk' = disk \/ disk' = records'
    BY <1>2
  <2> QED
    BY <1>0, <1>1, <1>2, <2>1, <2>2 DEF FileBehind, AbsentIsFresh, Absent
<1>3. CASE RegistryRests \/ Holds \/ Drops
  <2>1. records' = records /\ disk' = disk
    BY <1>3 DEF RegistryRests, Holds, Drops
  <2>2. \A q \in Perms : inflight'[q].txs # {} => records[q].status # "none"
    BY <1>0, <1>3 DEF RegistryRests, Holds, Drops, GivesBack, Reserve, Mirrorable, HeldIsThere
  <2> QED
    BY <1>0, <1>1, <2>1, <2>2 DEF FileInv, FileBehind, AbsentIsFresh, HeldIsThere
<1>4. CASE Charges
  <2>1. PICK p \in Perms, k \in Keys, a \in Nat, ok \in WriteOutcomes :
            GivesBack(p, k) /\ RecordMirror(p, a, k, ok)
    BY <1>4 DEF Charges
  <2>2. /\ Grows(records[p], records'[p]) /\ records'[p].status = records[p].status
        /\ records' = [records EXCEPT ![p] = records'[p]] /\ disk' = IF ok THEN records' ELSE disk
    BY <2>1, ChargeGrows
  <2>3. records[p].status # "none"
    BY <1>0, <2>1 DEF GivesBack, HeldIsThere
  <2>4. records' \in [Perms -> CopyRecord]
    <3>1. IInv'
      BY StepPreserves
    <3> QED
      BY <3>1 DEF IInv, TypeOK, RegTypeOK
  <2>5. \A q \in Perms : q # p => records'[q] = records[q]
    BY <1>0, <2>2
  <2>6. \A q \in Perms : Grows(records[q], records'[q]) /\ Absent(records'[q])
    BY <1>0, <1>1, <2>2, <2>3, <2>5 DEF AbsentIsFresh, Absent
  <2>7. HeldIsThere'
    BY <1>0, <2>1, <2>2, <2>3, <2>5 DEF HeldIsThere, GivesBack
  <2> QED
    BY <1>2, <2>2, <2>4, <2>6, <2>7 DEF FileInv
<1>5. CASE Writes
  <2>1. PICK p \in Perms, r \in CopyRecord, ok \in WriteOutcomes :
            Upsert(p, r, ok) /\ KeepsCharges(records[p], r) /\ UNCHANGED inflight
    BY <1>5 DEF Writes
  <2>2. /\ records' \in [Perms -> CopyRecord] /\ records'[p] = r /\ disk' = IF ok THEN records' ELSE disk
        /\ \A q \in Perms : q # p => records'[q] = records[q]
    BY <1>0, <2>1 DEF Upsert
  <2>3. \A q \in Perms : Grows(records[q], records'[q]) /\ Absent(records'[q])
    <3>1. Grows(records[p], r) /\ Absent(r)
      BY <1>0, <2>1, GrowsReflexive DEF KeepsCharges, Absent
    <3> QED
      BY <1>0, <1>1, <2>2, <3>1 DEF AbsentIsFresh
  <2>4. HeldIsThere'
    BY <1>0, <2>1, <2>2 DEF HeldIsThere, KeepsCharges
  <2> QED
    BY <1>2, <2>2, <2>3, <2>4 DEF FileInv
<1>6. CASE Crash
  <2>1. records' = disk /\ disk' = disk /\ \A q \in Perms : inflight'[q].txs = {}
    BY <1>6 DEF Crash, Restart, NoBooking
  <2> QED
    BY <1>0, <1>1, <2>1 DEF FileInv, FileBehind, AbsentIsFresh, HeldIsThere
<1> QED
  BY <1>0, <1>3, <1>4, <1>5, <1>6, RegistryMoves

\* The file's history is append-only, with failing writes and crashes in any order (copySession.ts
\* grant, recordMirror, constructor): no step un-revokes a session or takes a written charge back.
THEOREM FileIsAppendOnly == Spec => FileHistoryGrows
<1>1. IInv /\ FileInv /\ [Next]_vars => FileInv'
  BY FileKeeps
<1>2. IInv /\ FileInv /\ [Next]_vars =>
        [\A p \in Perms :
            /\ disk[p].status = "revoked" => disk'[p].status = "revoked"
            /\ disk[p].spentTotal <= disk'[p].spentTotal
            /\ IsPrefixOf(disk[p].mirroredTx, disk'[p].mirroredTx)]_vars
  BY FileKeeps DEF Grows
<1> QED
  BY <1>1, <1>2, InitFile, Invariant, PTL DEF Spec, FileHistoryGrows

-----------------------------------------------------------------------------
(* Answers of the revoke endpoint.                                         *)

\* Which requests can be in which phase.
KindsOK ==
    \A h \in Handlers :
        /\ req[h].phase \in {"submit", "sent"} => Kind(h) \in {"webhook", "trigger"}
        /\ req[h].phase \in {"read", "apply"} => Kind(h) = "list"

AnswerInv == KindsOK /\ AckedRevokeDurable

\* What is revoked in the file stays revoked there.
RevokedStays == \A p \in Perms : disk[p].status = "revoked" => disk'[p].status = "revoked"

\* The revoke requests name a session of the model.
LEMMA RevokePerm == ASSUME NEW h \in Handlers, Kind(h) = "revoke" PROVE Request[h].perm \in Perms
BY RequestAssumption DEF WellFormedRequest, Kind

\* Request h moves, to one of phases; a revoke that is answered now has its record in the file.
Moved(h, phases) == req'[h].phase \in phases /\ \A g \in Handlers : g # h => req'[g] = req[g]

LEMMA AnswerMoves ==
    ASSUME AnswerInv, RevokedStays, NEW h \in Handlers, Moved(h, Phases),
           req'[h].phase \in {"submit", "sent"} => Kind(h) \in {"webhook", "trigger"},
           req'[h].phase \in {"read", "apply"} => Kind(h) = "list",
           req'[h].reply = "ok" /\ Kind(h) = "revoke"
              => req[h].reply = "ok" \/ disk'[Request[h].perm].status = "revoked"
    PROVE  AnswerInv'
<1>1. KindsOK'
  BY DEF AnswerInv, KindsOK, Kind, Moved
<1>2. AckedRevokeDurable'
  <2> SUFFICES ASSUME NEW g \in Handlers, Kind(g) = "revoke", req'[g].reply = "ok"
               PROVE  disk'[Request[g].perm].status = "revoked"
    BY DEF AckedRevokeDurable, Kind
  <2> QED
    BY RevokePerm DEF AnswerInv, AckedRevokeDurable, RevokedStays, Moved
<1> QED
  BY <1>1, <1>2 DEF AnswerInv

LEMMA BecomesMoved ==
    ASSUME TypeOK, NEW h \in Handlers, NEW s, Becomes(h, s), NEW phases, s.phase \in phases
    PROVE  Moved(h, phases) /\ req'[h] = s
BY DEF TypeOK, Becomes, Moved

LEMMA FinishedState == \A reply : Finished(reply).phase = "done" /\ Finished(reply).reply = reply
BY DEF Finished, Idle

\* A request that is not a revoke.
LEMMA OtherMoves ==
    ASSUME AnswerInv, RevokedStays, NEW h \in Handlers, NEW phases \in SUBSET Phases, Moved(h, phases),
           Kind(h) # "revoke",
           {"submit", "sent"} \intersect phases = {} \/ Kind(h) \in {"webhook", "trigger"},
           {"read", "apply"} \intersect phases = {} \/ Kind(h) = "list"
    PROVE  AnswerInv'
<1>1. Moved(h, Phases) /\ req'[h].phase \in phases
  BY DEF Moved
<1> QED
  BY <1>1, AnswerMoves

LEMMA WebhookAnswers ==
    ASSUME IInv, AnswerInv, RevokedStays, NEW h \in Handlers, WebhookStep(h)
    PROVE  AnswerInv'
<1> DEFINE phases == {"done", "scan", "fan", "submit"}
<1>0. TypeOK /\ req[h] \in HandlerState /\ HandlerOK(h)
  BY DEF IInv, TypeOK, HandlersOK
<1>1. Kind(h) = "webhook"
  BY <1>0 DEF WebhookStep, WebhookRejects, WebhookArrives, ScanSkips, ScanFinds, ScanReplies, FanEnds,
              FanSkips, FanBuildThrows, FanSubmits, Arrives, Runs, HandlerOK, InPayload
<1>2. ASSUME NEW s, Becomes(h, s), s.phase \in phases PROVE Moved(h, phases)
  BY <1>0, <1>2, BecomesMoved
<1>3. Moved(h, phases)
  <2>1. CASE WebhookRejects(h) \/ ScanReplies(h)
    BY <1>2, <2>1, FinishedState DEF WebhookRejects, ScanReplies
  <2>2. CASE WebhookArrives(h)
    <3> DEFINE s == [req[h] EXCEPT !.phase = "scan", !.pos = 1, !.followed = Followed]
    <3>1. s.phase = "scan"
      BY <1>0 DEF HandlerState
    <3>2. Becomes(h, s)
      BY <2>2 DEF WebhookArrives
    <3> HIDE DEF s
    <3> QED
      BY <1>2, <3>1, <3>2
  <2>3. CASE ScanSkips(h)
    <3> DEFINE s == [req[h] EXCEPT !.pos = @ + 1]
    <3>1. s.phase = "scan"
      BY <1>0, <2>3 DEF HandlerState, ScanSkips, Runs
    <3>2. Becomes(h, s)
      BY <2>3 DEF ScanSkips
    <3> HIDE DEF s
    <3> QED
      BY <1>2, <3>1, <3>2
  <2>4. CASE ScanFinds(h)
    <3> DEFINE s == [req[h] EXCEPT !.phase = "fan", !.fan = FindBySource(Activity(h).from, Activity(h).chain),
                                   !.seen = [p \in Perms |-> records[p].spentTotal]]
    <3>1. s.phase = "fan"
      BY <1>0 DEF HandlerState
    <3>2. Becomes(h, s)
      BY <2>4 DEF ScanFinds
    <3> HIDE DEF s
    <3> QED
      BY <1>2, <3>1, <3>2
  <2>5. CASE FanEnds(h)
    <3> DEFINE s == [req[h] EXCEPT !.phase = "scan", !.pos = @ + 1, !.seen = [p \in Perms |-> 0]]
    <3>1. s.phase = "scan"
      BY <1>0 DEF HandlerState
    <3>2. Becomes(h, s)
      BY <2>5 DEF FanEnds
    <3> HIDE DEF s
    <3> QED
      BY <1>2, <3>1, <3>2
  <2>6. ASSUME NEW p \in Perms, FanSkips(h, p) \/ FanBuildThrows(h, p) PROVE Moved(h, phases)
    <3> DEFINE s == [req[h] EXCEPT !.fan = @ \ {p}]
    <3>1. s.phase = "fan"
      BY <1>0, <2>6 DEF HandlerState, FanSkips, FanBuildThrows, Runs
    <3>2. Becomes(h, s)
      BY <2>6 DEF FanSkips, FanBuildThrows
    <3> HIDE DEF s
    <3> QED
      BY <1>2, <3>1, <3>2
  <2>7. ASSUME NEW p \in Perms, FanSubmits(h, p) PROVE Moved(h, phases)
    <3> DEFINE s == [req[h] EXCEPT !.fan = @ \ {p}, !.phase = "submit",
                                   !.job = Job(p, SpendKey(Activity(h)), Amount(h, p))]
    <3>1. s.phase = "submit"
      BY <1>0 DEF HandlerState
    <3>2. Becomes(h, s)
      BY <2>7 DEF FanSubmits
    <3> HIDE DEF s
    <3> QED
      BY <1>2, <3>1, <3>2
  <2> HIDE DEF phases
  <2> QED
    BY <2>1, <2>2, <2>3, <2>4, <2>5, <2>6, <2>7 DEF WebhookStep
<1> QED
  BY <1>1, <1>3, OtherMoves DEF Phases

LEMMA TriggerAnswers ==
    ASSUME IInv, AnswerInv, RevokedStays, NEW h \in Handlers, TriggerStep(h)
    PROVE  AnswerInv'
<1>0. TypeOK /\ req[h] \in HandlerState
  BY DEF IInv, TypeOK
<1>1. Kind(h) = "trigger"
  BY DEF TriggerStep, TriggerRejects, TriggerSubmits, Arrives
<1>2. CASE TriggerRejects(h)
  <2>1. Becomes(h, Finished("error"))
    BY <1>2 DEF TriggerRejects
  <2>2. Moved(h, {"done"})
    BY <1>0, <2>1, FinishedState, BecomesMoved
  <2> QED
    BY <1>1, <2>2, OtherMoves DEF Phases
<1>3. CASE TriggerSubmits(h)
  <2> DEFINE s == [req[h] EXCEPT !.phase = "submit",
                                 !.job = Job(Request[h].perm, TriggerKey(Request[h]), TriggerSpend(h))]
  <2>1. s.phase = "submit"
    BY <1>0 DEF HandlerState
  <2>2. Becomes(h, s)
    BY <1>3 DEF TriggerSubmits
  <2> HIDE DEF s
  <2>3. Moved(h, {"submit"})
    BY <1>0, <2>1, <2>2, BecomesMoved
  <2> QED
    BY <1>1, <2>3, OtherMoves DEF Phases
<1> QED
  BY <1>2, <1>3 DEF TriggerStep

LEMMA SubmitAnswers ==
    ASSUME IInv, AnswerInv, RevokedStays, NEW h \in Handlers, SubmitStep(h)
    PROVE  AnswerInv'
<1> DEFINE phases == {"sent", "fan", "done"}
<1>0. TypeOK /\ req[h] \in HandlerState
  BY DEF IInv, TypeOK
<1>1. Kind(h) \in {"webhook", "trigger"}
  BY DEF SubmitStep, BundlerAccepts, SubmitThrows, ReplyLost, SubmitReturns, Awaits, AnswerInv, KindsOK
<1>2. ASSUME NEW s, Becomes(h, s), s.phase \in phases PROVE Moved(h, phases)
  BY <1>0, <1>2, BecomesMoved
<1>3. ASSUME NEW reply, Continue(h, reply) PROVE Moved(h, phases)
  <2>1. CASE Kind(h) = "webhook"
    <3> DEFINE s == [req[h] EXCEPT !.phase = "fan", !.job = NoValue, !.op = 0]
    <3>1. s.phase = "fan"
      BY <1>0 DEF HandlerState
    <3>2. Becomes(h, s)
      BY <1>3, <2>1 DEF Continue
    <3> HIDE DEF s
    <3> QED
      BY <1>2, <3>1, <3>2
  <2>2. CASE Kind(h) # "webhook"
    BY <1>2, <1>3, <2>2, FinishedState DEF Continue
  <2> QED
    BY <2>1, <2>2
<1>4. Moved(h, phases)
  <2>1. CASE BundlerAccepts(h)
    <3> DEFINE s == [req[h] EXCEPT !.phase = "sent", !.op = Len(ops) + 1]
    <3>1. s.phase = "sent"
      BY <1>0 DEF HandlerState
    <3>2. Becomes(h, s)
      BY <2>1 DEF BundlerAccepts
    <3> HIDE DEF s
    <3> QED
      BY <1>2, <3>1, <3>2
  <2>2. CASE SubmitThrows(h) \/ ReplyLost(h) \/ SubmitReturns(h)
    BY <1>3, <2>2 DEF SubmitThrows, ReplyLost, SubmitReturns
  <2> QED
    BY <2>1, <2>2 DEF SubmitStep
<1> QED
  BY <1>1, <1>4, OtherMoves DEF Phases

LEMMA ListAnswers ==
    ASSUME IInv, AnswerInv, RevokedStays, NEW h \in Handlers, ListStep(h)
    PROVE  AnswerInv'
<1> DEFINE phases == {"read", "apply", "done"}
<1>0. TypeOK /\ req[h] \in HandlerState
  BY DEF IInv, TypeOK
<1>1. Kind(h) = "list"
  BY DEF ListStep, ListArrives, ListReads, ListResumes, ListRevokes, ListReplies, Arrives, Awaits, Runs,
         AnswerInv, KindsOK
<1>2. ASSUME NEW s, Becomes(h, s), s.phase \in phases PROVE Moved(h, phases)
  BY <1>0, <1>2, BecomesMoved
<1>3. Moved(h, phases)
  <2>1. CASE ListArrives(h)
    <3> DEFINE s == [req[h] EXCEPT !.phase = "read", !.fan = ViewByFollower(Request[h].follower)]
    <3>1. s.phase = "read"
      BY <1>0 DEF HandlerState
    <3>2. Becomes(h, s)
      BY <2>1 DEF ListArrives
    <3> HIDE DEF s
    <3> QED
      BY <1>2, <3>1, <3>2
  <2>2. CASE ListResumes(h)
    <3> DEFINE s == [req[h] EXCEPT !.phase = "apply"]
    <3>1. s.phase = "apply"
      BY <1>0 DEF HandlerState
    <3>2. Becomes(h, s)
      BY <2>2 DEF ListResumes
    <3> HIDE DEF s
    <3> QED
      BY <1>2, <3>1, <3>2
  <2>3. CASE ListReplies(h)
    BY <1>2, <2>3, FinishedState DEF ListReplies
  <2>4. ASSUME NEW p \in Perms, NEW failed \in BOOLEAN, ListReads(h, p, failed) PROVE Moved(h, phases)
    <3> DEFINE s == [req[h] EXCEPT !.fan = @ \ {p},
                                   !.gone = IF failed \/ SessionLive(p) THEN @ ELSE @ \union {p}]
    <3>1. s.phase = req[h].phase
      BY <1>0 DEF HandlerState
    <3>2. Becomes(h, s) /\ req[h].phase = "read"
      BY <2>4 DEF ListReads
    <3> HIDE DEF s
    <3> QED
      BY <1>2, <3>1, <3>2
  <2>5. ASSUME NEW p \in Perms, NEW ok \in WriteOutcomes, ListRevokes(h, p, ok) PROVE Moved(h, phases)
    <3> DEFINE s == [req[h] EXCEPT !.gone = @ \ {p}]
    <3>1. s.phase = req[h].phase
      BY <1>0 DEF HandlerState
    <3>2. (Becomes(h, s) \/ Becomes(h, Finished("error"))) /\ req[h].phase = "apply"
      BY <2>5 DEF ListRevokes, Runs
    <3> HIDE DEF s
    <3> QED
      BY <1>2, <3>1, <3>2, FinishedState
  <2> HIDE DEF phases
  <2> QED
    BY <2>1, <2>2, <2>3, <2>4, <2>5 DEF ListStep
<1> QED
  BY <1>1, <1>3, OtherMoves DEF Phases

\* Only a written revoke is answered with success.
LEMMA RevokeAnswers ==
    ASSUME IInv, AnswerInv, RevokedStays, NEW h \in Handlers, RevokeStep(h)
    PROVE  AnswerInv'
<1>0. TypeOK /\ req[h] \in HandlerState /\ HandlerOK(h)
  BY DEF IInv, TypeOK, HandlersOK
<1>fin. ASSUME NEW reply \in {"ok", "error"}, Becomes(h, Finished(reply)),
               reply = "ok" => disk'[Request[h].perm].status = "revoked"
        PROVE  AnswerInv'
  <2>1. Moved(h, {"done"}) /\ req'[h].reply = reply
    BY <1>0, <1>fin, FinishedState, BecomesMoved
  <2>2. Moved(h, Phases) /\ req'[h].phase = "done"
    BY <2>1 DEF Moved, Phases
  <2> QED
    BY <1>fin, <2>1, <2>2, AnswerMoves
<1>mov. ASSUME NEW phase \in {"relay", "relayed"}, Becomes(h, [req[h] EXCEPT !.phase = phase])
        PROVE  AnswerInv'
  <2> DEFINE s == [req[h] EXCEPT !.phase = phase]
  <2>1. s.phase = phase /\ s.reply = req[h].reply
    BY <1>0 DEF HandlerState
  <2>2. Becomes(h, s)
    BY <1>mov
  <2> HIDE DEF s
  <2>3. Moved(h, {phase}) /\ req'[h] = s
    BY <1>0, <2>1, <2>2, BecomesMoved
  <2>4. Moved(h, Phases) /\ req'[h].phase = phase
    BY <2>3 DEF Moved, Phases
  <2> QED
    BY <2>1, <2>3, <2>4, AnswerMoves
<1>1. CASE RevokeArrives(h)
  <2>1. CASE records[Request[h].perm].status = "none"
    BY <1>fin, <1>1, <2>1 DEF RevokeArrives
  <2>2. CASE records[Request[h].perm].status # "none"
    BY <1>mov, <1>1, <2>2 DEF RevokeArrives
  <2> QED
    BY <2>1, <2>2
<1>2. CASE OpAccepted(h)
  BY <1>mov, <1>2 DEF OpAccepted
<1>3. CASE RelayThrows(h)
  BY <1>fin, <1>3 DEF RelayThrows
<1>4. ASSUME NEW ok \in WriteOutcomes, RelayReturns(h, ok) PROVE AnswerInv'
  <2>1. Kind(h) = "revoke" /\ Request[h].perm \in Perms
    BY <1>0, <1>4, RevokePerm DEF RelayReturns, Awaits, HandlerOK
  <2>2. Becomes(h, Finished(IF ok THEN "ok" ELSE "error")) /\ Revoke(Request[h].perm, ok)
    BY <1>4 DEF RelayReturns
  <2>3. ok => disk'[Request[h].perm].status = "revoked"
    <3>1. records[Request[h].perm] \in CopyRecord /\ records \in [Perms -> CopyRecord]
      BY <2>1 DEF IInv, TypeOK, RegTypeOK
    <3> QED
      BY <2>1, <2>2, <3>1 DEF Revoke, Upsert, CopyRecord
  <2>4. CASE ok
    <3>1. Becomes(h, Finished("ok"))
      BY <2>2, <2>4
    <3> QED
      BY <1>fin, <2>3, <2>4, <3>1
  <2>5. CASE ~ok
    <3>1. Becomes(h, Finished("error"))
      BY <2>2, <2>5
    <3> QED
      BY <1>fin, <3>1
  <2> QED
    BY <2>4, <2>5
<1> QED
  BY <1>1, <1>2, <1>3, <1>4 DEF RevokeStep

LEMMA AnswersKeep ==
    ASSUME IInv, FileInv, AnswerInv, [Next]_vars
    PROVE  AnswerInv'
<1>1. RevokedStays
  BY FileKeeps DEF Grows, RevokedStays
<1>2. ASSUME NEW h \in Handlers, RequestStep(h) PROVE AnswerInv'
  BY <1>1, <1>2, WebhookAnswers, TriggerAnswers, SubmitAnswers, ListAnswers, RevokeAnswers DEF RequestStep
<1>3. ASSUME req' = req PROVE AnswerInv'
  BY <1>1, <1>3, RevokePerm DEF AnswerInv, KindsOK, AckedRevokeDurable, RevokedStays, Kind
<1>4. CASE Crash
  <2>1. \A h \in Handlers : \/ req'[h] = req[h]
                            \/ req'[h].phase = "dead" /\ req'[h].reply = "none"
    BY <1>4 DEF Crash, Idle
  <2> QED
    BY <1>1, <2>1, RevokePerm DEF AnswerInv, KindsOK, AckedRevokeDurable, RevokedStays, Kind
<1>5. ASSUME NEW i \in DOMAIN ops, Settle(i) PROVE req' = req
  BY <1>5 DEF Settle, SettleSuccess, SettleReverted, SettleTimeout
<1>6. ASSUME NEW p \in Perms, OwnerStep(p) PROVE req' = req
  BY <1>6 DEF OwnerStep, OwnerPrepares, OwnerGrants, OwnerPauses
<1>7. CASE ChainStep
  BY <1>3, <1>7 DEF ChainStep, OpSucceeds, OpReverts, EnableMined, OwnerRemoves, RemovalMined
<1>8. CASE UNCHANGED vars
  BY <1>3, <1>8 DEF vars
<1> QED
  BY <1>2, <1>3, <1>4, <1>5, <1>6, <1>7, <1>8 DEF Next

\* A revoke that was answered with success is in the file for ever, whatever fails or restarts later
\* (server.ts revoke/submit).
THEOREM AckedRevokesLast == Spec => []AckedRevokeDurable
<1>1. Init => AnswerInv
  BY DEF Init, AnswerInv, KindsOK, AckedRevokeDurable, Idle
<1>2. IInv /\ FileInv /\ AnswerInv /\ [Next]_vars => FileInv' /\ AnswerInv'
  BY FileKeeps, AnswersKeep
<1>3. AnswerInv => AckedRevokeDurable
  BY DEF AnswerInv
<1> QED
  BY <1>1, <1>2, <1>3, InitFile, Invariant, PTL DEF Spec

-----------------------------------------------------------------------------
(* The registry is a budget ledger.                                        *)

\* Without failing writes the file is the Map.
FileIsMap == disk = records

LEMMA LedgerStarts == Init => Ledger!Init
<1> SUFFICES ASSUME Init PROVE Ledger!Init
  OBVIOUS
<1>1. records = BootFile /\ inflight = [p \in Perms |-> NoBooking]
  BY DEF Init, RegInit
<1> QED
  BY <1>1 DEF Ledger!Init, NoBooking

\* What is charged alone is within the budget.
LEMMA ChargedWithinCap ==
    ASSUME TypeOK, BookOK, Budget
    PROVE  \A p \in Perms : records[p].spentTotal <= Cap(p)
BY SpentWithinCap

LEMMA LedgerSteps ==
    ASSUME IInv, IInv', FileInv, FileIsMap, ~DiskFaults, [Next]_vars
    PROVE  FileIsMap' /\ [Ledger!Next]_(Ledger!ledger)
<1> DEFINE C == [p \in Perms |-> Mirrored(records[p])]
           H == [p \in Perms |-> inflight[p].txs]
           U == [p \in Perms |-> records[p].spentTotal]
<1>0. /\ records \in [Perms -> CopyRecord] /\ inflight \in [Perms -> Booking]
      /\ ChargedOnce /\ AbsentIsFresh
      /\ \A ok \in WriteOutcomes : ok = TRUE
  BY DEF IInv, TypeOK, RegTypeOK, Budget, FileInv, WriteOutcomes
<1>1. ASSUME C' = C, U' = U, H' = H PROVE [Ledger!Next]_(Ledger!ledger)
  BY <1>1 DEF Ledger!ledger
<1>2. CASE RegistryRests
  BY <1>1, <1>2 DEF RegistryRests, FileIsMap
<1>3. CASE Holds
  <2>1. PICK p \in Perms, k \in Keys, a \in Nat : Reserve(p, a, k) /\ UNCHANGED <<records, disk>>
    BY <1>3 DEF Holds
  <2>2. inflight'[p].txs = inflight[p].txs \union {k} /\ \A q \in Perms : q # p => inflight'[q] = inflight[q]
    BY <1>0, <2>1 DEF Reserve, Booking
  <2>3. k \notin C[p] \union H[p] /\ H' = [H EXCEPT ![p] = @ \union {k}] /\ C' = C /\ U' = U
    <3>1. k \notin inflight[p].txs /\ k \notin Mirrored(records[p]) /\ records' = records
      BY <2>1 DEF Reserve, Mirrorable
    <3>2. \A q \in Perms : H'[q] = IF q = p THEN H[p] \union {k} ELSE H[q]
      BY <2>2
    <3> QED
      BY <3>1, <3>2
  <2>4. Ledger!Hold(p, k)
    BY <2>3 DEF Ledger!Hold
  <2> QED
    BY <2>1, <2>4 DEF Ledger!Next, FileIsMap
<1>4. CASE Drops
  <2>1. PICK p \in Perms, k \in Keys : GivesBack(p, k) /\ UNCHANGED <<records, disk>>
    BY <1>4 DEF Drops
  <2>2. \A q \in Perms : q # p => inflight'[q] = inflight[q]
    BY <1>0, <2>1 DEF GivesBack
  <2>3. k \in H[p] /\ H' = [H EXCEPT ![p] = @ \ {k}] /\ C' = C /\ U' = U
    BY <2>1, <2>2 DEF GivesBack
  <2>4. Ledger!Drop(p, k)
    BY <2>3 DEF Ledger!Drop
  <2> QED
    BY <2>1, <2>4 DEF Ledger!Next, FileIsMap
<1>5. CASE Charges
  <2>1. PICK p \in Perms, k \in Keys, a \in Nat, ok \in WriteOutcomes :
            GivesBack(p, k) /\ RecordMirror(p, a, k, ok)
    BY <1>5 DEF Charges
  <2>2. /\ records'[p].spentTotal = records[p].spentTotal + a
        /\ Mirrored(records'[p]) = Mirrored(records[p]) \union {k}
        /\ records' = [records EXCEPT ![p] = records'[p]]
        /\ disk' = records'
    BY <1>0, <2>1, ChargeGrows
  <2>3. \A q \in Perms : q # p => inflight'[q] = inflight[q] /\ records'[q] = records[q]
    BY <1>0, <2>1, <2>2 DEF GivesBack
  <2>4. records'[p].spentTotal <= Cap(p)
    <3>1. TypeOK' /\ BookOK' /\ Budget'
      BY DEF IInv
    <3>2. inflight'[p].spend \in Nat
      <4>1. PICK w \in [Keys -> Nat] : WeighsTo(inflight'[p].txs, w, inflight'[p].spend)
        BY <3>1 DEF BookOK
      <4> QED
        BY <4>1, WeightNat
    <3>3. records'[p].spentTotal \in Nat /\ records'[p].spentTotal + inflight'[p].spend <= Cap(p)
      BY <3>1 DEF TypeOK, RegTypeOK, CopyRecord, Budget, ExposureWithinCap, Cap
    <3>4. Cap(p) \in Nat
      BY ScopeAssumption DEF Cap
    <3> QED
      BY <3>2, <3>3, <3>4
  <2>5. records[p].spentTotal + a <= Cap(p) /\ a \in 0 .. Cap(p)
    <3>1. records[p].spentTotal \in Nat /\ Cap(p) \in Nat
      BY <1>0, ScopeAssumption DEF CopyRecord, Cap
    <3> QED
      BY <2>2, <2>4, <3>1
  <2>6. /\ k \in H[p] /\ k \notin C[p]
        /\ H' = [H EXCEPT ![p] = @ \ {k}]
        /\ C' = [C EXCEPT ![p] = @ \union {k}]
        /\ U' = [U EXCEPT ![p] = @ + a]
    <3>1. k \in inflight[p].txs /\ k \notin Mirrored(records[p])
      BY <1>0, <2>1 DEF GivesBack, ChargedOnce
    <3>2. \A q \in Perms : H'[q] = IF q = p THEN H[p] \ {k} ELSE H[q]
      BY <2>1, <2>3 DEF GivesBack
    <3>3. \A q \in Perms : C'[q] = IF q = p THEN C[p] \union {k} ELSE C[q]
      BY <2>2, <2>3
    <3>4. \A q \in Perms : U'[q] = IF q = p THEN U[p] + a ELSE U[q]
      BY <2>2, <2>3
    <3> QED
      BY <3>1, <3>2, <3>3, <3>4
  <2>7. Ledger!Charge(p, k, a)
    BY <2>5, <2>6 DEF Ledger!Charge
  <2> QED
    BY <2>2, <2>5, <2>7 DEF Ledger!Next, FileIsMap
<1>6. CASE Writes
  <2>1. PICK p \in Perms, r \in CopyRecord, ok \in WriteOutcomes :
            Upsert(p, r, ok) /\ KeepsCharges(records[p], r) /\ UNCHANGED inflight
    BY <1>6 DEF Writes
  <2>2. disk' = records' /\ records' = [records EXCEPT ![p] = r]
    BY <1>0, <2>1 DEF Upsert
  <2>3. \A q \in Perms : /\ records'[q].spentTotal = records[q].spentTotal
                         /\ records'[q].mirroredTx = records[q].mirroredTx
    BY <1>0, <2>1, <2>2 DEF KeepsCharges
  <2>4. C' = C /\ U' = U /\ H' = H
    BY <2>1, <2>3 DEF Mirrored
  <2> QED
    BY <1>1, <2>2, <2>4 DEF FileIsMap
<1>7. CASE Crash
  <2>1. records' = records /\ disk' = disk /\ inflight' = [p \in Perms |-> NoBooking]
    BY <1>7 DEF Crash, Restart, FileIsMap
  <2>2. C' = C /\ U' = U /\ H' = [p \in Perms |-> {}]
    BY <2>1 DEF NoBooking
  <2>3. Ledger!LoseHolds
    BY <2>2 DEF Ledger!LoseHolds
  <2> QED
    BY <2>1, <2>3 DEF Ledger!Next, FileIsMap
<1> QED
  BY <1>0, <1>2, <1>3, <1>4, <1>5, <1>6, <1>7, RegistryMoves

\* While the file can be written the copy service implements the ledger (copySession.ts reserve,
\* commitReservation, releaseReservation, constructor): every handler, settlement, crash and lost
\* answer is a hold, a charge, a drop, a loss of all holds, or nothing.
THEOREM CopyServiceIsLedger == ASSUME ~DiskFaults PROVE Spec => ImplementsLedger
<1>1. Init => FileIsMap
  BY DEF Init, RegInit, FileIsMap
<1>2. IInv /\ IInv' /\ FileInv /\ FileIsMap /\ [Next]_vars => FileIsMap' /\ [Ledger!Next]_(Ledger!ledger)
  BY LedgerSteps
<1>3. IInv /\ FileInv /\ [Next]_vars => FileInv'
  BY FileKeeps
<1> QED
  BY <1>1, <1>2, <1>3, InitFile, LedgerStarts, Invariant, PTL DEF Spec, ImplementsLedger, Ledger!Spec

-----------------------------------------------------------------------------
(* One source spend is mirrored once, while no process dies and no answer  *)
(* of the bundler is lost: either fault leaves an op without a hold.       *)

Settled(i) == ops[i].watch = "settled" /\ ops[i].status = "success"

\* The handler that submitted op i has not got the answer yet.
Awaited(i) == \E h \in Handlers : req[h].phase = "sent" /\ req[h].op = i

\* Every op that may land or has landed is held by someone or charged.
Accounted(i) ==
    \/ Booked(i)
    \/ Awaited(i)
    \/ Settled(i) /\ ops[i].key \in Mirrored(records[ops[i].perm])

OnceInv ==
    /\ \A i \in DOMAIN ops : ops[i].status # "reverted" => Accounted(i)
    /\ \A i, j \in DOMAIN ops :
          Settled(i) /\ Settled(j) /\ ops[i].perm = ops[j].perm /\ ops[i].key = ops[j].key => i = j

LEMMA OpTypes ==
    ASSUME IInv
    PROVE  /\ \A i \in DOMAIN ops : ops[i] \in Op
           /\ \A h \in Handlers : req[h].phase = "sent" =>
                /\ req[h].op \in DOMAIN ops /\ req[h].job \in Jobs
                /\ ops[req[h].op].perm = req[h].job.perm /\ ops[req[h].op].key = req[h].job.key
BY LenProperties, ElementOfSeq DEF IInv, TypeOK, HandlersOK, HandlerOK

\* A held key is reserved, so it is not charged.
LEMMA HeldNotCharged ==
    ASSUME IInv, NEW i \in DOMAIN ops, Booked(i) \/ Awaited(i)
    PROVE  ops[i].key \in inflight[ops[i].perm].txs /\ ops[i].key \notin Mirrored(records[ops[i].perm])
<1>1. ops[i].perm \in Perms
  BY OpTypes DEF Op
<1>2. CASE Booked(i)
  <2>1. <<ops[i].key, ops[i].amt>> \in ClaimsOn(ops[i].perm)
    BY <1>2 DEF ClaimsOn, BookedOn
  <2> QED
    BY <1>1, <2>1 DEF IInv, BookOK, Budget, ChargedOnce
<1>3. CASE Awaited(i)
  <2>1. PICK h \in Handlers : req[h].phase = "sent" /\ req[h].op = i
    BY <1>3 DEF Awaited
  <2>2. req[h].job.perm = ops[i].perm /\ req[h].job.key = ops[i].key
    BY <2>1, OpTypes
  <2>3. <<req[h].job.key, req[h].job.amt>> \in ClaimsOn(ops[i].perm)
    BY <2>1, <2>2 DEF ClaimsOn, SubmittersOn, Submitting
  <2> QED
    BY <1>1, <2>2, <2>3 DEF IInv, BookOK, Budget, ChargedOnce
<1> QED
  BY <1>2, <1>3

\* Two holds of one key are one hold.
LEMMA HoldsDistinct ==
    ASSUME IInv, NEW i \in DOMAIN ops, NEW j \in DOMAIN ops, Booked(i) \/ Awaited(i), Booked(j) \/ Awaited(j),
           ops[i].perm = ops[j].perm, ops[i].key = ops[j].key
    PROVE  i = j
<1> USE DEF IInv, OwnersDistinct
<1>1. CASE Booked(i) /\ Booked(j)
  BY <1>1
<1>2. ASSUME NEW m \in DOMAIN ops, Booked(m), NEW n \in DOMAIN ops, Awaited(n),
             ops[m].perm = ops[n].perm, ops[m].key = ops[n].key
      PROVE  FALSE
  <2>1. PICK h \in Handlers : req[h].phase = "sent" /\ req[h].op = n
    BY <1>2 DEF Awaited
  <2>2. Submitting(h) /\ req[h].job.perm = ops[m].perm /\ req[h].job.key = ops[m].key
    BY <1>2, <2>1, OpTypes DEF Submitting
  <2> QED
    BY <1>2, <2>2
<1>3. CASE Awaited(i) /\ Awaited(j)
  <2>1. PICK g \in Handlers : req[g].phase = "sent" /\ req[g].op = i
    BY <1>3 DEF Awaited
  <2>2. PICK h \in Handlers : req[h].phase = "sent" /\ req[h].op = j
    BY <1>3 DEF Awaited
  <2>3. req[g].job.perm = req[h].job.perm /\ req[g].job.key = req[h].job.key /\ Submitting(g) /\ Submitting(h)
    BY <2>1, <2>2, OpTypes DEF Submitting
  <2> QED
    BY <2>1, <2>2, <2>3
<1> QED
  BY <1>1, <1>2, <1>3

LEMMA OnceImplies ==
    ASSUME IInv, OnceInv
    PROVE  MirroredAtMostOnce
<1> SUFFICES ASSUME NEW i \in DOMAIN ops, NEW j \in DOMAIN ops,
                    ops[i].status = "success", ops[j].status = "success",
                    ops[i].perm = ops[j].perm, ops[i].key = ops[j].key
             PROVE  i = j
  BY DEF MirroredAtMostOnce
<1>1. Accounted(i) /\ Accounted(j)
  BY DEF OnceInv
<1>2. CASE (Booked(i) \/ Awaited(i)) /\ (Booked(j) \/ Awaited(j))
  BY <1>2, HoldsDistinct
<1>3. CASE Settled(i) /\ Settled(j)
  BY <1>3 DEF OnceInv
<1> QED
  BY <1>1, <1>2, <1>3, HeldNotCharged DEF Accounted

\* A charge is never taken back by a running process.
LEMMA ChargesStay ==
    ASSUME IInv, FileInv, [Next]_vars, ~Crash
    PROVE  \A p \in Perms : Mirrored(records[p]) \subseteq Mirrored(records'[p])
<1>0. records \in [Perms -> CopyRecord] /\ AbsentIsFresh
  BY DEF IInv, TypeOK, RegTypeOK, FileInv
<1>1. CASE RegistryRests \/ Holds \/ Drops
  BY <1>1 DEF RegistryRests, Holds, Drops
<1>2. CASE Charges
  <2>1. PICK p \in Perms, k \in Keys, a \in Nat, ok \in WriteOutcomes :
            GivesBack(p, k) /\ RecordMirror(p, a, k, ok)
    BY <1>2 DEF Charges
  <2>2. /\ Mirrored(records'[p]) = Mirrored(records[p]) \union {k}
        /\ records' = [records EXCEPT ![p] = records'[p]]
    BY <2>1, ChargeGrows
  <2>3. \A q \in Perms : q # p => records'[q] = records[q]
    BY <1>0, <2>2
  <2> QED
    BY <2>2, <2>3
<1>3. CASE Writes
  <2>1. PICK p \in Perms, r \in CopyRecord, ok \in WriteOutcomes :
            Upsert(p, r, ok) /\ KeepsCharges(records[p], r) /\ UNCHANGED inflight
    BY <1>3 DEF Writes
  <2>2. \A q \in Perms : records'[q].mirroredTx = records[q].mirroredTx
    BY <1>0, <2>1 DEF Upsert, KeepsCharges
  <2> QED
    BY <2>2 DEF Mirrored
<1> QED
  BY <1>0, <1>1, <1>2, <1>3, RegistryMoves

\* A step that leaves the ops alone and answers no handler that waits for one.
LEMMA OnceStays ==
    ASSUME IInv, OnceInv, ops' = ops,
           \A h \in Handlers : req[h].phase = "sent" => req'[h].phase = "sent" /\ req'[h].op = req[h].op,
           \A p \in Perms : Mirrored(records[p]) \subseteq Mirrored(records'[p])
    PROVE  OnceInv'
<1>1. ASSUME NEW i \in DOMAIN ops, ops[i].status # "reverted" PROVE Accounted(i)'
  <2>1. Accounted(i) /\ ops[i].perm \in Perms
    BY <1>1, OpTypes DEF OnceInv, Op
  <2> QED
    BY <2>1 DEF Accounted, Booked, Awaited, Settled
<1> QED
  BY <1>1 DEF OnceInv, Settled

\* The ops change only in op i, and the handlers that wait for another one still do.
LEMMA OnceChanges ==
    ASSUME IInv, OnceInv, NEW i \in DOMAIN ops, DOMAIN ops' = DOMAIN ops,
           \A j \in DOMAIN ops : j # i /\ Awaited(j) => Awaited(j)',
           \A j \in DOMAIN ops : j # i => ops'[j] = ops[j],
           ops'[i].perm = ops[i].perm, ops'[i].key = ops[i].key,
           \A p \in Perms : Mirrored(records[p]) \subseteq Mirrored(records'[p]),
           ops'[i].status # "reverted" => Accounted(i)',
           Settled(i)' => Settled(i) \/ Booked(i) \/ Awaited(i)
    PROVE  OnceInv'
<1>1. ASSUME NEW j \in DOMAIN ops, ops'[j].status # "reverted" PROVE Accounted(j)'
  <2>1. CASE j = i
    BY <1>1, <2>1
  <2>2. CASE j # i
    <3>1. Accounted(j) /\ ops[j].perm \in Perms /\ ops'[j] = ops[j]
      BY <1>1, <2>2, OpTypes DEF OnceInv, Op
    <3> QED
      BY <2>2, <3>1 DEF Accounted, Booked, Settled
  <2> QED
    BY <2>1, <2>2
<1>2. ASSUME NEW j \in DOMAIN ops, j # i, Settled(j), Settled(i)', ops[j].perm = ops[i].perm, ops[j].key = ops[i].key
      PROVE  FALSE
  <2>1. CASE Settled(i)
    BY <1>2, <2>1 DEF OnceInv
  <2>2. CASE Booked(i) \/ Awaited(i)
    <3>1. Accounted(j) /\ ~Booked(j)
      BY <1>2 DEF OnceInv, Settled, Booked
    <3>2. ops[i].key \notin Mirrored(records[ops[i].perm])
      BY <2>2, HeldNotCharged
    <3> QED
      BY <1>2, <2>2, <3>1, <3>2, HoldsDistinct DEF Accounted
  <2> QED
    BY <1>2, <2>1, <2>2
<1>3. ASSUME NEW m \in DOMAIN ops, NEW n \in DOMAIN ops, Settled(m)', Settled(n)',
             ops'[m].perm = ops'[n].perm, ops'[m].key = ops'[n].key
      PROVE  m = n
  <2>1. \A j \in DOMAIN ops : ops'[j].perm = ops[j].perm /\ ops'[j].key = ops[j].key
    OBVIOUS
  <2>2. \A j \in DOMAIN ops : j # i /\ Settled(j)' => Settled(j)
    BY DEF Settled
  <2> QED
    BY <1>2, <1>3, <2>1, <2>2 DEF OnceInv
<1> QED
  BY <1>1, <1>3 DEF OnceInv

\* A request step of a handler that does not wait for the bundler's answer.
OthersWait(h) ==
    /\ req[h].phase # "sent"
    /\ \A g \in Handlers : g # h => req'[g] = req[g]
    /\ ops' = ops

LEMMA OtherRequests ==
    ASSUME IInv, NEW h \in Handlers, RequestStep(h), ~BundlerAccepts(h), ~SubmitReturns(h), ~ReplyLost(h)
    PROVE  OthersWait(h)
<1>0. \A s : Becomes(h, s) => \A g \in Handlers : g # h => req'[g] = req[g]
  BY DEF IInv, TypeOK, Becomes
<1>1. CASE WebhookStep(h)
  BY <1>0, <1>1 DEF WebhookStep, WebhookRejects, WebhookArrives, ScanSkips, ScanFinds, ScanReplies, FanEnds,
                    FanSkips, FanBuildThrows, FanSubmits, Arrives, Runs, OthersWait, envVars
<1>2. CASE TriggerStep(h)
  BY <1>0, <1>2 DEF TriggerStep, TriggerRejects, TriggerSubmits, Arrives, OthersWait, envVars
<1>3. CASE SubmitThrows(h)
  BY <1>0, <1>3 DEF SubmitThrows, Continue, Awaits, OthersWait, envVars
<1>4. CASE ListStep(h)
  BY <1>0, <1>4 DEF ListStep, ListArrives, ListReads, ListResumes, ListRevokes, ListReplies, Arrives, Awaits,
                    Runs, OthersWait, envVars
<1>5. CASE RevokeStep(h)
  <2>1. CASE RelayThrows(h)
    BY <1>0, <2>1 DEF RelayThrows, Awaits, OthersWait, envVars
  <2>2. CASE RevokeArrives(h) \/ OpAccepted(h) \/ \E ok \in WriteOutcomes : RelayReturns(h, ok)
    BY <1>0, <2>2 DEF RevokeArrives, OpAccepted, RelayReturns, Arrives, Awaits, OthersWait, envVars
  <2> QED
    BY <1>5, <2>1, <2>2 DEF RevokeStep
<1> QED
  BY <1>1, <1>2, <1>3, <1>4, <1>5 DEF RequestStep, SubmitStep

\* The new op is awaited by the handler that sent it.
LEMMA OnceAccepts ==
    ASSUME IInv, OnceInv, NEW h \in Handlers, BundlerAccepts(h)
    PROVE  OnceInv'
<1> DEFINE n == Len(ops) + 1
<1>0. req \in [Handlers -> HandlerState] /\ ops \in Seq(Op) /\ records' = records
  BY DEF IInv, TypeOK, BundlerAccepts, regVars
<1>1. PICK o : ops' = Append(ops, o) /\ o.watch = "none"
  BY DEF BundlerAccepts
<1>2. /\ DOMAIN ops = 1 .. Len(ops) /\ Len(ops) \in Nat
      /\ DOMAIN ops' = 1 .. n
      /\ \A i \in DOMAIN ops : ops'[i] = ops[i]
      /\ ops'[n] = o
  BY <1>0, <1>1, AppendProperties, LenProperties
<1>3. req'[h].phase = "sent" /\ req'[h].op = n /\ req[h].phase # "sent"
  BY <1>0 DEF BundlerAccepts, Becomes, HandlerState
<1>4. \A g \in Handlers : g # h => req'[g] = req[g]
  BY <1>0 DEF BundlerAccepts, Becomes
<1>5. \A i \in DOMAIN ops' : i \in DOMAIN ops \/ i = n
  BY <1>2
<1> HIDE DEF n
<1>6. ASSUME NEW i \in DOMAIN ops', ops'[i].status # "reverted" PROVE Accounted(i)'
  <2>1. CASE i = n
    BY <1>3, <2>1 DEF Accounted, Awaited
  <2>2. CASE i \in DOMAIN ops
    <3>1. Accounted(i) /\ ops'[i] = ops[i]
      BY <1>2, <1>6, <2>2 DEF OnceInv
    <3>2. Awaited(i) => Awaited(i)'
      BY <1>3, <1>4 DEF Awaited
    <3> QED
      BY <1>0, <3>1, <3>2 DEF Accounted, Booked, Settled
  <2> QED
    BY <1>5, <2>1, <2>2
<1>7. \A i \in DOMAIN ops' : Settled(i)' => i \in DOMAIN ops /\ Settled(i) /\ ops'[i] = ops[i]
  BY <1>1, <1>2, <1>5 DEF Settled
<1>8. \A i, j \in DOMAIN ops' :
          Settled(i)' /\ Settled(j)' /\ ops'[i].perm = ops'[j].perm /\ ops'[i].key = ops'[j].key => i = j
  BY <1>7 DEF OnceInv
<1> QED
  BY <1>6, <1>8 DEF OnceInv

\* Only op i is set, to o.
LEMMA OpIsSet ==
    ASSUME IInv, NEW i \in DOMAIN ops, NEW o, ops' = [ops EXCEPT ![i] = o]
    PROVE  DOMAIN ops' = DOMAIN ops /\ ops'[i] = o /\ \A j \in DOMAIN ops : j # i => ops'[j] = ops[j]
BY LenProperties DEF IInv, TypeOK

\* The answer comes back: the wait becomes a poll.
LEMMA OnceReturns ==
    ASSUME IInv, OnceInv, NEW h \in Handlers, SubmitReturns(h)
    PROVE  OnceInv'
<1>0. req \in [Handlers -> HandlerState] /\ records' = records
  BY DEF IInv, TypeOK, SubmitReturns, regVars
<1>1. PICK i \in DOMAIN ops : i = req[h].op /\ ops[i] \in Op
  BY OpTypes DEF SubmitReturns, Awaits
<1> DEFINE o == [ops[i] EXCEPT !.watch = "polling"]
<1>2. o.watch = "polling" /\ o.perm = ops[i].perm /\ o.key = ops[i].key /\ o.status = ops[i].status
  BY <1>1 DEF Op
<1>3. ops' = [ops EXCEPT ![i] = o]
  BY <1>1 DEF SubmitReturns
<1> HIDE DEF o
<1>4. DOMAIN ops' = DOMAIN ops /\ ops'[i] = o /\ \A j \in DOMAIN ops : j # i => ops'[j] = ops[j]
  BY <1>1, <1>3, OpIsSet
<1>5. \A g \in Handlers : g # h => req'[g] = req[g]
  BY <1>0 DEF SubmitReturns, Continue, Becomes
<1>6. \A j \in DOMAIN ops : j # i /\ Awaited(j) => Awaited(j)'
  <2> SUFFICES ASSUME NEW j \in DOMAIN ops, j # i, Awaited(j) PROVE Awaited(j)'
    OBVIOUS
  <2>1. PICK g \in Handlers : req[g].phase = "sent" /\ req[g].op = j
    BY DEF Awaited
  <2>2. req'[g] = req[g]
    BY <1>1, <1>5, <2>1
  <2> QED
    BY <2>1, <2>2 DEF Awaited
<1>7. ops'[i].watch = "polling" /\ (Booked(i))' /\ ~(Settled(i))'
  BY <1>2, <1>4 DEF Booked, Settled
<1> QED
  BY <1>0, <1>1, <1>2, <1>4, <1>6, <1>7, OnceChanges DEF Accounted

\* A settlement gives the op a verdict: charged, reverted, or left booked.
LEMMA OnceSettles ==
    ASSUME IInv, FileInv, OnceInv, NEW i \in DOMAIN ops, Settle(i), ~Crash, [Next]_vars
    PROVE  OnceInv'
<1>0. ops[i] \in Op /\ req' = req
  BY OpTypes DEF Settle, SettleSuccess, SettleReverted, SettleTimeout
<1>1. \A j \in DOMAIN ops : j # i /\ Awaited(j) => Awaited(j)'
  BY <1>0 DEF Awaited
<1>2. \A p \in Perms : Mirrored(records[p]) \subseteq Mirrored(records'[p])
  BY ChargesStay
<1>3. ASSUME NEW watch, ops' = [ops EXCEPT ![i].watch = watch]
      PROVE  /\ DOMAIN ops' = DOMAIN ops /\ \A j \in DOMAIN ops : j # i => ops'[j] = ops[j]
             /\ ops'[i].watch = watch /\ ops'[i].status = ops[i].status
             /\ ops'[i].perm = ops[i].perm /\ ops'[i].key = ops[i].key
  <2> DEFINE o == [ops[i] EXCEPT !.watch = watch]
  <2>1. o.watch = watch /\ o.perm = ops[i].perm /\ o.key = ops[i].key /\ o.status = ops[i].status
    BY <1>0 DEF Op
  <2>2. ops' = [ops EXCEPT ![i] = o]
    BY <1>3
  <2> HIDE DEF o
  <2> QED
    BY <2>1, <2>2, OpIsSet
<1>4. ASSUME NEW ok \in WriteOutcomes, SettleSuccess(i, ok) PROVE OnceInv'
  <2>1. ops' = [ops EXCEPT ![i].watch = "settled"] /\ ops[i].status = "success" /\ Booked(i)
    BY <1>4 DEF SettleSuccess, Booked
  <2>2. RecordMirror(ops[i].perm, ops[i].amt, ops[i].key, ok)
    BY <1>4 DEF SettleSuccess, CommitReservation
  <2>3. ops[i].perm \in Perms /\ ops[i].key \in Keys /\ ops[i].amt \in Nat
    BY <1>0 DEF Op
  <2>4. ops[i].key \in Mirrored(records'[ops[i].perm])
    <3>1. PICK p \in Perms, k \in Keys, a \in Nat : p = ops[i].perm /\ k = ops[i].key /\ a = ops[i].amt
      BY <2>3
    <3>2. RecordMirror(p, a, k, ok)
      BY <2>2, <3>1
    <3>3. Mirrored(records'[p]) = Mirrored(records[p]) \union {k}
      BY <3>2, ChargeGrows
    <3> QED
      BY <3>1, <3>3
  <2>5. Accounted(i)'
    BY <1>3, <2>1, <2>4 DEF Accounted, Settled
  <2> QED
    BY <1>1, <1>2, <1>3, <2>1, <2>5, OnceChanges
<1>5. CASE SettleReverted(i)
  <2>1. ops' = [ops EXCEPT ![i].watch = "settled"] /\ ops[i].status = "reverted"
    BY <1>5 DEF SettleReverted
  <2>2. ops'[i].status = "reverted" /\ ~(Settled(i))'
    BY <1>3, <2>1 DEF Settled
  <2> QED
    BY <1>1, <1>2, <1>3, <2>1, <2>2, OnceChanges
<1>6. CASE SettleTimeout(i)
  <2>1. ops' = [ops EXCEPT ![i].watch = "gaveup"]
    BY <1>6 DEF SettleTimeout
  <2>2. (Accounted(i))' /\ ~(Settled(i))'
    BY <1>3, <2>1 DEF Settled, Accounted, Booked
  <2> QED
    BY <1>1, <1>2, <1>3, <2>1, <2>2, OnceChanges
<1> QED
  BY <1>4, <1>5, <1>6 DEF Settle

\* The chain executes an op that someone holds.
LEMMA OnceExecutes ==
    ASSUME IInv, FileInv, OnceInv, NEW i \in DOMAIN ops, OpSucceeds(i) \/ OpReverts(i)
    PROVE  OnceInv'
<1>0. ops[i] \in Op /\ req' = req /\ records' = records
  BY OpTypes DEF OpSucceeds, OpReverts, regVars
<1>1. \A j \in DOMAIN ops : Awaited(j) <=> Awaited(j)'
  BY <1>0 DEF Awaited
<1>2. PICK status \in {"success", "reverted"} : ops' = [ops EXCEPT ![i].status = status]
  BY DEF OpSucceeds, OpReverts
<1> DEFINE o == [ops[i] EXCEPT !.status = status]
<1>3. o.status = status /\ o.watch = ops[i].watch /\ o.perm = ops[i].perm /\ o.key = ops[i].key
  BY <1>0 DEF Op
<1>4. ops' = [ops EXCEPT ![i] = o]
  BY <1>2
<1> HIDE DEF o
<1>5. DOMAIN ops' = DOMAIN ops /\ ops'[i] = o /\ \A j \in DOMAIN ops : j # i => ops'[j] = ops[j]
  BY <1>4, OpIsSet
<1>6. Booked(i) \/ Awaited(i)
  BY DEF OpSucceeds, OpReverts, OnceInv, Accounted, Settled
<1>7. (Accounted(i))' /\ (Settled(i)' => Settled(i) \/ Booked(i) \/ Awaited(i))
  BY <1>1, <1>3, <1>5, <1>6 DEF Accounted, Booked
<1> QED
  BY <1>0, <1>1, <1>3, <1>5, <1>7, OnceChanges

\* Every step of a process that does not die, with a bundler that answers.
LEMMA OnceStep ==
    ASSUME IInv, FileInv, OnceInv, MaxCrashes = 0, ~LostReplies, [Next]_vars
    PROVE  OnceInv'
<1>0. ~Crash
  BY DEF IInv, TypeOK, Crash
<1>1. \A p \in Perms : Mirrored(records[p]) \subseteq Mirrored(records'[p])
  BY <1>0, ChargesStay
<1>2. ASSUME NEW h \in Handlers, RequestStep(h) PROVE OnceInv'
  <2>1. CASE BundlerAccepts(h)
    BY <2>1, OnceAccepts
  <2>2. CASE SubmitReturns(h)
    BY <2>2, OnceReturns
  <2>3. CASE ~BundlerAccepts(h) /\ ~SubmitReturns(h)
    <3>1. OthersWait(h)
      BY <1>2, <2>3, OtherRequests DEF ReplyLost
    <3>2. \A g \in Handlers : req[g].phase = "sent" => req'[g] = req[g]
      BY <3>1 DEF OthersWait
    <3> QED
      BY <1>1, <3>1, <3>2, OnceStays DEF OthersWait
  <2> QED
    BY <2>1, <2>2, <2>3
<1>3. ASSUME ops' = ops, req' = req PROVE OnceInv'
  BY <1>1, <1>3, OnceStays
<1>4. ASSUME NEW p \in Perms, OwnerStep(p) PROVE OnceInv'
  BY <1>3, <1>4 DEF OwnerStep, OwnerPrepares, OwnerGrants, OwnerPauses, envVars
<1>5. CASE ChainStep
  <2>1. ASSUME NEW p \in Perms, EnableMined(p) \/ OwnerRemoves(p) \/ RemovalMined(p) PROVE OnceInv'
    BY <1>3, <2>1 DEF EnableMined, OwnerRemoves, RemovalMined
  <2> QED
    BY <1>5, <2>1, OnceExecutes DEF ChainStep
<1>6. CASE UNCHANGED vars
  BY <1>3, <1>6 DEF vars, envVars
<1> QED
  BY <1>0, <1>2, <1>4, <1>5, <1>6, OnceSettles DEF Next

\* "no double-mirror on webhook retry" (copySession.ts reserve, server.ts settleMirror): for any
\* requests, sessions and settlements, one source spend succeeds on-chain at most once per session,
\* as long as the process does not die and the bundler's answers arrive.
THEOREM MirrorsAreUnique == ASSUME MaxCrashes = 0, ~LostReplies PROVE Spec => []MirroredAtMostOnce
<1>1. Init => OnceInv
  BY DEF Init, OnceInv
<1>2. IInv /\ FileInv /\ OnceInv /\ [Next]_vars => FileInv' /\ OnceInv'
  BY FileKeeps, OnceStep
<1>3. IInv /\ OnceInv => MirroredAtMostOnce
  BY OnceImplies
<1> QED
  BY <1>1, <1>2, <1>3, InitFile, Invariant, PTL DEF Spec

-----------------------------------------------------------------------------
(* A session ends only when it is gone, if its grant waits for the enable. *)

\* What is granted lives on-chain at the start.
LandedAtStart == \A p \in Perms : BootFile[p].status = "granted" => p \in BootEnabled

Ended(p) == Removing(p) \/ OwnerRevokes(p) \/ BootFile[p].status = "revoked"

\* The request has gone past the relay.
Relayed(h) == req[h].phase \notin {"idle", "relay"}

\* What is granted lives or lived on-chain; what a list read as disabled was removed.
EndInv ==
    /\ \A p \in Perms : records[p].status = "granted" \/ disk[p].status = "granted" => session[p] # "absent"
    /\ \A p \in Perms : records[p].status = "revoked" \/ disk[p].status = "revoked" => Ended(p)
    /\ \A h \in Handlers : Kind(h) = "list" => /\ \A p \in req[h].fan : session[p] # "absent"
                                               /\ \A p \in req[h].gone : Removing(p)

LEMMA EndStarts == ASSUME LandedAtStart, Init PROVE EndInv
<1>1. \A p \in Perms : records[p] = BootFile[p] /\ disk[p] = BootFile[p]
  BY DEF Init, RegInit
<1>2. \A p \in Perms : p \in BootEnabled => session[p] # "absent"
  BY DEF Init
<1>3. \A h \in Handlers : req[h].fan = {} /\ req[h].gone = {} /\ req[h].phase = "idle"
  BY DEF Init, Idle
<1> QED
  BY <1>1, <1>2, <1>3 DEF EndInv, Ended, LandedAtStart

\* A session only goes forward.
Forward == \A p \in Perms :
    /\ session[p] # "absent" => session'[p] # "absent"
    /\ Removing(p) => (Removing(p))'

LEMMA SessionForward == ASSUME IInv, [Next]_vars PROVE Forward
<1>0. session \in [Perms -> SessionStates]
  BY DEF IInv, TypeOK
<1>1. ASSUME session' = session PROVE Forward
  BY <1>1 DEF Forward, Removing
<1>2. ASSUME NEW h \in Handlers, RequestStep(h) PROVE Forward
  <2>1. CASE WebhookStep(h)
    <3>1. ASSUME NEW p \in Perms, FanSkips(h, p) \/ FanBuildThrows(h, p) \/ FanSubmits(h, p)
          PROVE  session' = session
      BY <3>1 DEF FanSkips, FanBuildThrows, FanSubmits, envVars
    <3>2. ASSUME \/ WebhookRejects(h) \/ WebhookArrives(h) \/ ScanSkips(h) \/ ScanFinds(h) \/ ScanReplies(h)
                 \/ FanEnds(h)
          PROVE  session' = session
      BY <3>2 DEF WebhookRejects, WebhookArrives, ScanSkips, ScanFinds, ScanReplies, FanEnds, envVars
    <3> QED
      BY <1>1, <2>1, <3>1, <3>2 DEF WebhookStep
  <2>2. CASE TriggerStep(h) \/ SubmitStep(h)
    BY <1>1, <2>2 DEF TriggerStep, TriggerRejects, TriggerSubmits, SubmitStep, BundlerAccepts, SubmitThrows,
                      ReplyLost, SubmitReturns, envVars
  <2>3. CASE ListStep(h)
    <3>1. ASSUME NEW p \in Perms, NEW failed \in BOOLEAN, ListReads(h, p, failed) PROVE session' = session
      BY <3>1 DEF ListReads, envVars
    <3>2. ASSUME NEW p \in Perms, NEW ok \in WriteOutcomes, ListRevokes(h, p, ok) PROVE session' = session
      BY <3>2 DEF ListRevokes, envVars
    <3>3. ASSUME ListArrives(h) \/ ListResumes(h) \/ ListReplies(h) PROVE session' = session
      BY <3>3 DEF ListArrives, ListResumes, ListReplies, envVars
    <3> QED
      BY <1>1, <2>3, <3>1, <3>2, <3>3 DEF ListStep
  <2>4. CASE RevokeStep(h)
    <3>1. CASE OpAccepted(h)
      BY <1>0, <3>1 DEF OpAccepted, SessionStates, Forward, Removing
    <3>2. CASE ~OpAccepted(h)
      BY <1>1, <2>4, <3>2 DEF RevokeStep, RevokeArrives, RelayThrows, RelayReturns, envVars
    <3> QED
      BY <3>1, <3>2
  <2> QED
    BY <1>2, <2>1, <2>2, <2>3, <2>4 DEF RequestStep
<1>3. ASSUME NEW i \in DOMAIN ops, Settle(i) \/ OpSucceeds(i) \/ OpReverts(i) PROVE Forward
  BY <1>1, <1>3 DEF Settle, SettleSuccess, SettleReverted, SettleTimeout, OpSucceeds, OpReverts
<1>4. ASSUME NEW p \in Perms, OwnerStep(p) PROVE Forward
  BY <1>1, <1>4 DEF OwnerStep, OwnerPrepares, OwnerGrants, OwnerPauses, envVars
<1>5. ASSUME NEW p \in Perms, EnableMined(p) \/ OwnerRemoves(p) \/ RemovalMined(p) PROVE Forward
  BY <1>0, <1>5 DEF EnableMined, OwnerRemoves, RemovalMined, SessionStates, Forward, Removing
<1>6. CASE Crash \/ UNCHANGED vars
  BY <1>1, <1>6 DEF Crash, vars, envVars
<1> QED
  BY <1>2, <1>3, <1>4, <1>5, <1>6 DEF Next, ChainStep

\* What a step may do to the stages of the records and to the requests.
RecordEnds(p) ==
    \/ records'[p].status \in {records[p].status, disk[p].status, "prepared"}
    \/ records'[p].status = "granted" /\ session[p] # "absent"
    \/ records'[p].status = "revoked" /\ (Removing(p) \/ OwnerRevokes(p))

FileEnds(p) == disk'[p].status \in {disk[p].status, records'[p].status}

RequestEnds(h) ==
    /\ Kind(h) = "list" =>
          /\ \A p \in req'[h].fan : p \in req[h].fan \/ (p \in Perms /\ records[p].status = "granted")
          /\ \A p \in req'[h].gone : p \in req[h].gone \/ (p \in req[h].fan /\ ~SessionLive(p))
    /\ Kind(h) = "revoke" /\ Relayed(h) => (Relayed(h))'

LEMMA EndMoves ==
    ASSUME IInv, EndInv, Forward, \A p \in Perms : RecordEnds(p) /\ FileEnds(p), \A h \in Handlers : RequestEnds(h)
    PROVE  EndInv'
<1>0. req \in [Handlers -> HandlerState] /\ session \in [Perms -> SessionStates]
  BY DEF IInv, TypeOK
<1>e. ASSUME NEW p \in Perms, Ended(p) PROVE (Ended(p))'
  <2>1. OwnerRevokes(p) => (OwnerRevokes(p))'
    BY DEF OwnerRevokes, RequestEnds, Relayed, Kind
  <2> QED
    BY <1>e, <2>1 DEF Ended, Forward
<1>1. ASSUME NEW p \in Perms
      PROVE  /\ records'[p].status = "granted" => session'[p] # "absent"
             /\ records'[p].status = "revoked" => (Ended(p))'
  <2>1. records'[p].status = "granted" => session[p] # "absent"
    BY DEF RecordEnds, EndInv
  <2>2. records'[p].status = "revoked" => Ended(p)
    BY DEF RecordEnds, EndInv, Ended
  <2> QED
    BY <1>e, <2>1, <2>2 DEF Forward
<1>2. ASSUME NEW p \in Perms
      PROVE  /\ disk'[p].status = "granted" => session'[p] # "absent"
             /\ disk'[p].status = "revoked" => (Ended(p))'
  <2>1. CASE disk'[p].status = disk[p].status
    BY <1>e, <2>1 DEF EndInv, Forward
  <2>2. CASE disk'[p].status = records'[p].status
    BY <1>1, <2>2
  <2> QED
    BY <2>1, <2>2 DEF FileEnds
<1>3. ASSUME NEW h \in Handlers, Kind(h) = "list"
      PROVE  /\ \A p \in req'[h].fan : session'[p] # "absent"
             /\ \A p \in req'[h].gone : (Removing(p))'
  <2>1. req[h].fan \subseteq Perms /\ req[h].gone \subseteq Perms
    BY <1>0 DEF HandlerState
  <2>2. \A p \in req[h].fan : session[p] # "absent"
    BY <1>3 DEF EndInv
  <2>3. \A p \in req[h].gone : Removing(p)
    BY <1>3 DEF EndInv
  <2>4. \A p \in req[h].fan : ~SessionLive(p) => Removing(p)
    BY <1>0, <2>1, <2>2 DEF SessionLive, SessionStates, Removing
  <2>5. \A p \in req'[h].fan : p \in Perms /\ session[p] # "absent"
    BY <1>3, <2>1, <2>2 DEF RequestEnds, EndInv
  <2>6. \A p \in req'[h].gone : p \in Perms /\ Removing(p)
    BY <1>3, <2>1, <2>3, <2>4 DEF RequestEnds
  <2> QED
    BY <2>5, <2>6 DEF Forward
<1> QED
  BY <1>1, <1>2, <1>3 DEF EndInv, Kind

\* A step that keeps the stage of every record.
LEMMA StagesRest ==
    ASSUME IInv, RegistryRests \/ Holds \/ Drops \/ Charges
    PROVE  \A p \in Perms : RecordEnds(p) /\ FileEnds(p)
<1>0. records \in [Perms -> CopyRecord] /\ disk \in [Perms -> CopyRecord]
  BY DEF IInv, TypeOK, RegTypeOK
<1>1. CASE RegistryRests \/ Holds \/ Drops
  BY <1>1 DEF RegistryRests, Holds, Drops, RecordEnds, FileEnds
<1>2. CASE Charges
  <2>1. PICK p \in Perms, k \in Keys, a \in Nat, ok \in WriteOutcomes : RecordMirror(p, a, k, ok)
    BY <1>2 DEF Charges
  <2>2. \A q \in Perms : records'[q].status = records[q].status
    BY <1>0, <2>1 DEF RecordMirror, Upsert, CopyRecord
  <2>3. disk' = disk \/ disk' = records'
    BY <2>1 DEF RecordMirror, Upsert
  <2> QED
    BY <2>2, <2>3 DEF RecordEnds, FileEnds
<1> QED
  BY <1>1, <1>2

\* A record of p that is written with another stage.
LEMMA StageWrites ==
    ASSUME IInv, NEW p \in Perms, NEW r \in CopyRecord, NEW ok, Upsert(p, r, ok), records'[p] = r => RecordEnds(p)
    PROVE  \A q \in Perms : RecordEnds(q) /\ FileEnds(q)
<1>0. records \in [Perms -> CopyRecord] /\ disk \in [Perms -> CopyRecord]
  BY DEF IInv, TypeOK, RegTypeOK
<1>1. records'[p] = r /\ \A q \in Perms : q # p => records'[q] = records[q]
  BY <1>0 DEF Upsert
<1>2. disk' = disk \/ disk' = records'
  BY DEF Upsert
<1> QED
  BY <1>1, <1>2 DEF RecordEnds, FileEnds

LEMMA RevokeStage ==
    ASSUME IInv, NEW p \in Perms, NEW ok, Revoke(p, ok), Removing(p) \/ OwnerRevokes(p)
    PROVE  \A q \in Perms : RecordEnds(q) /\ FileEnds(q)
<1> DEFINE r == [records[p] EXCEPT !.status = "revoked"]
<1>0. records[p] \in CopyRecord
  BY DEF IInv, TypeOK, RegTypeOK
<1>1. r \in CopyRecord /\ r.status = "revoked"
  BY <1>0 DEF CopyRecord, Statuses
<1>2. Upsert(p, r, ok)
  BY DEF Revoke
<1> HIDE DEF r
<1> QED
  BY <1>1, <1>2, StageWrites DEF RecordEnds

\* The requests that do not move.
LEMMA OthersEnd ==
    ASSUME TypeOK, NEW h \in Handlers, NEW s, Becomes(h, s), NEW g \in Handlers, g # h
    PROVE  RequestEnds(g)
BY DEF TypeOK, Becomes, RequestEnds, Relayed

LEMMA MirrorEnds ==
    ASSUME IInv, KindsOK, EndInv, Forward, NEW h \in Handlers, WebhookStep(h) \/ TriggerStep(h) \/ SubmitStep(h)
    PROVE  EndInv'
<1>0. TypeOK /\ HandlerOK(h)
  BY DEF IInv, HandlersOK
<1>1. Kind(h) \in {"webhook", "trigger"}
  <2>1. CASE WebhookStep(h)
    <3>1. ASSUME NEW p \in Perms, FanSkips(h, p) \/ FanBuildThrows(h, p) \/ FanSubmits(h, p)
          PROVE  req[h].phase = "fan"
      BY <3>1 DEF FanSkips, FanBuildThrows, FanSubmits, Runs
    <3>2. ASSUME \/ WebhookRejects(h) \/ WebhookArrives(h) \/ ScanSkips(h) \/ ScanFinds(h) \/ ScanReplies(h)
                 \/ FanEnds(h)
          PROVE  Kind(h) = "webhook" \/ req[h].phase \in {"scan", "fan"}
      BY <3>2 DEF WebhookRejects, WebhookArrives, ScanSkips, ScanFinds, ScanReplies, FanEnds, Arrives, Runs
    <3> QED
      BY <1>0, <2>1, <3>1, <3>2 DEF WebhookStep, HandlerOK, InPayload
  <2>2. CASE TriggerStep(h)
    BY <2>2 DEF TriggerStep, TriggerRejects, TriggerSubmits, Arrives
  <2>3. CASE SubmitStep(h)
    BY <2>3 DEF SubmitStep, BundlerAccepts, SubmitThrows, ReplyLost, SubmitReturns, Awaits, KindsOK
  <2> QED
    BY <2>1, <2>2, <2>3
<1>2. \E s : Becomes(h, s)
  <2>1. ASSUME NEW p \in Perms, FanSkips(h, p) \/ FanBuildThrows(h, p) \/ FanSubmits(h, p)
        PROVE  \E s : Becomes(h, s)
    BY <2>1 DEF FanSkips, FanBuildThrows, FanSubmits
  <2>2. ASSUME \/ WebhookRejects(h) \/ WebhookArrives(h) \/ ScanSkips(h) \/ ScanFinds(h) \/ ScanReplies(h)
               \/ FanEnds(h)
        PROVE  \E s : Becomes(h, s)
    BY <2>2 DEF WebhookRejects, WebhookArrives, ScanSkips, ScanFinds, ScanReplies, FanEnds
  <2>3. CASE TriggerStep(h)
    BY <2>3 DEF TriggerStep, TriggerRejects, TriggerSubmits
  <2>4. ASSUME NEW reply, Continue(h, reply) PROVE \E s : Becomes(h, s)
    BY <2>4 DEF Continue
  <2>5. CASE SubmitStep(h)
    BY <2>4, <2>5 DEF SubmitStep, BundlerAccepts, SubmitThrows, ReplyLost, SubmitReturns
  <2> QED
    BY <2>1, <2>2, <2>3, <2>5 DEF WebhookStep
<1>3. RequestEnds(h)
  BY <1>1 DEF RequestEnds
<1>4. \A g \in Handlers : RequestEnds(g)
  BY <1>0, <1>2, <1>3, OthersEnd
<1>5. \A p \in Perms : RecordEnds(p) /\ FileEnds(p)
  BY StagesRest, WebhookMoves, TriggerMoves, SubmitMoves
<1> QED
  BY <1>4, <1>5, EndMoves

LEMMA ListEnds ==
    ASSUME IInv, KindsOK, EndInv, Forward, NEW h \in Handlers, ListStep(h)
    PROVE  EndInv'
<1>0. TypeOK /\ req[h] \in HandlerState
  BY DEF IInv, TypeOK
<1>1. Kind(h) = "list"
  <2>1. ASSUME NEW p \in Perms, NEW failed \in BOOLEAN, ListReads(h, p, failed) PROVE Kind(h) = "list"
    BY <2>1 DEF ListReads, KindsOK
  <2>2. ASSUME NEW p \in Perms, NEW ok \in WriteOutcomes, ListRevokes(h, p, ok) PROVE Kind(h) = "list"
    BY <2>2 DEF ListRevokes, Runs, KindsOK
  <2>3. ASSUME ListArrives(h) \/ ListResumes(h) \/ ListReplies(h) PROVE Kind(h) = "list"
    BY <2>3 DEF ListArrives, ListResumes, ListReplies, Arrives, Awaits, Runs, KindsOK
  <2> QED
    BY <2>1, <2>2, <2>3 DEF ListStep
<1>2. ASSUME NEW s, Becomes(h, s), \A p \in Perms : RecordEnds(p) /\ FileEnds(p),
             \A p \in s.fan : p \in req[h].fan \/ (p \in Perms /\ records[p].status = "granted"),
             \A p \in s.gone : p \in req[h].gone \/ (p \in req[h].fan /\ ~SessionLive(p))
      PROVE  EndInv'
  <2>1. req'[h] = s
    BY <1>0, <1>2 DEF TypeOK, Becomes
  <2>2. RequestEnds(h)
    BY <1>1, <1>2, <2>1 DEF RequestEnds
  <2> QED
    BY <1>0, <1>2, <2>2, OthersEnd, EndMoves
<1>3. ASSUME UNCHANGED regVars PROVE \A p \in Perms : RecordEnds(p) /\ FileEnds(p)
  BY <1>3, StagesRest DEF regVars, RegistryRests
<1>4. CASE ListArrives(h)
  <2> DEFINE f == ViewByFollower(Request[h].follower)
             s == [req[h] EXCEPT !.phase = "read", !.fan = f]
  <2>1. s.fan = f /\ s.gone = req[h].gone
    BY <1>0 DEF HandlerState
  <2>2. Becomes(h, s) /\ UNCHANGED regVars /\ \A p \in f : p \in Perms /\ records[p].status = "granted"
    BY <1>4 DEF ListArrives, ViewByFollower
  <2> HIDE DEF s, f
  <2> QED
    BY <1>2, <1>3, <2>1, <2>2
<1>5. ASSUME NEW p \in Perms, NEW failed \in BOOLEAN, ListReads(h, p, failed) PROVE EndInv'
  <2> DEFINE s == [req[h] EXCEPT !.fan = @ \ {p},
                                 !.gone = IF failed \/ SessionLive(p) THEN @ ELSE @ \union {p}]
  <2>1. /\ s.fan = req[h].fan \ {p}
        /\ s.gone = IF failed \/ SessionLive(p) THEN req[h].gone ELSE req[h].gone \union {p}
    BY <1>0 DEF HandlerState
  <2>2. Becomes(h, s) /\ UNCHANGED regVars /\ p \in req[h].fan
    BY <1>5 DEF ListReads
  <2> HIDE DEF s
  <2>3. \A q \in s.gone : q \in req[h].gone \/ (q \in req[h].fan /\ ~SessionLive(q))
    BY <2>1, <2>2
  <2> QED
    BY <1>2, <1>3, <2>1, <2>2, <2>3
<1>6. CASE ListResumes(h)
  <2> DEFINE s == [req[h] EXCEPT !.phase = "apply"]
  <2>1. s.fan = req[h].fan /\ s.gone = req[h].gone
    BY <1>0 DEF HandlerState
  <2>2. Becomes(h, s) /\ UNCHANGED regVars
    BY <1>6 DEF ListResumes
  <2> HIDE DEF s
  <2> QED
    BY <1>2, <1>3, <2>1, <2>2
<1>7. ASSUME NEW p \in Perms, NEW ok \in WriteOutcomes, ListRevokes(h, p, ok) PROVE EndInv'
  <2> DEFINE s == IF ok THEN [req[h] EXCEPT !.gone = @ \ {p}] ELSE Finished("error")
  <2>1. s.fan \subseteq req[h].fan /\ s.gone \subseteq req[h].gone
    BY <1>0 DEF HandlerState, Finished, Idle
  <2>2. Becomes(h, s) /\ Revoke(p, ok) /\ p \in req[h].gone
    BY <1>7 DEF ListRevokes
  <2>3. Removing(p)
    BY <1>1, <2>2 DEF EndInv
  <2> HIDE DEF s
  <2> QED
    BY <1>2, <2>1, <2>2, <2>3, RevokeStage
<1>8. CASE ListReplies(h)
  <2>1. Finished("ok").fan = {} /\ Finished("ok").gone = {}
    BY DEF Finished, Idle
  <2>2. Becomes(h, Finished("ok")) /\ UNCHANGED regVars
    BY <1>8 DEF ListReplies
  <2> QED
    BY <1>2, <1>3, <2>1, <2>2
<1> QED
  BY <1>4, <1>5, <1>6, <1>7, <1>8 DEF ListStep

LEMMA RevokeEnds ==
    ASSUME IInv, EndInv, Forward, NEW h \in Handlers, RevokeStep(h)
    PROVE  EndInv'
<1>0. TypeOK /\ HandlerOK(h) /\ req[h] \in HandlerState
  BY DEF IInv, TypeOK, HandlersOK
<1>1. Kind(h) = "revoke" /\ Request[h].perm \in Perms
  <2>1. Kind(h) = "revoke"
    BY <1>0 DEF RevokeStep, RevokeArrives, OpAccepted, RelayThrows, RelayReturns, Arrives, Awaits, HandlerOK
  <2> QED
    BY <2>1, RevokePerm
<1>2. ASSUME NEW s, Becomes(h, s), \A p \in Perms : RecordEnds(p) /\ FileEnds(p),
             Relayed(h) => s.phase \notin {"idle", "relay"}
      PROVE  EndInv'
  <2>1. req'[h] = s
    BY <1>0, <1>2 DEF TypeOK, Becomes
  <2>2. RequestEnds(h)
    BY <1>1, <1>2, <2>1 DEF RequestEnds, Relayed
  <2> QED
    BY <1>0, <1>2, <2>2, OthersEnd, EndMoves
<1>3. ASSUME UNCHANGED regVars PROVE \A p \in Perms : RecordEnds(p) /\ FileEnds(p)
  BY <1>3, StagesRest DEF regVars, RegistryRests
<1>4. CASE RevokeArrives(h)
  <2> DEFINE s == IF records[Request[h].perm].status = "none" THEN Finished("error")
                  ELSE [req[h] EXCEPT !.phase = "relay"]
  <2>1. ~Relayed(h)
    BY <1>4 DEF RevokeArrives, Arrives, Relayed
  <2>2. Becomes(h, s) /\ UNCHANGED regVars
    BY <1>4 DEF RevokeArrives
  <2> HIDE DEF s
  <2> QED
    BY <1>2, <1>3, <2>1, <2>2
<1>5. CASE OpAccepted(h)
  <2> DEFINE s == [req[h] EXCEPT !.phase = "relayed"]
  <2>1. s.phase = "relayed"
    BY <1>0 DEF HandlerState
  <2>2. Becomes(h, s) /\ UNCHANGED regVars
    BY <1>5 DEF OpAccepted
  <2> HIDE DEF s
  <2> QED
    BY <1>2, <1>3, <2>1, <2>2
<1>6. CASE RelayThrows(h)
  BY <1>2, <1>3, <1>6, FinishedState DEF RelayThrows
<1>7. ASSUME NEW ok \in WriteOutcomes, RelayReturns(h, ok) PROVE EndInv'
  <2>1. OwnerRevokes(Request[h].perm) /\ Revoke(Request[h].perm, ok)
    BY <1>1, <1>7 DEF RelayReturns, Awaits, OwnerRevokes
  <2>2. \A p \in Perms : RecordEnds(p) /\ FileEnds(p)
    BY <1>1, <2>1, RevokeStage
  <2> QED
    BY <1>2, <1>7, <2>2, FinishedState DEF RelayReturns
<1> QED
  BY <1>4, <1>5, <1>6, <1>7 DEF RevokeStep

LEMMA OwnerEnds ==
    ASSUME GrantAfterLanding, IInv, EndInv, Forward, NEW p \in Perms, OwnerStep(p)
    PROVE  EndInv'
<1>0. records[p] \in CopyRecord
  BY DEF IInv, TypeOK, RegTypeOK
<1>1. \A h \in Handlers : RequestEnds(h)
  BY DEF OwnerStep, OwnerPrepares, OwnerGrants, OwnerPauses, RequestEnds, Relayed
<1>2. ASSUME NEW ok \in WriteOutcomes, OwnerPrepares(p, ok) PROVE EndInv'
  <2>1. FreshRecord("prepared") \in CopyRecord /\ FreshRecord("prepared").status = "prepared"
    BY EmptySeq DEF FreshRecord, CopyRecord, Statuses
  <2>2. Upsert(p, FreshRecord("prepared"), ok)
    BY <1>2 DEF OwnerPrepares, Prepare
  <2>3. \A q \in Perms : RecordEnds(q) /\ FileEnds(q)
    BY <2>1, <2>2, StageWrites DEF RecordEnds
  <2> QED
    BY <1>1, <2>3, EndMoves
<1>3. ASSUME NEW ok \in WriteOutcomes, OwnerGrants(p, ok) PROVE EndInv'
  <2> DEFINE r == [records[p] EXCEPT !.status = "granted"]
  <2>1. r \in CopyRecord /\ r.status = "granted"
    BY <1>0 DEF CopyRecord, Statuses
  <2>2. Upsert(p, r, ok) /\ session[p] # "absent"
    BY <1>3 DEF OwnerGrants, Grant
  <2> HIDE DEF r
  <2>3. \A q \in Perms : RecordEnds(q) /\ FileEnds(q)
    BY <2>1, <2>2, StageWrites DEF RecordEnds
  <2> QED
    BY <1>1, <2>3, EndMoves
<1>4. ASSUME NEW ok \in WriteOutcomes, NEW paused \in BOOLEAN, OwnerPauses(p, paused, ok) PROVE EndInv'
  <2> DEFINE r == [records[p] EXCEPT !.paused = paused]
  <2>1. r \in CopyRecord /\ r.status = records[p].status
    BY <1>0 DEF CopyRecord
  <2>2. Upsert(p, r, ok)
    BY <1>4 DEF OwnerPauses, SetPaused
  <2> HIDE DEF r
  <2>3. \A q \in Perms : RecordEnds(q) /\ FileEnds(q)
    BY <2>1, <2>2, StageWrites DEF RecordEnds
  <2> QED
    BY <1>1, <2>3, EndMoves
<1> QED
  BY <1>2, <1>3, <1>4 DEF OwnerStep

LEMMA EndKeeps == ASSUME GrantAfterLanding, IInv, KindsOK, EndInv, [Next]_vars PROVE EndInv'
<1>0. Forward
  BY SessionForward
<1>1. ASSUME req' = req, \A p \in Perms : RecordEnds(p) /\ FileEnds(p) PROVE EndInv'
  <2>1. \A h \in Handlers : RequestEnds(h)
    BY <1>1 DEF RequestEnds, Relayed
  <2> QED
    BY <1>0, <1>1, <2>1, EndMoves
<1>2. ASSUME UNCHANGED <<regVars, req>> PROVE EndInv'
  BY <1>1, <1>2, StagesRest DEF regVars, RegistryRests
<1>3. ASSUME NEW i \in DOMAIN ops, Settle(i) PROVE EndInv'
  <2>1. req' = req
    BY <1>3 DEF Settle, SettleSuccess, SettleReverted, SettleTimeout
  <2> QED
    BY <1>1, <1>3, <2>1, SettleMoves, StagesRest
<1>4. CASE ChainStep
  BY <1>2, <1>4 DEF ChainStep, OpSucceeds, OpReverts, EnableMined, OwnerRemoves, RemovalMined
<1>5. CASE Crash
  <2>1. /\ records' = disk /\ disk' = disk
        /\ req' = [h \in Handlers |-> IF req[h].phase \in {"idle", "done", "dead"} THEN req[h]
                                      ELSE [Idle EXCEPT !.phase = "dead"]]
    BY <1>5 DEF Crash, Restart
  <2>2. \A p \in Perms : RecordEnds(p) /\ FileEnds(p)
    BY <2>1 DEF RecordEnds, FileEnds
  <2>3. \A h \in Handlers : \/ req'[h] = req[h]
                            \/ req'[h].phase = "dead" /\ req'[h].fan = {} /\ req'[h].gone = {}
    BY <2>1 DEF Idle
  <2>4. \A h \in Handlers : RequestEnds(h)
    BY <2>3 DEF RequestEnds, Relayed
  <2> QED
    BY <1>0, <2>2, <2>4, EndMoves
<1>6. CASE UNCHANGED vars
  BY <1>2, <1>6 DEF vars
<1>7. ASSUME NEW h \in Handlers, RequestStep(h) PROVE EndInv'
  BY <1>0, <1>7, MirrorEnds, ListEnds, RevokeEnds DEF RequestStep
<1> QED
  BY <1>0, <1>3, <1>4, <1>5, <1>6, <1>7, OwnerEnds DEF Next

\* "self-heal: on-chain gone" (server.ts list): where the app reports a grant only after the enable
\* landed, no failing read and no pending enable ends a session, whatever mirrors, settlements,
\* crashes and failed writes happen meanwhile.
THEOREM EndsByRemoval == ASSUME GrantAfterLanding, LandedAtStart PROVE Spec => []EndedOnlyByRemoval
<1>1. Init => EndInv /\ AnswerInv
  BY EndStarts DEF Init, AnswerInv, KindsOK, AckedRevokeDurable, Idle
<1>2. IInv /\ FileInv /\ AnswerInv /\ EndInv /\ [Next]_vars => FileInv' /\ AnswerInv' /\ EndInv'
  BY FileKeeps, AnswersKeep, EndKeeps DEF AnswerInv
<1>3. EndInv => EndedOnlyByRemoval
  BY DEF EndInv, Ended, EndedOnlyByRemoval
<1> QED
  BY <1>1, <1>2, <1>3, InitFile, Invariant, PTL DEF Spec

-----------------------------------------------------------------------------
(* What the steps do to the mirrors under way.                             *)

\* No mirror starts, moves on or ends, and nothing is reserved, released or charged.
MirrorsRest ==
    /\ \A h \in Handlers : /\ Submitting(h)' <=> Submitting(h)
                           /\ Submitting(h) => req'[h].phase = req[h].phase /\ req'[h].job = req[h].job
                                                 /\ req'[h].op = req[h].op
    /\ ops' = ops
    /\ inflight' = inflight
    /\ \A p \in Perms : records'[p].spentTotal = records[p].spentTotal
    /\ UNCHANGED <<nonceCounters, crashes>>

\* Request h reserves key k for amount a on session p, takes a lane and goes on to submit.
Joins(h, p, k, a) ==
    /\ ~ Submitting(h)
    /\ Reserve(p, a, k)
    /\ req'[h].phase = "submit"
    /\ req'[h].job.perm = p /\ req'[h].job.key = k /\ req'[h].job.amt = a
    /\ req'[h].job.lane = nonceCounters[Scope[p].follower] /\ NextNonceKey(Scope[p].follower)
    /\ Kind(h) = "trigger" => p = Request[h].perm /\ a = TriggerSpend(h)
    /\ \A g \in Handlers : g # h => req'[g] = req[g]
    /\ UNCHANGED <<records, ops, crashes>>

\* A record written back keeps what the session has spent.
LEMMA WritesRest ==
    ASSUME IInv, RegistryRests \/ Writes
    PROVE  inflight' = inflight /\ \A p \in Perms : records'[p].spentTotal = records[p].spentTotal
<1>1. CASE RegistryRests
  BY <1>1 DEF RegistryRests
<1>2. CASE Writes
  <2>1. records \in [Perms -> CopyRecord]
    BY DEF IInv, TypeOK, RegTypeOK
  <2>2. PICK p \in Perms, r \in CopyRecord :
            records' = [records EXCEPT ![p] = r] /\ r.spentTotal = records[p].spentTotal /\ UNCHANGED inflight
    BY <1>2 DEF Writes, Upsert, KeepsCharges
  <2> QED
    BY <2>1, <2>2
<1> QED
  BY <1>1, <1>2

LEMMA SubmitJoins ==
    ASSUME IInv, NEW h \in Handlers, TriggerSubmits(h) \/ \E p \in Perms : FanSubmits(h, p)
    PROVE  \E p \in Perms, k \in Keys, a \in Nat : Joins(h, p, k, a)
<1>0. req \in [Handlers -> HandlerState] /\ req[h] \in HandlerState
  BY DEF IInv, TypeOK
<1>1. ASSUME NEW p \in Perms, FanSubmits(h, p)
      PROVE  \E k \in Keys, a \in Nat : Joins(h, p, k, a)
  <2>1. InPayload(h) /\ Wants(h, p) /\ ~Submitting(h) /\ Kind(h) = "webhook"
    BY <1>1 DEF FanSubmits, Runs, IInv, HandlersOK, HandlerOK, Submitting, InPayload
  <2>2. PICK k \in Keys, a \in Nat : k = SpendKey(Activity(h)) /\ a = Amount(h, p)
    BY <2>1, AmountType DEF IInv
  <2> DEFINE s == [req[h] EXCEPT !.fan = @ \ {p}, !.phase = "submit", !.job = Job(p, k, a)]
  <2>3. Reserve(p, a, k) /\ Becomes(h, s) /\ NextNonceKey(Scope[p].follower) /\ UNCHANGED <<records, ops, crashes>>
    BY <1>1, <2>2 DEF FanSubmits, envVars
  <2>4. s.phase = "submit" /\ s.job = Job(p, k, a)
    BY <1>0 DEF HandlerState
  <2> HIDE DEF s
  <2>5. req'[h] = s /\ \A g \in Handlers : g # h => req'[g] = req[g]
    BY <1>0, <2>3 DEF Becomes
  <2> QED
    BY <2>1, <2>3, <2>4, <2>5 DEF Joins, Job
<1>2. CASE TriggerSubmits(h)
  <2>1. Kind(h) = "trigger" /\ TriggerValid(h) /\ ~Submitting(h)
    BY <1>2 DEF TriggerSubmits, Arrives, Submitting
  <2>2. PICK p \in Perms, k \in Keys, a \in Nat :
            p = Request[h].perm /\ k = TriggerKey(Request[h]) /\ a = TriggerSpend(h)
    BY <2>1, TriggerType
  <2> DEFINE s == [req[h] EXCEPT !.phase = "submit", !.job = Job(p, k, a)]
  <2>3. Reserve(p, a, k) /\ Becomes(h, s) /\ NextNonceKey(Scope[p].follower) /\ UNCHANGED <<records, ops, crashes>>
    BY <1>2, <2>2 DEF TriggerSubmits, envVars
  <2>4. s.phase = "submit" /\ s.job = Job(p, k, a)
    BY <1>0 DEF HandlerState
  <2> HIDE DEF s
  <2>5. req'[h] = s /\ \A g \in Handlers : g # h => req'[g] = req[g]
    BY <1>0, <2>3 DEF Becomes
  <2>6. Joins(h, p, k, a)
    BY <2>1, <2>2, <2>3, <2>4, <2>5 DEF Joins, Job
  <2> QED
    BY <2>6
<1> QED
  BY <1>1, <1>2

\* A request step outside submitMirror that starts no mirror.
LEMMA RequestRests ==
    ASSUME IInv, NEW h \in Handlers, RequestStep(h), ~SubmitStep(h), ~TriggerSubmits(h),
           \A p \in Perms : ~FanSubmits(h, p) /\ ~FanBuildThrows(h, p)
    PROVE  MirrorsRest
<1>0. req \in [Handlers -> HandlerState] /\ req[h] \in HandlerState
  BY DEF IInv, TypeOK
<1>1. \A s : Becomes(h, s) => req'[h] = s /\ \A g \in Handlers : g # h => req'[g] = req[g]
  BY <1>0 DEF Becomes
<1>2. \A reply : Finished(reply).phase = "done"
  BY FinishedState
<1>3. /\ ops' = ops
      /\ ~Submitting(h) /\ req'[h].phase \notin {"submit", "sent"}
      /\ \A g \in Handlers : g # h => req'[g] = req[g]
  <2>1. CASE WebhookStep(h)
    <3>1. CASE WebhookRejects(h)
      BY <1>1, <1>2, <3>1 DEF WebhookRejects, Arrives, Submitting, envVars
    <3>2. CASE WebhookArrives(h)
      <4> DEFINE s == [req[h] EXCEPT !.phase = "scan", !.pos = 1, !.followed = Followed]
      <4>1. Becomes(h, s) /\ ~Submitting(h) /\ ops' = ops
        BY <3>2 DEF WebhookArrives, Arrives, Submitting, envVars
      <4>2. s.phase = "scan"
        BY <1>0 DEF HandlerState
      <4> HIDE DEF s
      <4> QED
        BY <1>1, <4>1, <4>2
    <3>3. CASE ScanSkips(h)
      <4> DEFINE s == [req[h] EXCEPT !.pos = @ + 1]
      <4>1. Becomes(h, s) /\ ~Submitting(h) /\ ops' = ops /\ req[h].phase = "scan"
        BY <3>3 DEF ScanSkips, Runs, Submitting, envVars
      <4>2. s.phase = "scan"
        BY <1>0, <4>1 DEF HandlerState
      <4> HIDE DEF s
      <4> QED
        BY <1>1, <4>1, <4>2
    <3>5. CASE ScanFinds(h)
      <4> DEFINE s == [req[h] EXCEPT !.phase = "fan",
                                   !.fan = FindBySource(Activity(h).from, Activity(h).chain),
                                   !.seen = [p \in Perms |-> records[p].spentTotal]]
      <4>1. Becomes(h, s) /\ ~Submitting(h) /\ ops' = ops
        BY <3>5 DEF ScanFinds, Runs, Submitting, envVars
      <4>2. s.phase = "fan"
        BY <1>0 DEF HandlerState
      <4> HIDE DEF s
      <4> QED
        BY <1>1, <4>1, <4>2
    <3>6. CASE FanEnds(h)
      <4> DEFINE s == [req[h] EXCEPT !.phase = "scan", !.pos = @ + 1, !.seen = [p \in Perms |-> 0]]
      <4>1. Becomes(h, s) /\ ~Submitting(h) /\ ops' = ops
        BY <3>6 DEF FanEnds, Runs, Submitting, envVars
      <4>2. s.phase = "scan"
        BY <1>0 DEF HandlerState
      <4> HIDE DEF s
      <4> QED
        BY <1>1, <4>1, <4>2
    <3>7. ASSUME NEW p \in Perms, FanSkips(h, p) PROVE <1>3!1 /\ <1>3!2 /\ <1>3!3
      <4> DEFINE s == [req[h] EXCEPT !.fan = @ \ {p}]
      <4>1. Becomes(h, s) /\ ~Submitting(h) /\ ops' = ops /\ req[h].phase = "fan"
        BY <3>7 DEF FanSkips, Runs, Submitting, envVars
      <4>2. s.phase = "fan"
        BY <1>0, <4>1 DEF HandlerState
      <4> HIDE DEF s
      <4> QED
        BY <1>1, <4>1, <4>2
    <3>4. CASE ScanReplies(h)
      BY <1>1, <1>2, <3>4 DEF ScanReplies, Runs, Submitting, envVars
    <3> QED
      BY <2>1, <3>1, <3>2, <3>3, <3>4, <3>5, <3>6, <3>7 DEF WebhookStep
  <2>2. CASE TriggerRejects(h)
    BY <1>1, <1>2, <2>2 DEF TriggerRejects, Arrives, Submitting, envVars
  <2>3. CASE ListStep(h)
    <3>1. CASE ListArrives(h)
      <4> DEFINE s == [req[h] EXCEPT !.phase = "read", !.fan = ViewByFollower(Request[h].follower)]
      <4>1. Becomes(h, s) /\ ~Submitting(h) /\ ops' = ops
        BY <3>1 DEF ListArrives, Arrives, Submitting, envVars
      <4>2. s.phase = "read"
        BY <1>0 DEF HandlerState
      <4> HIDE DEF s
      <4> QED
        BY <1>1, <4>1, <4>2
    <3>5. CASE ListResumes(h)
      <4> DEFINE s == [req[h] EXCEPT !.phase = "apply"]
      <4>1. Becomes(h, s) /\ ~Submitting(h) /\ ops' = ops
        BY <3>5 DEF ListResumes, Awaits, Submitting, envVars
      <4>2. s.phase = "apply"
        BY <1>0 DEF HandlerState
      <4> HIDE DEF s
      <4> QED
        BY <1>1, <4>1, <4>2
    <3>2. CASE ListReplies(h)
      BY <1>1, <1>2, <3>2 DEF ListReplies, Runs, Submitting, envVars
    <3>3. ASSUME NEW p \in Perms, NEW failed \in BOOLEAN, ListReads(h, p, failed) PROVE <1>3!1 /\ <1>3!2 /\ <1>3!3
      <4> DEFINE s == [req[h] EXCEPT !.fan = @ \ {p},
                                   !.gone = IF failed \/ SessionLive(p) THEN @ ELSE @ \union {p}]
      <4>1. Becomes(h, s) /\ ~Submitting(h) /\ ops' = ops /\ req[h].phase = "read"
        BY <3>3 DEF ListReads, Submitting, envVars
      <4>2. s.phase = "read"
        BY <1>0, <4>1 DEF HandlerState
      <4> HIDE DEF s
      <4> QED
        BY <1>1, <4>1, <4>2
    <3>4. ASSUME NEW p \in Perms, NEW ok \in WriteOutcomes, ListRevokes(h, p, ok)
          PROVE  <1>3!1 /\ <1>3!2 /\ <1>3!3
      <4>1. CASE ok
        BY <1>0, <1>1, <3>4, <4>1 DEF ListRevokes, Runs, Submitting, envVars, HandlerState
      <4>2. CASE ~ok
        BY <1>1, <1>2, <3>4, <4>2 DEF ListRevokes, Runs, Submitting, envVars
      <4> QED
        BY <4>1, <4>2
    <3> QED
      BY <2>3, <3>1, <3>2, <3>3, <3>4, <3>5 DEF ListStep
  <2>4. CASE RevokeStep(h)
    <3>1. CASE RevokeArrives(h)
      BY <1>0, <1>1, <1>2, <3>1 DEF RevokeArrives, Arrives, Submitting, envVars, HandlerState
    <3>2. CASE OpAccepted(h)
      BY <1>0, <1>1, <3>2 DEF OpAccepted, Submitting, HandlerState
    <3>3. CASE RelayThrows(h)
      BY <1>1, <1>2, <3>3 DEF RelayThrows, Awaits, Submitting, envVars
    <3>4. ASSUME NEW ok \in WriteOutcomes, RelayReturns(h, ok)
          PROVE  <1>3!1 /\ <1>3!2 /\ <1>3!3
      BY <1>1, <1>2, <3>4 DEF RelayReturns, Awaits, Submitting, envVars
    <3> QED
      BY <2>4, <3>1, <3>2, <3>3, <3>4 DEF RevokeStep
  <2> QED
    BY <2>1, <2>2, <2>3, <2>4 DEF RequestStep, TriggerStep
<1>4. RegistryRests \/ Writes
  <2>1. CASE WebhookStep(h)
    BY <2>1 DEF WebhookStep, WebhookRejects, WebhookArrives, ScanSkips, ScanFinds, ScanReplies, FanEnds,
                FanSkips, regVars, RegistryRests
  <2>2. CASE TriggerRejects(h)
    BY <2>2 DEF TriggerRejects, regVars, RegistryRests
  <2> QED
    BY <2>1, <2>2, ListMoves, RevokeMoves DEF RequestStep, TriggerStep
<1>5. inflight' = inflight /\ \A p \in Perms : records'[p].spentTotal = records[p].spentTotal
  BY <1>4, WritesRest
<1>6. UNCHANGED <<nonceCounters, crashes>>
  <2>1. CASE WebhookStep(h)
    BY <2>1 DEF WebhookStep, WebhookRejects, WebhookArrives, ScanSkips, ScanFinds, ScanReplies, FanEnds,
                FanSkips, regVars, envVars
  <2>2. CASE TriggerRejects(h)
    BY <2>2 DEF TriggerRejects, regVars, envVars
  <2>3. CASE ListStep(h)
    BY <2>3 DEF ListStep, ListArrives, ListReads, ListResumes, ListRevokes, ListReplies, regVars, envVars
  <2>4. CASE RevokeStep(h)
    BY <2>4 DEF RevokeStep, RevokeArrives, OpAccepted, RelayThrows, RelayReturns, regVars, envVars
  <2> QED
    BY <2>1, <2>2, <2>3, <2>4 DEF RequestStep, TriggerStep
<1> QED
  BY <1>3, <1>5, <1>6 DEF MirrorsRest, Submitting

LEMMA OwnerRests ==
    ASSUME IInv, AbsentIsFresh, NEW p \in Perms, OwnerStep(p)
    PROVE  MirrorsRest
<1>1. inflight' = inflight /\ \A q \in Perms : records'[q].spentTotal = records[q].spentTotal
  BY OwnerMoves, WritesRest
<1>2. UNCHANGED <<req, ops, nonceCounters, crashes>>
  BY DEF OwnerStep, OwnerPrepares, OwnerGrants, OwnerPauses, envVars
<1> QED
  BY <1>1, <1>2 DEF MirrorsRest, Submitting

\* Every step starts a mirror, moves one on, settles one, or leaves the mirrors alone.
LEMMA MirrorMoves ==
    ASSUME IInv, AbsentIsFresh, [Next]_vars
    PROVE  \/ MirrorsRest
           \/ \E h \in Handlers, p \in Perms : FanBuildThrows(h, p)
           \/ \E h \in Handlers, p \in Perms, k \in Keys, a \in Nat : Joins(h, p, k, a)
           \/ \E h \in Handlers : SubmitStep(h)
           \/ \E i \in DOMAIN ops : Settle(i) \/ OpSucceeds(i) \/ OpReverts(i)
           \/ Crash
<1>1. ASSUME NEW h \in Handlers, RequestStep(h), ~SubmitStep(h), \A p \in Perms : ~FanBuildThrows(h, p)
      PROVE  MirrorsRest \/ \E p \in Perms, k \in Keys, a \in Nat : Joins(h, p, k, a)
  BY <1>1, RequestRests, SubmitJoins
<1>2. ASSUME UNCHANGED <<regVars, req, ops, crashes>> PROVE MirrorsRest
  BY <1>2 DEF MirrorsRest, Submitting, regVars
<1>3. ASSUME NEW p \in Perms, EnableMined(p) \/ OwnerRemoves(p) \/ RemovalMined(p) PROVE MirrorsRest
  BY <1>2, <1>3 DEF EnableMined, OwnerRemoves, RemovalMined
<1>4. CASE UNCHANGED vars
  BY <1>2, <1>4 DEF vars, envVars
<1>5. CASE ChainStep
  BY <1>3, <1>5 DEF ChainStep
<1>6. CASE \E h \in Handlers : RequestStep(h)
  BY <1>1, <1>6
<1> QED
  BY <1>4, <1>5, <1>6, OwnerRests DEF Next

-----------------------------------------------------------------------------
(* Sums over the mirrors under way.                                        *)

JobSum(H, r) == SumFunction([h \in H |-> r[h].job.amt])
OpSum(I, o) == SumFunction([i \in I |-> o[i].amt])

LEMMA JobSumSame ==
    ASSUME NEW H, NEW r, NEW s, \A h \in H : s[h].job.amt = r[h].job.amt
    PROVE  JobSum(H, s) = JobSum(H, r)
BY DEF JobSum

LEMMA OpSumSame ==
    ASSUME NEW I, NEW o, NEW u, \A i \in I : u[i].amt = o[i].amt
    PROVE  OpSum(I, u) = OpSum(I, o)
BY DEF OpSum

\* T is S and one more element k; the amounts of the mirrors in S are kept.
OneMore(S, k, T) == k \notin S /\ \A x : x \in T <=> x \in S \/ x = k
JobsKept(H, r, s) == \A h \in H : r[h].job.amt \in Int /\ s[h].job.amt = r[h].job.amt
OpsWorth(I, o, u) == \A i \in I : o[i].amt \in Int /\ u[i].amt = o[i].amt

LEMMA JobSumMore ==
    ASSUME NEW H, IsFiniteSet(H), NEW k, NEW G, OneMore(H, k, G), NEW r, NEW s, JobsKept(H, r, s), s[k].job.amt \in Int
    PROVE  /\ IsFiniteSet(G)
           /\ JobSum(G, s) = JobSum(H, r) + s[k].job.amt
           /\ JobSum(H, r) \in Int
<1> DEFINE f == [h \in H |-> r[h].job.amt]
           g == [h \in G |-> s[h].job.amt]
<1>1. /\ DOMAIN f = H /\ k \notin H /\ DOMAIN g = H \union {k} /\ g[k] = s[k].job.amt
      /\ \A h \in H : f[h] \in Int /\ g[h] = f[h]
  BY DEF OneMore, JobsKept
<1> HIDE DEF f, g
<1>2. SumFunction(g) = SumFunction(f) + g[k] /\ SumFunction(f) \in Int
  BY <1>1, SumOfMore
<1>3. IsFiniteSet(H \union {k}) /\ G = H \union {k}
  BY FS_AddElement DEF OneMore
<1> QED
  BY <1>1, <1>2, <1>3 DEF JobSum, f, g

LEMMA OpSumMore ==
    ASSUME NEW I, IsFiniteSet(I), NEW k, NEW J, OneMore(I, k, J), NEW o, NEW u, OpsWorth(I, o, u), u[k].amt \in Int
    PROVE  OpSum(J, u) = OpSum(I, o) + u[k].amt /\ OpSum(I, o) \in Int
<1> DEFINE f == [i \in I |-> o[i].amt]
           g == [i \in J |-> u[i].amt]
<1>1. /\ DOMAIN f = I /\ k \notin I /\ DOMAIN g = I \union {k} /\ g[k] = u[k].amt
      /\ \A i \in I : f[i] \in Int /\ g[i] = f[i]
  BY DEF OneMore, OpsWorth
<1> HIDE DEF f, g
<1>2. SumFunction(g) = SumFunction(f) + g[k] /\ SumFunction(f) \in Int
  BY <1>1, SumOfMore
<1> QED
  BY <1>1, <1>2 DEF OpSum, f, g

LEMMA JobSumInt ==
    ASSUME NEW H, IsFiniteSet(H), NEW r, \A h \in H : r[h].job.amt \in Int
    PROVE  JobSum(H, r) \in Int
<1> DEFINE f == [h \in H |-> r[h].job.amt]
<1>1. DOMAIN f = H /\ \A h \in H : f[h] \in Int
  OBVIOUS
<1> HIDE DEF f
<1>2. SumFunction(f) \in Int
  BY <1>1, SumInt DEF SumFunction
<1> QED
  BY <1>2 DEF JobSum, f

LEMMA JobSumNat ==
    ASSUME NEW H, IsFiniteSet(H), NEW r, \A h \in H : r[h].job.amt \in Nat
    PROVE  JobSum(H, r) \in Nat
<1> DEFINE f == [h \in H |-> r[h].job.amt]
<1>1. DOMAIN f = H /\ \A h \in H : f[h] \in Nat
  OBVIOUS
<1> HIDE DEF f
<1>2. SumFunction(f) \in Nat
  BY <1>1, SumNat DEF SumFunction
<1> QED
  BY <1>2 DEF JobSum, f

LEMMA OpSumInt ==
    ASSUME NEW I, IsFiniteSet(I), NEW o, \A i \in I : o[i].amt \in Int
    PROVE  OpSum(I, o) \in Int
<1> DEFINE f == [i \in I |-> o[i].amt]
<1>1. DOMAIN f = I /\ \A i \in I : f[i] \in Int
  OBVIOUS
<1> HIDE DEF f
<1>2. SumFunction(f) \in Int
  BY <1>1, SumInt DEF SumFunction
<1> QED
  BY <1>2 DEF OpSum, f

\* The sums over nobody and nothing.
LEMMA NoSums == ASSUME NEW r, NEW o PROVE JobSum({}, r) = 0 /\ OpSum({}, o) = 0
BY SumOfNone DEF JobSum, OpSum

\* One less.
LEMMA LessIsFinite ==
    ASSUME NEW S, NEW k, NEW T, OneMore(S, k, T), IsFiniteSet(T)
    PROVE  IsFiniteSet(S)
<1>1. S \subseteq T
  BY DEF OneMore
<1> QED
  BY <1>1, FS_Subset

LEMMA JobSumLess ==
    ASSUME NEW H, IsFiniteSet(H), NEW k, NEW G, OneMore(G, k, H), NEW r, NEW s, JobsKept(G, r, s), r[k].job.amt \in Int
    PROVE  /\ IsFiniteSet(G)
           /\ JobSum(G, s) = JobSum(H, r) - r[k].job.amt
           /\ JobSum(H, r) \in Int
<1>1. IsFiniteSet(G)
  BY LessIsFinite
<1>2. JobsKept(G, s, r)
  BY DEF JobsKept
<1>3. JobSum(H, r) = JobSum(G, s) + r[k].job.amt /\ JobSum(G, s) \in Int
  BY <1>1, <1>2, JobSumMore
<1> QED
  BY <1>1, <1>3

LEMMA OpSumLess ==
    ASSUME NEW I, IsFiniteSet(I), NEW k, NEW J, OneMore(J, k, I), NEW o, NEW u, OpsWorth(J, o, u), o[k].amt \in Int
    PROVE  OpSum(J, u) = OpSum(I, o) - o[k].amt /\ OpSum(I, o) \in Int
<1>1. IsFiniteSet(J)
  BY LessIsFinite
<1>2. OpsWorth(J, u, o)
  BY DEF OpsWorth
<1>3. OpSum(I, o) = OpSum(J, u) + o[k].amt /\ OpSum(J, u) \in Int
  BY <1>1, <1>2, OpSumMore
<1> QED
  BY <1>3

-----------------------------------------------------------------------------
(* The in-flight entry of a session is exactly its mirrors under way, when *)
(* every plan a webhook reserves for can be built.                         *)

\* buildMirrorCalls never throws for a spend the handler wants to mirror, whatever snapshot of
\* the session's spending it saw (a router without an adapter, an amount Permit2 cannot carry and
\* a token that is not an address make it throw, after the reserve).
PlansBuild ==
    \A h \in Handlers, p \in Perms : Kind(h) = "webhook" =>
        \A n \in 1 .. Len(Request[h].payload), spent \in Nat :
            LET acts == Request[h].payload
            IN  WantsMirror(acts, acts[n], Scope[p], spent)
                  => BuildMirrorCallsOk(acts, acts[n], Scope[p], MirrorAmount(acts[n], Scope[p], spent))

JobKeys(H, r) == {r[h].job.key : h \in H}
OpKeys(I, o) == {o[i].key : i \in I}

ExactOn(p) ==
    /\ IsFiniteSet(SubmittersOn(p))
    /\ inflight[p].txs = JobKeys(SubmittersOn(p), req) \union OpKeys(BookedOn(p), ops)
    /\ inflight[p].spend = JobSum(SubmittersOn(p), req) + OpSum(BookedOn(p), ops)

Exact == \A p \in Perms : ExactOn(p)

LEMMA ExactIsBookings == Exact => BookingsExact
BY DEF Exact, ExactOn, BookingsExact, JobSum, OpSum, JobKeys, OpKeys

\* What is known of the mirrors under way of a session.
LEMMA MirrorTypes ==
    ASSUME IInv
    PROVE  /\ \A p \in Perms : /\ IsFiniteSet(BookedOn(p)) /\ BookedOn(p) \subseteq DOMAIN ops
                               /\ SubmittersOn(p) \subseteq Handlers
                               /\ \A h \in SubmittersOn(p) : req[h].job.amt \in Nat
           /\ \A i \in DOMAIN ops : ops[i] \in Op /\ ops[i].amt \in Nat /\ ops[i].perm \in Perms
           /\ IsFiniteSet(DOMAIN ops)
<1>1. ops \in Seq(Op) /\ \A i \in DOMAIN ops : ops[i] \in Op
  BY OpTypes DEF IInv, TypeOK
<1>2. IsFiniteSet(DOMAIN ops)
  <2>1. DOMAIN ops = 1 .. Len(ops) /\ Len(ops) \in Nat
    BY <1>1, LenProperties
  <2> QED
    BY <2>1, FS_Interval
<1>3. ASSUME NEW p \in Perms PROVE IsFiniteSet(BookedOn(p)) /\ BookedOn(p) \subseteq DOMAIN ops
  <2>1. BookedOn(p) \subseteq DOMAIN ops
    BY DEF BookedOn
  <2> QED
    BY <1>2, <2>1, FS_Subset
<1>4. ASSUME NEW p \in Perms, NEW h \in SubmittersOn(p) PROVE req[h].job.amt \in Nat
  BY DEF SubmittersOn, Submitting, IInv, TypeOK, Jobs
<1> QED
  BY <1>1, <1>2, <1>3, <1>4 DEF SubmittersOn, Op

\* A session whose mirrors and whose entry stay as they are.
LEMMA ExactRests ==
    ASSUME IInv, NEW p \in Perms, ExactOn(p), inflight'[p] = inflight[p],
           SubmittersOn(p)' = SubmittersOn(p), BookedOn(p)' = BookedOn(p),
           \A h \in SubmittersOn(p) : req'[h].job = req[h].job,
           \A i \in BookedOn(p) : ops'[i].key = ops[i].key /\ ops'[i].amt = ops[i].amt
    PROVE  ExactOn(p)'
<1>1. JobSum(SubmittersOn(p), req') = JobSum(SubmittersOn(p), req)
  BY JobSumSame
<1>2. OpSum(BookedOn(p), ops') = OpSum(BookedOn(p), ops)
  BY OpSumSame
<1>3. JobKeys(SubmittersOn(p), req') = JobKeys(SubmittersOn(p), req)
  BY DEF JobKeys
<1>4. OpKeys(BookedOn(p), ops') = OpKeys(BookedOn(p), ops)
  BY DEF OpKeys
<1> QED
  BY <1>1, <1>2, <1>3, <1>4 DEF ExactOn

\* A request joins: its key and its amount are added.
LEMMA ExactJoins ==
    ASSUME IInv, Exact, NEW h \in Handlers, NEW p \in Perms, NEW k \in Keys, NEW a \in Nat, Joins(h, p, k, a)
    PROVE  Exact'
<1>0. inflight \in [Perms -> Booking]
  BY DEF IInv, TypeOK, RegTypeOK
<1>1. \A g \in Handlers : g # h => req'[g] = req[g] /\ (Submitting(g)' <=> Submitting(g))
  BY DEF Joins, Submitting
<1>2. \A q \in Perms : BookedOn(q)' = BookedOn(q)
  BY DEF Joins, BookedOn, Booked
<1>3. ASSUME NEW q \in Perms, q # p PROVE ExactOn(q)'
  <2>1. SubmittersOn(q)' = SubmittersOn(q)
    BY <1>1, <1>3 DEF SubmittersOn, Joins, Submitting
  <2>2. \A g \in SubmittersOn(q) : g # h /\ req'[g] = req[g]
    BY <1>1 DEF SubmittersOn, Joins
  <2>3. inflight'[q] = inflight[q]
    BY <1>0, <1>3 DEF Joins, Reserve
  <2> QED
    BY <1>2, <2>1, <2>2, <2>3, ExactRests DEF Exact, Joins
<1>4. ExactOn(p)'
  <2> DEFINE H == SubmittersOn(p)
             G == SubmittersOn(p)'
  <2>1. OneMore(H, h, G)
    BY <1>1 DEF SubmittersOn, Joins, Submitting, OneMore
  <2>2. JobsKept(H, req, req') /\ \A g \in H : req'[g].job.key = req[g].job.key
    BY <1>1, <2>1, MirrorTypes DEF SubmittersOn, OneMore, JobsKept
  <2>3. req'[h].job.amt = a /\ a \in Int /\ req'[h].job.key = k /\ ops' = ops
    BY DEF Joins
  <2>4. IsFiniteSet(H)
    BY DEF Exact, ExactOn
  <2>5. inflight'[p].txs = inflight[p].txs \union {k} /\ inflight'[p].spend = inflight[p].spend + a
    BY <1>0 DEF Joins, Reserve
  <2> HIDE DEF H, G
  <2>6. /\ IsFiniteSet(G)
        /\ JobSum(G, req') = JobSum(H, req) + a /\ JobSum(H, req) \in Int
    BY <2>1, <2>2, <2>3, <2>4, JobSumMore
  <2>7. JobKeys(G, req') = JobKeys(H, req) \union {k}
    BY <2>1, <2>2, <2>3 DEF JobKeys, OneMore
  <2>8. OpSum(BookedOn(p), ops) \in Int
    BY MirrorTypes, OpSumInt
  <2>9. /\ inflight[p].txs = JobKeys(H, req) \union OpKeys(BookedOn(p), ops)
        /\ inflight[p].spend = JobSum(H, req) + OpSum(BookedOn(p), ops)
    BY DEF Exact, ExactOn, H
  <2>10. inflight'[p].txs = JobKeys(G, req') \union OpKeys(BookedOn(p), ops')
    BY <2>3, <2>5, <2>7, <2>9
  <2>11. inflight'[p].spend = JobSum(G, req') + OpSum(BookedOn(p), ops')
    BY <2>3, <2>5, <2>6, <2>8, <2>9
  <2> QED
    BY <1>2, <2>1, <2>6, <2>10, <2>11 DEF ExactOn, G
<1> QED
  BY <1>3, <1>4 DEF Exact

\* A request gives up: its key and its amount go.
LEMMA ExactThrows ==
    ASSUME IInv, Exact, NEW h \in Handlers, SubmitThrows(h) \/ ReplyLost(h)
    PROVE  Exact'
<1>1. req[h].job \in Jobs
  BY DEF SubmitThrows, ReplyLost, Awaits, IInv, TypeOK
<1>2. PICK p \in Perms, k \in Keys, a \in Nat :
          req[h].job.perm = p /\ req[h].job.key = k /\ req[h].job.amt = a
  BY <1>1 DEF Jobs
<1>3. /\ Submitting(h) /\ OnlyMoves(h) /\ req'[h].phase \notin {"submit", "sent"} /\ ops' = ops
      /\ \A q \in Perms : q # p => inflight'[q] = inflight[q]
      /\ inflight'[p] = [txs |-> inflight[p].txs \ {k}, spend |-> inflight[p].spend - a]
  BY <1>2, ThrowReleases
<1>4. \A g \in Handlers : g # h => req'[g] = req[g] /\ (Submitting(g)' <=> Submitting(g))
  BY <1>3 DEF OnlyMoves, Submitting
<1>5. \A q \in Perms : BookedOn(q)' = BookedOn(q)
  BY <1>3 DEF BookedOn, Booked
<1>6. ASSUME NEW q \in Perms, q # p PROVE ExactOn(q)'
  <2>1. SubmittersOn(q)' = SubmittersOn(q) /\ h \notin SubmittersOn(q)
    BY <1>2, <1>3, <1>4, <1>6 DEF SubmittersOn, Submitting
  <2>2. \A g \in SubmittersOn(q) : req'[g] = req[g]
    BY <1>4, <2>1 DEF SubmittersOn
  <2> QED
    BY <1>3, <1>5, <1>6, <2>1, <2>2, ExactRests DEF Exact
<1>7. ExactOn(p)'
  <2> DEFINE H == SubmittersOn(p)
             G == SubmittersOn(p)'
  <2>1. OneMore(G, h, H)
    BY <1>2, <1>3, <1>4 DEF SubmittersOn, Submitting, OneMore
  <2>2. \A g \in G : req'[g] = req[g]
    BY <1>4, <2>1 DEF SubmittersOn, OneMore
  <2>3. JobsKept(G, req, req') /\ req[h].job.amt \in Int
    BY <1>2, <2>1, <2>2, MirrorTypes DEF JobsKept, OneMore
  <2>4. IsFiniteSet(H)
    BY DEF Exact, ExactOn
  <2>5. \A g \in H : g # h => req[g].job.key # k
    BY <1>2, <1>3 DEF SubmittersOn, IInv, OwnersDistinct
  <2>6. \A i \in BookedOn(p) : ops[i].key # k
    BY <1>2, <1>3 DEF BookedOn, IInv, OwnersDistinct
  <2> HIDE DEF H, G
  <2>7. /\ IsFiniteSet(G)
        /\ JobSum(G, req') = JobSum(H, req) - a /\ JobSum(H, req) \in Int
    BY <1>2, <2>1, <2>3, <2>4, JobSumLess
  <2>8. JobKeys(G, req') = JobKeys(H, req) \ {k}
    BY <1>2, <2>1, <2>2, <2>5 DEF JobKeys, OneMore
  <2>9. OpKeys(BookedOn(p), ops) \ {k} = OpKeys(BookedOn(p), ops)
    BY <2>6 DEF OpKeys
  <2>10. OpSum(BookedOn(p), ops) \in Int
    BY MirrorTypes, OpSumInt
  <2>11. /\ inflight[p].txs = JobKeys(H, req) \union OpKeys(BookedOn(p), ops)
         /\ inflight[p].spend = JobSum(H, req) + OpSum(BookedOn(p), ops)
    BY DEF Exact, ExactOn, H
  <2>12. inflight'[p].txs = JobKeys(G, req') \union OpKeys(BookedOn(p), ops')
    BY <1>3, <2>8, <2>9, <2>11
  <2>13. inflight'[p].spend = JobSum(G, req') + OpSum(BookedOn(p), ops')
    BY <1>3, <2>7, <2>10, <2>11
  <2> QED
    BY <1>5, <2>1, <2>7, <2>12, <2>13 DEF ExactOn, G
<1> QED
  BY <1>6, <1>7 DEF Exact

\* The bundler appends a new op, which is not booked yet, and request h now waits for its answer.
LEMMA AcceptAppends ==
    ASSUME IInv, NEW h \in Handlers, BundlerAccepts(h)
    PROVE  \E n : /\ n \notin DOMAIN ops /\ DOMAIN ops' = DOMAIN ops \union {n}
                  /\ \A i \in DOMAIN ops : ops'[i] = ops[i]
                  /\ ops'[n].perm = req[h].job.perm /\ ops'[n].amt = req[h].job.amt
                  /\ ops'[n].key = req[h].job.key /\ ops'[n].lane = req[h].job.lane
                  /\ ops'[n].by = h /\ ops'[n].watch = "none" /\ ops'[n].status = "mempool"
                  /\ req[h].phase = "submit"
                  /\ req'[h].phase = "sent" /\ req'[h].op = n /\ req'[h].job = req[h].job
                  /\ \A g \in Handlers : g # h => req'[g] = req[g]
                  /\ UNCHANGED <<records, inflight>>
<1> DEFINE n == Len(ops) + 1
           s == [req[h] EXCEPT !.phase = "sent", !.op = n]
<1>0. req \in [Handlers -> HandlerState] /\ ops \in Seq(Op)
  BY DEF IInv, TypeOK
<1>1. PICK o : /\ ops' = Append(ops, o) /\ o.watch = "none" /\ o.status = "mempool" /\ o.by = h
               /\ o.perm = req[h].job.perm /\ o.amt = req[h].job.amt
               /\ o.key = req[h].job.key /\ o.lane = req[h].job.lane
  BY DEF BundlerAccepts
<1>2. /\ DOMAIN ops = 1 .. Len(ops) /\ Len(ops) \in Nat
      /\ DOMAIN ops' = 1 .. n
      /\ \A i \in DOMAIN ops : ops'[i] = ops[i]
      /\ ops'[n] = o
  BY <1>0, <1>1, AppendProperties, LenProperties
<1>3. n \notin DOMAIN ops /\ DOMAIN ops' = DOMAIN ops \union {n}
  BY <1>2
<1>4. Becomes(h, s) /\ req[h].phase = "submit" /\ UNCHANGED <<records, inflight>>
  BY DEF BundlerAccepts, regVars
<1>5. s.phase = "sent" /\ s.op = n /\ s.job = req[h].job
  <2> HIDE DEF n
  <2> QED
    BY <1>0 DEF HandlerState
<1> HIDE DEF n, s
<1>6. req'[h] = s /\ \A g \in Handlers : g # h => req'[g] = req[g]
  BY <1>0, <1>4 DEF Becomes
<1> QED
  BY <1>1, <1>2, <1>3, <1>4, <1>5, <1>6

LEMMA ExactAccepts ==
    ASSUME IInv, Exact, NEW h \in Handlers, BundlerAccepts(h)
    PROVE  Exact'
<1>1. PICK n : /\ n \notin DOMAIN ops /\ DOMAIN ops' = DOMAIN ops \union {n}
               /\ \A i \in DOMAIN ops : ops'[i] = ops[i]
               /\ ops'[n].perm = req[h].job.perm /\ ops'[n].amt = req[h].job.amt
               /\ ops'[n].key = req[h].job.key /\ ops'[n].lane = req[h].job.lane
               /\ ops'[n].by = h /\ ops'[n].watch = "none" /\ ops'[n].status = "mempool"
               /\ req[h].phase = "submit"
               /\ req'[h].phase = "sent" /\ req'[h].op = n /\ req'[h].job = req[h].job
               /\ \A g \in Handlers : g # h => req'[g] = req[g]
               /\ UNCHANGED <<records, inflight>>
  BY AcceptAppends
<1> SUFFICES ASSUME NEW q \in Perms PROVE ExactOn(q)'
  BY DEF Exact
<1>2. SubmittersOn(q)' = SubmittersOn(q) /\ \A g \in SubmittersOn(q) : req'[g].job = req[g].job
  BY <1>1 DEF SubmittersOn, Submitting
<1>3. BookedOn(q)' = BookedOn(q) /\ \A i \in BookedOn(q) : ops'[i] = ops[i]
  BY <1>1 DEF BookedOn, Booked
<1> QED
  BY <1>1, <1>2, <1>3, ExactRests DEF Exact

\* The answer comes back: the reservation passes from the request to its op.
LEMMA ReturnPasses ==
    ASSUME IInv, NEW h \in Handlers, SubmitReturns(h)
    PROVE  \E i \in DOMAIN ops :
              /\ req[h].phase = "sent" /\ req[h].op = i
              /\ ops[i].perm = req[h].job.perm /\ ops[i].key = req[h].job.key /\ ops[i].amt = req[h].job.amt
              /\ ~ Booked(i)
              /\ DOMAIN ops' = DOMAIN ops /\ \A j \in DOMAIN ops : j # i => ops'[j] = ops[j]
              /\ ops'[i].perm = ops[i].perm /\ ops'[i].key = ops[i].key /\ ops'[i].amt = ops[i].amt
              /\ ops'[i].by = ops[i].by /\ ops'[i].lane = ops[i].lane
              /\ ops'[i].status = ops[i].status /\ ops'[i].watch = "polling"
              /\ req'[h].phase \notin {"submit", "sent"}
              /\ \A g \in Handlers : g # h => req'[g] = req[g]
              /\ UNCHANGED <<records, inflight>>
<1>0. /\ req \in [Handlers -> HandlerState] /\ req[h].phase = "sent" /\ Submitting(h) /\ HandlerOK(h)
      /\ UNCHANGED <<records, inflight>> /\ Continue(h, "ok")
  BY DEF IInv, TypeOK, HandlersOK, SubmitReturns, Awaits, Submitting, regVars
<1>1. PICK i \in DOMAIN ops : i = req[h].op /\ ops[i] \in Op
  BY OpTypes, <1>0
<1>2. ops[i].perm = req[h].job.perm /\ ops[i].key = req[h].job.key /\ ops[i].amt = req[h].job.amt
  BY <1>0, <1>1 DEF HandlerOK
<1>3. ~ Booked(i)
  BY <1>0, <1>1, <1>2 DEF IInv, OwnersDistinct
<1> DEFINE o == [ops[i] EXCEPT !.watch = "polling"]
<1>4. /\ o.watch = "polling" /\ o.perm = ops[i].perm /\ o.key = ops[i].key /\ o.amt = ops[i].amt
      /\ o.by = ops[i].by /\ o.lane = ops[i].lane /\ o.status = ops[i].status
  BY <1>1 DEF Op
<1>5. ops' = [ops EXCEPT ![i] = o]
  BY <1>1 DEF SubmitReturns
<1> HIDE DEF o
<1>6. DOMAIN ops' = DOMAIN ops /\ ops'[i] = o /\ \A j \in DOMAIN ops : j # i => ops'[j] = ops[j]
  BY <1>5, OpIsSet
<1>7. req'[h].phase \notin {"submit", "sent"} /\ \A g \in Handlers : g # h => req'[g] = req[g]
  BY <1>0, ContinueMoves DEF OnlyMoves
<1> QED
  BY <1>0, <1>1, <1>2, <1>3, <1>4, <1>6, <1>7

LEMMA ExactReturns ==
    ASSUME IInv, Exact, NEW h \in Handlers, SubmitReturns(h)
    PROVE  Exact'
<1>1. PICK i \in DOMAIN ops :
              /\ req[h].phase = "sent"
              /\ ops[i].perm = req[h].job.perm /\ ops[i].key = req[h].job.key /\ ops[i].amt = req[h].job.amt
              /\ ~ Booked(i)
              /\ DOMAIN ops' = DOMAIN ops /\ \A j \in DOMAIN ops : j # i => ops'[j] = ops[j]
              /\ ops'[i].perm = ops[i].perm /\ ops'[i].key = ops[i].key /\ ops'[i].amt = ops[i].amt
              /\ ops'[i].watch = "polling"
              /\ req'[h].phase \notin {"submit", "sent"}
              /\ \A g \in Handlers : g # h => req'[g] = req[g]
              /\ inflight' = inflight
  BY ReturnPasses
<1>2. PICK p \in Perms, a \in Nat : p = ops[i].perm /\ ops[i].amt = a
  BY MirrorTypes
<1>3. ASSUME NEW q \in Perms, q # p PROVE ExactOn(q)'
  <2>1. SubmittersOn(q)' = SubmittersOn(q) /\ \A g \in SubmittersOn(q) : req'[g] = req[g]
    BY <1>1, <1>2, <1>3 DEF SubmittersOn, Submitting
  <2>2. BookedOn(q)' = BookedOn(q) /\ \A j \in BookedOn(q) : ops'[j] = ops[j]
    BY <1>1, <1>2, <1>3 DEF BookedOn, Booked
  <2> QED
    BY <1>1, <2>1, <2>2, ExactRests DEF Exact
<1>4. ExactOn(p)'
  <2> DEFINE H == SubmittersOn(p)
             G == SubmittersOn(p)'
             I == BookedOn(p)
             J == BookedOn(p)'
  <2>0. req[h].job.amt = a /\ req[h].job.key = ops[i].key /\ ops'[i].amt = a /\ ops'[i].key = ops[i].key /\ a \in Int
    BY <1>1, <1>2
  <2>1. OneMore(G, h, H)
    BY <1>1, <1>2 DEF SubmittersOn, Submitting, OneMore
  <2>2. \A g \in G : req'[g] = req[g]
    BY <1>1, <2>1 DEF SubmittersOn, OneMore
  <2>3. OneMore(I, i, J)
    BY <1>1, <1>2 DEF BookedOn, Booked, OneMore
  <2>4. \A j \in I : ops'[j] = ops[j]
    BY <1>1, <2>3 DEF BookedOn, OneMore
  <2>5. IsFiniteSet(H) /\ IsFiniteSet(I)
    BY MirrorTypes DEF Exact, ExactOn
  <2>6. JobsKept(G, req, req')
    BY <2>1, <2>2, MirrorTypes DEF JobsKept, OneMore
  <2>7. OpsWorth(I, ops, ops')
    BY <2>4, MirrorTypes DEF OpsWorth
  <2>8. /\ inflight[p].txs = JobKeys(H, req) \union OpKeys(I, ops)
        /\ inflight[p].spend = JobSum(H, req) + OpSum(I, ops)
    BY DEF Exact, ExactOn
  <2> HIDE DEF H, G, I, J
  <2>9. IsFiniteSet(G) /\ JobSum(G, req') = JobSum(H, req) - a /\ JobSum(H, req) \in Int
    BY <2>0, <2>1, <2>5, <2>6, JobSumLess
  <2>10. OpSum(J, ops') = OpSum(I, ops) + a /\ OpSum(I, ops) \in Int
    BY <2>0, <2>3, <2>5, <2>7, OpSumMore
  <2>11. JobKeys(H, req) \union OpKeys(I, ops) = JobKeys(G, req') \union OpKeys(J, ops')
    <3>1. JobKeys(H, req) = JobKeys(G, req') \union {ops[i].key}
      BY <2>0, <2>1, <2>2 DEF JobKeys, OneMore
    <3>2. OpKeys(J, ops') = OpKeys(I, ops) \union {ops[i].key}
      BY <2>0, <2>3, <2>4 DEF OpKeys, OneMore
    <3> QED
      BY <3>1, <3>2
  <2>12. JobSum(G, req') + OpSum(J, ops') = inflight[p].spend
    BY <2>0, <2>8, <2>9, <2>10
  <2>13. JobKeys(G, req') \union OpKeys(J, ops') = inflight[p].txs
    BY <2>8, <2>11
  <2> QED
    BY <1>1, <2>9, <2>12, <2>13 DEF ExactOn, G, J
<1> QED
  BY <1>3, <1>4 DEF Exact

\* One op changes its watcher, or its status, and nothing else.
LEMMA OpWatchSet ==
    ASSUME IInv, NEW i \in DOMAIN ops, NEW watch, ops' = [ops EXCEPT ![i].watch = watch]
    PROVE  /\ DOMAIN ops' = DOMAIN ops /\ \A j \in DOMAIN ops : j # i => ops'[j] = ops[j]
           /\ ops'[i].status = ops[i].status /\ ops'[i].watch = watch
           /\ ops'[i].perm = ops[i].perm /\ ops'[i].key = ops[i].key /\ ops'[i].amt = ops[i].amt
           /\ ops'[i].by = ops[i].by /\ ops'[i].lane = ops[i].lane
<1> DEFINE o == [ops[i] EXCEPT !.watch = watch]
<1>1. /\ o.status = ops[i].status /\ o.watch = watch /\ o.perm = ops[i].perm /\ o.key = ops[i].key /\ o.amt = ops[i].amt
      /\ o.by = ops[i].by /\ o.lane = ops[i].lane
  BY OpTypes DEF Op
<1>2. ops' = [ops EXCEPT ![i] = o]
  OBVIOUS
<1> HIDE DEF o
<1> QED
  BY <1>1, <1>2, OpIsSet

LEMMA OpStatusSet ==
    ASSUME IInv, NEW i \in DOMAIN ops, NEW status, ops' = [ops EXCEPT ![i].status = status]
    PROVE  /\ DOMAIN ops' = DOMAIN ops /\ \A j \in DOMAIN ops : j # i => ops'[j] = ops[j]
           /\ ops'[i].status = status /\ ops'[i].watch = ops[i].watch
           /\ ops'[i].perm = ops[i].perm /\ ops'[i].key = ops[i].key /\ ops'[i].amt = ops[i].amt
           /\ ops'[i].by = ops[i].by /\ ops'[i].lane = ops[i].lane
<1> DEFINE o == [ops[i] EXCEPT !.status = status]
<1>1. /\ o.status = status /\ o.watch = ops[i].watch /\ o.perm = ops[i].perm /\ o.key = ops[i].key /\ o.amt = ops[i].amt
      /\ o.by = ops[i].by /\ o.lane = ops[i].lane
  BY OpTypes DEF Op
<1>2. ops' = [ops EXCEPT ![i] = o]
  OBVIOUS
<1> HIDE DEF o
<1> QED
  BY <1>1, <1>2, OpIsSet

\* A settlement releases exactly the reservation of its op.
LEMMA ExactSettles ==
    ASSUME IInv, Exact, NEW i \in DOMAIN ops, SettleReverted(i) \/ \E ok \in WriteOutcomes : SettleSuccess(i, ok)
    PROVE  Exact'
<1>1. PICK p \in Perms, k \in Keys, a \in Nat : ops[i].perm = p /\ ops[i].key = k /\ ops[i].amt = a
  BY OpTypes DEF Op
<1>2. /\ ops[i].watch = "polling" /\ ops' = [ops EXCEPT ![i].watch = "settled"] /\ req' = req
      /\ ReleaseInflight(p, a, k)
  BY <1>1 DEF SettleReverted, SettleSuccess, ReleaseReservation, CommitReservation
<1>3. /\ \A q \in Perms : q # p => inflight'[q] = inflight[q]
      /\ inflight'[p] = [txs |-> inflight[p].txs \ {k}, spend |-> inflight[p].spend - a]
  BY <1>1, <1>2, SettleReleases
<1>4. /\ DOMAIN ops' = DOMAIN ops /\ \A j \in DOMAIN ops : j # i => ops'[j] = ops[j]
      /\ ops'[i].watch = "settled"
  BY <1>2, OpWatchSet
<1>5. \A q \in Perms : SubmittersOn(q)' = SubmittersOn(q)
  BY <1>2 DEF SubmittersOn, Submitting
<1>6. ASSUME NEW q \in Perms, q # p PROVE ExactOn(q)'
  <2>1. BookedOn(q)' = BookedOn(q) /\ \A j \in BookedOn(q) : ops'[j] = ops[j]
    BY <1>1, <1>4, <1>6, OpWatchSet, <1>2 DEF BookedOn, Booked
  <2> QED
    BY <1>2, <1>3, <1>5, <1>6, <2>1, ExactRests DEF Exact
<1>7. ExactOn(p)'
  <2> DEFINE H == SubmittersOn(p)
             I == BookedOn(p)
             J == BookedOn(p)'
  <2>1. OneMore(J, i, I) /\ \A j \in J : ops'[j] = ops[j]
    BY <1>1, <1>2, <1>4 DEF BookedOn, Booked, OneMore
  <2>2. /\ IsFiniteSet(H) /\ IsFiniteSet(I)
        /\ \A g \in H : req[g].job.amt \in Int
        /\ OpsWorth(J, ops, ops') /\ ops[i].amt \in Int
    BY <2>1, MirrorTypes DEF Exact, ExactOn, OpsWorth, OneMore
  <2>3. /\ inflight[p].txs = JobKeys(H, req) \union OpKeys(I, ops)
        /\ inflight[p].spend = JobSum(H, req) + OpSum(I, ops)
    BY DEF Exact, ExactOn
  <2>4. \A g \in H : req[g].job.key # k
    BY <1>1, <1>2 DEF SubmittersOn, Booked, IInv, OwnersDistinct
  <2>5. \A j \in I : j # i => ops[j].key # k
    BY <1>1, <1>2 DEF BookedOn, Booked, IInv, OwnersDistinct
  <2> HIDE DEF H, I, J
  <2>6. OpSum(J, ops') = OpSum(I, ops) - ops[i].amt /\ OpSum(I, ops) \in Int
    BY <2>1, <2>2, OpSumLess
  <2>7. JobSum(H, req) \in Int
    BY <2>2, JobSumInt
  <2>8. inflight'[p].txs = JobKeys(H, req') \union OpKeys(J, ops')
    <3>1. JobKeys(H, req) \ {k} = JobKeys(H, req')
      BY <1>2, <2>4 DEF JobKeys
    <3>2. OpKeys(I, ops) \ {k} = OpKeys(J, ops')
      BY <1>1, <2>1, <2>5 DEF OpKeys, OneMore
    <3> QED
      BY <1>3, <2>3, <3>1, <3>2
  <2>9. inflight'[p].spend = JobSum(H, req') + OpSum(J, ops')
    BY <1>1, <1>2, <1>3, <2>3, <2>6, <2>7
  <2> QED
    BY <1>5, <2>2, <2>8, <2>9 DEF ExactOn, H, J
<1> QED
  BY <1>6, <1>7 DEF Exact

\* The booked ops stay the booked ops: a confirm timeout, and what the chain does.
LEMMA ExactStays ==
    ASSUME IInv, Exact, NEW i \in DOMAIN ops, SettleTimeout(i) \/ OpSucceeds(i) \/ OpReverts(i)
    PROVE  Exact'
<1>1. /\ DOMAIN ops' = DOMAIN ops /\ \A j \in DOMAIN ops : j # i => ops'[j] = ops[j]
      /\ ops'[i].perm = ops[i].perm /\ ops'[i].key = ops[i].key /\ ops'[i].amt = ops[i].amt
      /\ Booked(i)' <=> Booked(i)
  <2>1. CASE SettleTimeout(i)
    BY <2>1, OpWatchSet DEF SettleTimeout, Booked
  <2>2. CASE OpSucceeds(i) \/ OpReverts(i)
    BY <2>2, OpStatusSet DEF OpSucceeds, OpReverts, Booked
  <2> QED
    BY <2>1, <2>2
<1>2. req' = req /\ inflight' = inflight
  BY DEF SettleTimeout, OpSucceeds, OpReverts, regVars
<1> SUFFICES ASSUME NEW q \in Perms PROVE ExactOn(q)'
  BY DEF Exact
<1>3. SubmittersOn(q)' = SubmittersOn(q)
  BY <1>2 DEF SubmittersOn, Submitting
<1>4. BookedOn(q)' = BookedOn(q) /\ \A j \in BookedOn(q) : ops'[j].key = ops[j].key /\ ops'[j].amt = ops[j].amt
  BY <1>1 DEF BookedOn, Booked
<1> QED
  BY <1>2, <1>3, <1>4, ExactRests DEF Exact

\* A new process has no mirror under way and an empty book.
LEMMA ExactCrashes ==
    ASSUME IInv, Crash
    PROVE  Exact'
<1> SUFFICES ASSUME NEW p \in Perms PROVE ExactOn(p)'
  BY DEF Exact
<1>1. \A h \in Handlers : ~(Submitting(h)')
  BY DEF Crash, Submitting, Idle
<1>2. \A i \in DOMAIN ops' : ops'[i].watch \notin {"polling", "gaveup"}
  <2>1. ASSUME NEW i \in DOMAIN ops, ops[i].watch \in {"polling", "gaveup"} PROVE ops'[i].watch = "none"
    <3>1. ops[i] \in Op
      BY OpTypes
    <3> QED
      BY <2>1, <3>1 DEF Crash, Op
  <2> QED
    BY <2>1 DEF Crash
<1>3. SubmittersOn(p)' = {} /\ BookedOn(p)' = {}
  BY <1>1, <1>2 DEF SubmittersOn, BookedOn, Booked
<1>4. inflight'[p] = [txs |-> {}, spend |-> 0]
  BY DEF Crash, Restart, NoBooking
<1>5. JobKeys({}, req') = {} /\ OpKeys({}, ops') = {} /\ IsFiniteSet({})
  BY FS_EmptySet DEF JobKeys, OpKeys
<1> QED
  BY <1>3, <1>4, <1>5, NoSums DEF ExactOn

LEMMA ExactStarts ==
    ASSUME Init
    PROVE  Exact
<1> SUFFICES ASSUME NEW p \in Perms PROVE ExactOn(p)
  BY DEF Exact
<1>1. SubmittersOn(p) = {} /\ BookedOn(p) = {}
  BY DEF Init, SubmittersOn, Submitting, Idle, BookedOn
<1>2. inflight[p] = [txs |-> {}, spend |-> 0]
  BY DEF Init, RegInit, NoBooking
<1>3. JobKeys({}, req) = {} /\ OpKeys({}, ops) = {} /\ IsFiniteSet({})
  BY FS_EmptySet DEF JobKeys, OpKeys
<1> QED
  BY <1>1, <1>2, <1>3, NoSums DEF ExactOn

\* No plan is found unbuildable after its reserve.
LEMMA NeverThrows ==
    ASSUME IInv, PlansBuild, NEW h \in Handlers, NEW p \in Perms
    PROVE  ~FanBuildThrows(h, p)
<1> SUFFICES ASSUME FanBuildThrows(h, p) PROVE FALSE
  OBVIOUS
<1>1. InPayload(h) /\ req[h] \in HandlerState
  BY DEF FanBuildThrows, Runs, IInv, HandlersOK, HandlerOK, TypeOK
<1>2. req[h].seen[p] \in Nat
  BY <1>1 DEF HandlerState
<1> QED
  BY <1>1, <1>2 DEF FanBuildThrows, PlansBuild, InPayload, Kind, Wants, Builds, Amount, Activity

LEMMA ExactStep ==
    ASSUME IInv, AbsentIsFresh, PlansBuild, Exact, [Next]_vars
    PROVE  Exact'
<1>1. ASSUME MirrorsRest, NEW p \in Perms PROVE ExactOn(p)'
  <2>1. SubmittersOn(p)' = SubmittersOn(p) /\ \A h \in SubmittersOn(p) : req'[h].job = req[h].job
    BY <1>1 DEF MirrorsRest, SubmittersOn
  <2>2. BookedOn(p)' = BookedOn(p)
    BY <1>1 DEF MirrorsRest, BookedOn, Booked
  <2> QED
    BY <1>1, <2>1, <2>2, ExactRests DEF MirrorsRest, Exact
<1>2. ASSUME NEW h \in Handlers, SubmitStep(h) PROVE Exact'
  BY <1>2, ExactAccepts, ExactThrows, ExactReturns DEF SubmitStep
<1>3. ASSUME NEW i \in DOMAIN ops, Settle(i) PROVE Exact'
  BY <1>3, ExactSettles, ExactStays DEF Settle
<1> QED
  BY <1>1, <1>2, <1>3, MirrorMoves, NeverThrows, ExactJoins, ExactStays, ExactCrashes DEF Exact

\* The in-flight entry of a session is the mirrors being submitted, polled or left for
\* reconciliation, key for key and to the last unit (copySession.ts reserve, releaseInflight),
\* for any requests, crashes, failing writes and lost answers: every release finds its own
\* reservation, and none is released twice.  A plan that turns out unbuildable after its reserve is the
\* one leak there is (server.ts webhook handler).
THEOREM BookingsAreExact == ASSUME PlansBuild PROVE Spec => []BookingsExact
<1>1. Init => Exact
  BY ExactStarts
<1>2. IInv /\ FileInv /\ Exact /\ [Next]_vars => FileInv' /\ Exact'
  BY FileKeeps, ExactStep DEF FileInv
<1> QED
  BY <1>1, <1>2, ExactIsBookings, InitFile, Invariant, PTL DEF Spec

-----------------------------------------------------------------------------
(* What may have been drawn on-chain is counted, when no process dies, the *)
(* bundler's answers arrive and a trigger approves the spend token once.   *)

\* Every approve on the spend token in the calls of a trigger is the one its spend is derived from.
OneApprove ==
    \A h \in Handlers : Kind(h) = "trigger" =>
        \A i, j \in CapApproves(Request[h].calls, Scope[Request[h].perm]) : i = j

\* The mirrors the bundler does not have yet, and the accepted ops whose spending is not given back.
SendersOn(p) == {h \in Handlers : req[h].phase = "submit" /\ req[h].job.perm = p}
Due(i) == ~ (ops[i].watch = "settled" /\ ops[i].status = "reverted")
DueOn(p) == {i \in DOMAIN ops : Due(i) /\ ops[i].perm = p}

CoveredOn(p) ==
    /\ IsFiniteSet(SendersOn(p))
    /\ BootFile[p].spentTotal + JobSum(SendersOn(p), req) + OpSum(DueOn(p), ops)
         <= records[p].spentTotal + inflight[p].spend

Covered == \A p \in Perms : CoveredOn(p)

\* An op is settled by its receipt, and one whose hash is still awaited is not watched.
SettledKnown == \A i \in DOMAIN ops : ops[i].watch = "settled" => ops[i].status # "mempool"
AwaitedFresh == \A h \in Handlers : req[h].phase = "sent" => ops[req[h].op].watch = "none"

\* A trigger's mirror is worth the spend derived from its calls.
TriggerWorth(h, p, a) == Kind(h) = "trigger" => p = Request[h].perm /\ a = TriggerSpend(h)
TriggersWorth ==
    /\ \A h \in Handlers : Submitting(h) => TriggerWorth(h, req[h].job.perm, req[h].job.amt)
    /\ \A i \in DOMAIN ops : TriggerWorth(ops[i].by, ops[i].perm, ops[i].amt)

CountInv == Covered /\ SettledKnown /\ AwaitedFresh /\ TriggersWorth

\* What is known of the numbers that are compared.
LEMMA CountTypes ==
    ASSUME IInv, NEW p \in Perms
    PROVE  /\ BootFile[p].spentTotal \in Int /\ records[p].spentTotal \in Int /\ inflight[p].spend \in Int
           /\ \A h \in SendersOn(p) : h \in Handlers /\ req[h].job.amt \in Int
           /\ DueOn(p) \subseteq DOMAIN ops /\ IsFiniteSet(DueOn(p))
           /\ \A i \in DueOn(p) : ops[i].amt \in Int
           /\ OpSum(DueOn(p), ops) \in Int
           /\ IsFiniteSet(SendersOn(p)) => JobSum(SendersOn(p), req) \in Int
<1>1. BootFile[p].spentTotal \in Int
  BY BootAssumption DEF CopyRecord
<1>2. records[p].spentTotal \in Int /\ inflight[p].spend \in Int
  BY DEF IInv, TypeOK, RegTypeOK, CopyRecord, Booking
<1>3. \A h \in SendersOn(p) : h \in Handlers /\ req[h].job.amt \in Int
  BY DEF SendersOn, IInv, TypeOK, Jobs
<1>4. DueOn(p) \subseteq DOMAIN ops
  BY DEF DueOn
<1>5. IsFiniteSet(DueOn(p))
  BY <1>4, MirrorTypes, FS_Subset
<1>6. \A i \in DueOn(p) : ops[i].amt \in Int
  BY <1>4, MirrorTypes
<1>7. OpSum(DueOn(p), ops) \in Int
  BY <1>5, <1>6, OpSumInt
<1>8. IsFiniteSet(SendersOn(p)) => JobSum(SendersOn(p), req) \in Int
  BY <1>3, JobSumInt
<1> QED
  BY <1>1, <1>2, <1>3, <1>4, <1>5, <1>6, <1>7, <1>8

\* A session whose senders and due ops stay, and for which nothing less is counted.
LEMMA CoverRests ==
    ASSUME IInv, NEW p \in Perms, CoveredOn(p), NEW b \in Nat,
           records'[p].spentTotal + inflight'[p].spend = records[p].spentTotal + inflight[p].spend + b,
           SendersOn(p)' = SendersOn(p), DueOn(p)' = DueOn(p),
           \A h \in SendersOn(p) : req'[h].job = req[h].job,
           \A i \in DueOn(p) : ops'[i].amt = ops[i].amt
    PROVE  CoveredOn(p)'
<1>1. JobSum(SendersOn(p), req') = JobSum(SendersOn(p), req)
  BY JobSumSame
<1>2. OpSum(DueOn(p), ops') = OpSum(DueOn(p), ops)
  BY OpSumSame
<1>3. IsFiniteSet(SendersOn(p)) /\ JobSum(SendersOn(p), req) \in Int /\ OpSum(DueOn(p), ops) \in Int
  BY CountTypes DEF CoveredOn
<1> QED
  BY <1>1, <1>2, <1>3, CountTypes DEF CoveredOn

\* Nothing changes in the sender's session but the reservation that comes with it.
LEMMA CoverJoins ==
    ASSUME IInv, Covered, NEW h \in Handlers, NEW p \in Perms, NEW k \in Keys, NEW a \in Nat, Joins(h, p, k, a)
    PROVE  Covered'
<1>0. inflight \in [Perms -> Booking] /\ records' = records /\ ops' = ops
  BY DEF IInv, TypeOK, RegTypeOK, Joins
<1>1. \A q \in Perms : DueOn(q)' = DueOn(q)
  BY <1>0 DEF DueOn, Due
<1>2. \A g \in Handlers : g # h => req'[g] = req[g]
  BY DEF Joins
<1>3. ASSUME NEW q \in Perms, q # p PROVE CoveredOn(q)'
  <2>1. SendersOn(q)' = SendersOn(q) /\ h \notin SendersOn(q)
    BY <1>2, <1>3 DEF SendersOn, Joins, Submitting
  <2>2. \A g \in SendersOn(q) : req'[g] = req[g]
    BY <1>2, <2>1 DEF SendersOn
  <2>3. inflight'[q] = inflight[q]
    BY <1>0, <1>3 DEF Joins, Reserve
  <2>4. records'[q].spentTotal + inflight'[q].spend = records[q].spentTotal + inflight[q].spend + 0
    BY <1>0, <2>3, CountTypes
  <2> QED
    BY <1>0, <1>1, <2>1, <2>2, <2>4, CoverRests DEF Covered
<1>4. CoveredOn(p)'
  <2> DEFINE H == SendersOn(p)
             G == SendersOn(p)'
  <2>1. OneMore(H, h, G)
    BY <1>2 DEF SendersOn, Joins, Submitting, OneMore
  <2>2. JobsKept(H, req, req')
    BY <1>2, <2>1, CountTypes DEF SendersOn, OneMore, JobsKept
  <2>3. req'[h].job.amt = a /\ req'[h].job.amt \in Int
    BY DEF Joins
  <2>4. IsFiniteSet(H)
    BY DEF Covered, CoveredOn
  <2>5. inflight'[p].spend = inflight[p].spend + a
    BY <1>0 DEF Joins, Reserve
  <2>6. BootFile[p].spentTotal + JobSum(H, req) + OpSum(DueOn(p), ops) <= records[p].spentTotal + inflight[p].spend
    BY DEF Covered, CoveredOn
  <2> HIDE DEF H, G
  <2>7. /\ IsFiniteSet(G)
        /\ JobSum(G, req') = JobSum(H, req) + req'[h].job.amt /\ JobSum(H, req) \in Int
    BY <2>1, <2>2, <2>3, <2>4, JobSumMore
  <2>8. BootFile[p].spentTotal + JobSum(G, req') + OpSum(DueOn(p), ops) <= records[p].spentTotal + inflight'[p].spend
    BY <2>3, <2>5, <2>6, <2>7, CountTypes
  <2> QED
    BY <1>0, <1>1, <2>7, <2>8 DEF CoveredOn, G
<1> QED
  BY <1>3, <1>4 DEF Covered

\* A request leaves the senders: the sum of the others is less by its amount.
LEMMA SenderLeaves ==
    ASSUME IInv, NEW h \in Handlers, NEW p \in Perms, h \in SendersOn(p), CoveredOn(p),
           req'[h].phase # "submit", \A g \in Handlers : g # h => req'[g] = req[g]
    PROVE  /\ IsFiniteSet(SendersOn(p)')
           /\ JobSum(SendersOn(p)', req') = JobSum(SendersOn(p), req) - req[h].job.amt
<1> DEFINE H == SendersOn(p)
           G == SendersOn(p)'
<1>1. OneMore(G, h, H)
  BY DEF SendersOn, OneMore
<1>2. \A g \in G : req'[g] = req[g]
  BY <1>1 DEF SendersOn, OneMore
<1>3. JobsKept(G, req, req') /\ req[h].job.amt \in Int
  BY <1>1, <1>2, CountTypes DEF JobsKept, OneMore
<1>4. IsFiniteSet(H)
  BY DEF CoveredOn
<1> HIDE DEF H, G
<1>5. IsFiniteSet(G) /\ JobSum(G, req') = JobSum(H, req) - req[h].job.amt
  BY <1>1, <1>3, <1>4, JobSumLess
<1> QED
  BY <1>5 DEF H, G

\* The bundler has the op: what was about to be sent is now due.
LEMMA CoverAccepts ==
    ASSUME IInv, Covered, NEW h \in Handlers, BundlerAccepts(h)
    PROVE  Covered'
<1>1. PICK n : /\ n \notin DOMAIN ops /\ DOMAIN ops' = DOMAIN ops \union {n}
               /\ \A i \in DOMAIN ops : ops'[i] = ops[i]
               /\ ops'[n].perm = req[h].job.perm /\ ops'[n].amt = req[h].job.amt
               /\ ops'[n].watch = "none" /\ req[h].phase = "submit"
               /\ req'[h].phase = "sent"
               /\ \A g \in Handlers : g # h => req'[g] = req[g]
               /\ UNCHANGED <<records, inflight>>
  BY AcceptAppends
<1>2. PICK p \in Perms : req[h].job.perm = p
  BY <1>1 DEF IInv, TypeOK, Jobs
<1>3. ASSUME NEW q \in Perms, q # p PROVE CoveredOn(q)'
  <2>1. SendersOn(q)' = SendersOn(q) /\ h \notin SendersOn(q)
    BY <1>1, <1>2, <1>3 DEF SendersOn
  <2>2. DueOn(q)' = DueOn(q) /\ \A i \in DueOn(q) : ops'[i] = ops[i]
    BY <1>1, <1>2, <1>3 DEF DueOn, Due
  <2>3. \A g \in SendersOn(q) : req'[g] = req[g]
    BY <1>1, <2>1 DEF SendersOn
  <2>4. records'[q].spentTotal + inflight'[q].spend = records[q].spentTotal + inflight[q].spend + 0
    BY <1>1, CountTypes
  <2> QED
    BY <2>1, <2>2, <2>3, <2>4, CoverRests DEF Covered
<1>4. CoveredOn(p)'
  <2> DEFINE H == SendersOn(p)
             G == SendersOn(p)'
             I == DueOn(p)
             J == DueOn(p)'
  <2>1. h \in H /\ req[h].job.amt \in Int
    BY <1>1, <1>2, CountTypes DEF SendersOn
  <2>2. IsFiniteSet(G) /\ JobSum(G, req') = JobSum(H, req) - req[h].job.amt
    BY <1>1, <2>1, SenderLeaves DEF Covered
  <2>3. OneMore(I, n, J)
    BY <1>1, <1>2 DEF DueOn, Due, OneMore
  <2>4. \A i \in I : ops'[i] = ops[i]
    BY <1>1 DEF DueOn
  <2>5. IsFiniteSet(I)
    BY CountTypes
  <2>6. OpsWorth(I, ops, ops')
    BY <2>4, CountTypes DEF OpsWorth
  <2>7. ops'[n].amt \in Int
    BY <1>1, <2>1
  <2>8. /\ BootFile[p].spentTotal + JobSum(H, req) + OpSum(I, ops) <= records[p].spentTotal + inflight[p].spend
        /\ JobSum(H, req) \in Int
    BY CountTypes DEF Covered, CoveredOn
  <2> HIDE DEF H, G, I, J
  <2>9. OpSum(J, ops') = OpSum(I, ops) + ops'[n].amt /\ OpSum(I, ops) \in Int
    BY <2>3, <2>5, <2>6, <2>7, OpSumMore
  <2>10. BootFile[p].spentTotal + JobSum(G, req') + OpSum(J, ops') <= records'[p].spentTotal + inflight'[p].spend
    BY <1>1, <2>1, <2>2, <2>8, <2>9, CountTypes
  <2> QED
    BY <2>2, <2>10 DEF CoveredOn, G, J
<1> QED
  BY <1>3, <1>4 DEF Covered

\* Nothing was sent: the reservation goes with the request.
LEMMA CoverThrows ==
    ASSUME IInv, Covered, NEW h \in Handlers, SubmitThrows(h)
    PROVE  Covered'
<1>1. req[h].job \in Jobs /\ req[h].phase = "submit"
  BY DEF SubmitThrows, Awaits, IInv, TypeOK
<1>2. PICK p \in Perms, k \in Keys, a \in Nat :
          req[h].job.perm = p /\ req[h].job.key = k /\ req[h].job.amt = a
  BY <1>1 DEF Jobs
<1>3. /\ OnlyMoves(h) /\ req'[h].phase \notin {"submit", "sent"} /\ ops' = ops /\ records' = records
      /\ \A q \in Perms : q # p => inflight'[q] = inflight[q]
      /\ inflight'[p] = [txs |-> inflight[p].txs \ {k}, spend |-> inflight[p].spend - a]
  BY <1>2, ThrowReleases
<1>4. \A g \in Handlers : g # h => req'[g] = req[g]
  BY <1>3 DEF OnlyMoves
<1>5. \A q \in Perms : DueOn(q)' = DueOn(q)
  BY <1>3 DEF DueOn, Due
<1>6. ASSUME NEW q \in Perms, q # p PROVE CoveredOn(q)'
  <2>1. SendersOn(q)' = SendersOn(q) /\ h \notin SendersOn(q)
    BY <1>2, <1>3, <1>4, <1>6 DEF SendersOn
  <2>2. \A g \in SendersOn(q) : req'[g] = req[g]
    BY <1>4, <2>1 DEF SendersOn
  <2>3. records'[q].spentTotal + inflight'[q].spend = records[q].spentTotal + inflight[q].spend + 0
    BY <1>3, <1>6, CountTypes
  <2> QED
    BY <1>3, <1>5, <2>1, <2>2, <2>3, CoverRests DEF Covered
<1>7. CoveredOn(p)'
  <2>1. h \in SendersOn(p)
    BY <1>1, <1>2 DEF SendersOn
  <2>2. IsFiniteSet(SendersOn(p)') /\ JobSum(SendersOn(p)', req') = JobSum(SendersOn(p), req) - a
    BY <1>2, <1>3, <1>4, <2>1, SenderLeaves DEF Covered
  <2>3. /\ BootFile[p].spentTotal + JobSum(SendersOn(p), req) + OpSum(DueOn(p), ops)
             <= records[p].spentTotal + inflight[p].spend
        /\ JobSum(SendersOn(p), req) \in Int
    BY CountTypes DEF Covered, CoveredOn
  <2>4. inflight'[p].spend = inflight[p].spend - a
    BY <1>3
  <2>5. BootFile[p].spentTotal + JobSum(SendersOn(p)', req') + OpSum(DueOn(p), ops)
             <= records[p].spentTotal + inflight'[p].spend
    BY <2>2, <2>3, <2>4, CountTypes
  <2> QED
    BY <1>3, <1>5, <2>2, <2>5 DEF CoveredOn
<1> QED
  BY <1>6, <1>7 DEF Covered

\* A step that changes op i only, and leaves it due or not due as it was.
LEMMA CoverKeeps ==
    ASSUME IInv, Covered, NEW i \in DOMAIN ops, DOMAIN ops' = DOMAIN ops,
           \A j \in DOMAIN ops : j # i => ops'[j] = ops[j],
           ops'[i].perm = ops[i].perm, ops'[i].amt = ops[i].amt, Due(i)' <=> Due(i),
           \A h \in Handlers : /\ (req[h].phase = "submit") <=> (req'[h].phase = "submit")
                               /\ req[h].phase = "submit" => req'[h].job = req[h].job,
           \A p \in Perms : records'[p].spentTotal + inflight'[p].spend = records[p].spentTotal + inflight[p].spend
    PROVE  Covered'
<1> SUFFICES ASSUME NEW p \in Perms PROVE CoveredOn(p)'
  BY DEF Covered
<1>1. SendersOn(p)' = SendersOn(p) /\ \A h \in SendersOn(p) : req'[h].job = req[h].job
  BY DEF SendersOn
<1>2. DueOn(p)' = DueOn(p) /\ \A j \in DueOn(p) : ops'[j].amt = ops[j].amt
  <2>1. \A j \in DOMAIN ops : (Due(j)' <=> Due(j)) /\ ops'[j].perm = ops[j].perm /\ ops'[j].amt = ops[j].amt
    BY DEF Due
  <2> QED
    BY <2>1 DEF DueOn
<1>3. records'[p].spentTotal + inflight'[p].spend = records[p].spentTotal + inflight[p].spend + 0
  BY CountTypes
<1> QED
  BY <1>1, <1>2, <1>3, CoverRests DEF Covered

LEMMA CoverReturns ==
    ASSUME IInv, Covered, AwaitedFresh, NEW h \in Handlers, SubmitReturns(h)
    PROVE  Covered'
<1>1. PICK i \in DOMAIN ops :
              /\ req[h].phase = "sent" /\ req[h].op = i
              /\ DOMAIN ops' = DOMAIN ops /\ \A j \in DOMAIN ops : j # i => ops'[j] = ops[j]
              /\ ops'[i].perm = ops[i].perm /\ ops'[i].amt = ops[i].amt
              /\ ops'[i].watch = "polling"
              /\ req'[h].phase \notin {"submit", "sent"}
              /\ \A g \in Handlers : g # h => req'[g] = req[g]
              /\ UNCHANGED <<records, inflight>>
  BY ReturnPasses
<1>2. ops[i].watch = "none"
  BY <1>1 DEF AwaitedFresh
<1>3. Due(i) /\ Due(i)'
  BY <1>1, <1>2 DEF Due
<1> QED
  BY <1>1, <1>3, CoverKeeps

\* A settlement charges what it releases, or releases what can no longer land.
LEMMA CoverSettles ==
    ASSUME IInv, Covered, NEW i \in DOMAIN ops, SettleReverted(i) \/ \E ok \in WriteOutcomes : SettleSuccess(i, ok)
    PROVE  Covered'
<1>1. PICK p \in Perms, k \in Keys, a \in Nat : ops[i].perm = p /\ ops[i].key = k /\ ops[i].amt = a
  BY OpTypes DEF Op
<1>2. /\ ops[i].watch = "polling" /\ ops' = [ops EXCEPT ![i].watch = "settled"] /\ req' = req
      /\ ReleaseInflight(p, a, k)
  BY <1>1 DEF SettleReverted, SettleSuccess, ReleaseReservation, CommitReservation
<1>3. /\ \A q \in Perms : q # p => inflight'[q] = inflight[q]
      /\ inflight'[p] = [txs |-> inflight[p].txs \ {k}, spend |-> inflight[p].spend - a]
  BY <1>1, <1>2, SettleReleases
<1>4. /\ DOMAIN ops' = DOMAIN ops /\ \A j \in DOMAIN ops : j # i => ops'[j] = ops[j]
      /\ ops'[i].perm = ops[i].perm /\ ops'[i].amt = ops[i].amt
      /\ ops'[i].watch = "settled" /\ ops'[i].status = ops[i].status
  BY <1>2, OpWatchSet
<1>5. ASSUME NEW ok \in WriteOutcomes, SettleSuccess(i, ok) PROVE Covered'
  <2>1. RecordMirror(p, a, k, ok) /\ ops[i].status = "success"
    BY <1>1, <1>5 DEF SettleSuccess, CommitReservation
  <2>2. records'[p].spentTotal = records[p].spentTotal + a /\ records' = [records EXCEPT ![p] = records'[p]]
    BY <2>1, ChargeGrows
  <2>3. \A q \in Perms : q # p => records'[q] = records[q]
    BY <2>2 DEF IInv, TypeOK, RegTypeOK
  <2>4. records'[p].spentTotal + inflight'[p].spend = records[p].spentTotal + inflight[p].spend
    <3>1. inflight'[p].spend = inflight[p].spend - a
      BY <1>3
    <3> QED
      BY <2>2, <3>1, CountTypes
  <2>5. \A q \in Perms : records'[q].spentTotal + inflight'[q].spend = records[q].spentTotal + inflight[q].spend
    BY <1>3, <2>3, <2>4
  <2>6. Due(i) /\ Due(i)'
    BY <1>2, <1>4, <2>1 DEF Due
  <2> QED
    BY <1>2, <1>4, <2>5, <2>6, CoverKeeps
<1>6. CASE SettleReverted(i)
  <2>0. records' = records /\ ops[i].status = "reverted"
    BY <1>6 DEF SettleReverted
  <2>1. \A q \in Perms : SendersOn(q)' = SendersOn(q)
    BY <1>2 DEF SendersOn
  <2>2. ASSUME NEW q \in Perms, q # p PROVE CoveredOn(q)'
    <3>1. DueOn(q)' = DueOn(q) /\ \A j \in DueOn(q) : ops'[j] = ops[j]
      BY <1>1, <1>4, <2>2 DEF DueOn, Due
    <3>2. records'[q].spentTotal + inflight'[q].spend = records[q].spentTotal + inflight[q].spend + 0
      BY <1>3, <2>0, <2>2, CountTypes
    <3> QED
      BY <1>2, <2>1, <3>1, <3>2, CoverRests DEF Covered
  <2>3. CoveredOn(p)'
    <3> DEFINE H == SendersOn(p)
               I == DueOn(p)
               J == DueOn(p)'
    <3>1. OneMore(J, i, I) /\ \A j \in J : ops'[j] = ops[j]
      BY <1>1, <1>2, <1>4, <2>0 DEF DueOn, Due, OneMore
    <3>2. OpsWorth(J, ops, ops') /\ ops[i].amt \in Int
      BY <3>1, CountTypes DEF OpsWorth, OneMore
    <3>3. IsFiniteSet(I)
      BY CountTypes
    <3>4. /\ BootFile[p].spentTotal + JobSum(H, req) + OpSum(I, ops) <= records[p].spentTotal + inflight[p].spend
          /\ JobSum(H, req) \in Int /\ IsFiniteSet(H)
      BY CountTypes DEF Covered, CoveredOn
    <3>5. inflight'[p].spend = inflight[p].spend - a
      BY <1>3
    <3> HIDE DEF H, I, J
    <3>6. OpSum(J, ops') = OpSum(I, ops) - ops[i].amt /\ OpSum(I, ops) \in Int
      BY <3>1, <3>2, <3>3, OpSumLess
    <3>7. BootFile[p].spentTotal + JobSum(H, req) + OpSum(J, ops') <= records[p].spentTotal + inflight'[p].spend
      BY <1>1, <3>4, <3>5, <3>6, CountTypes
    <3> QED
      BY <1>2, <2>0, <2>1, <3>4, <3>7 DEF CoveredOn, H, J
  <2> QED
    BY <2>2, <2>3 DEF Covered
<1> QED
  BY <1>5, <1>6

\* A timeout gives nothing back, and the chain executes ops that nobody has settled yet.
LEMMA CoverStays ==
    ASSUME IInv, Covered, SettledKnown, NEW i \in DOMAIN ops, SettleTimeout(i) \/ OpSucceeds(i) \/ OpReverts(i)
    PROVE  Covered'
<1>1. req' = req /\ UNCHANGED <<records, inflight>>
  BY DEF SettleTimeout, OpSucceeds, OpReverts, regVars
<1>2. /\ DOMAIN ops' = DOMAIN ops /\ \A j \in DOMAIN ops : j # i => ops'[j] = ops[j]
      /\ ops'[i].perm = ops[i].perm /\ ops'[i].amt = ops[i].amt
      /\ Due(i) /\ Due(i)'
  <2>1. CASE SettleTimeout(i)
    <3>1. ops[i].watch = "polling" /\ ops' = [ops EXCEPT ![i].watch = "gaveup"]
      BY <2>1 DEF SettleTimeout
    <3>2. /\ DOMAIN ops' = DOMAIN ops /\ \A j \in DOMAIN ops : j # i => ops'[j] = ops[j]
          /\ ops'[i].perm = ops[i].perm /\ ops'[i].amt = ops[i].amt /\ ops'[i].watch = "gaveup"
      BY <3>1, OpWatchSet
    <3> QED
      BY <3>1, <3>2 DEF Due
  <2>2. CASE OpSucceeds(i) \/ OpReverts(i)
    BY <2>2, OpStatusSet DEF OpSucceeds, OpReverts, Due, SettledKnown
  <2> QED
    BY <2>1, <2>2
<1> QED
  BY <1>1, <1>2, CoverKeeps

\* Nothing moves, or a plan fails after its reserve: no less is counted than before.
LEMMA CoverLeaks ==
    ASSUME IInv, Covered, MirrorsRest \/ \E h \in Handlers, p \in Perms : FanBuildThrows(h, p)
    PROVE  Covered'
<1>1. CASE MirrorsRest
  <2> SUFFICES ASSUME NEW p \in Perms PROVE CoveredOn(p)'
    BY DEF Covered
  <2>1. SendersOn(p)' = SendersOn(p) /\ \A h \in SendersOn(p) : req'[h].job = req[h].job
    BY <1>1 DEF MirrorsRest, SendersOn, Submitting
  <2>2. DueOn(p)' = DueOn(p) /\ ops' = ops
    BY <1>1 DEF MirrorsRest, DueOn, Due
  <2>3. records'[p].spentTotal + inflight'[p].spend = records[p].spentTotal + inflight[p].spend + 0
    BY <1>1, CountTypes DEF MirrorsRest
  <2> QED
    BY <2>1, <2>2, <2>3, CoverRests DEF Covered
<1>2. ASSUME NEW h \in Handlers, NEW p \in Perms, FanBuildThrows(h, p) PROVE Covered'
  <2>0. req \in [Handlers -> HandlerState] /\ inflight \in [Perms -> Booking]
    BY DEF IInv, TypeOK, RegTypeOK
  <2> DEFINE s == [req[h] EXCEPT !.fan = @ \ {p}]
  <2>1. /\ req[h].phase = "fan" /\ Reserve(p, Amount(h, p), SpendKey(Activity(h))) /\ Becomes(h, s)
        /\ records' = records /\ ops' = ops
    BY <1>2 DEF FanBuildThrows, Runs, envVars
  <2>2. s.phase = "fan"
    BY <2>0, <2>1 DEF HandlerState
  <2>3. Amount(h, p) \in Nat
    <3>1. InPayload(h) /\ Wants(h, p) /\ TypeOK
      BY <1>2, <2>1 DEF FanBuildThrows, IInv, HandlersOK, HandlerOK
    <3> QED
      BY <3>1, AmountType
  <2> HIDE DEF s
  <2>4. req'[h].phase = "fan" /\ \A g \in Handlers : g # h => req'[g] = req[g]
    BY <2>0, <2>1, <2>2 DEF Becomes
  <2>5. PICK a \in Nat : a = Amount(h, p)
    BY <2>3
  <2>6. inflight'[p].spend = inflight[p].spend + a /\ \A q \in Perms : q # p => inflight'[q] = inflight[q]
    BY <2>0, <2>1, <2>5 DEF Reserve
  <2>7. ASSUME NEW q \in Perms PROVE CoveredOn(q)'
    <3>1. SendersOn(q)' = SendersOn(q) /\ \A g \in SendersOn(q) : req'[g].job = req[g].job
      BY <2>1, <2>4 DEF SendersOn
    <3>2. DueOn(q)' = DueOn(q)
      BY <2>1 DEF DueOn, Due
    <3>3. \E b \in Nat : records'[q].spentTotal + inflight'[q].spend = records[q].spentTotal + inflight[q].spend + b
      <4>1. CASE q = p
        BY <2>1, <2>6, <4>1, CountTypes
      <4>2. CASE q # p
        <5>1. records'[q].spentTotal + inflight'[q].spend = records[q].spentTotal + inflight[q].spend + 0
          BY <2>1, <2>6, <4>2, CountTypes
        <5> QED
          BY <5>1
      <4> QED
        BY <4>1, <4>2
    <3> QED
      BY <2>1, <3>1, <3>2, <3>3, CoverRests DEF Covered
  <2> QED
    BY <2>7 DEF Covered
<1> QED
  BY <1>1, <1>2

-----------------------------------------------------------------------------
(* The other parts of the invariant.                                       *)

\* Nothing is known to be settled or awaited that was not, and no mirror changes its worth.
LEMMA OpsRest ==
    ASSUME IInv, CountInv, ops' = ops,
           \A h \in Handlers : /\ Submitting(h)' => Submitting(h) /\ req'[h].job = req[h].job
                               /\ req'[h].phase = "sent" => req[h].phase = "sent" /\ req'[h].op = req[h].op
    PROVE  SettledKnown' /\ AwaitedFresh' /\ TriggersWorth'
<1>1. SettledKnown' /\ AwaitedFresh'
  BY DEF CountInv, SettledKnown, AwaitedFresh
<1>2. TriggersWorth'
  BY DEF CountInv, TriggersWorth, TriggerWorth
<1> QED
  BY <1>1, <1>2

\* Op i changes its status or its watcher and no handler waits for it.
LEMMA OpMoves ==
    ASSUME IInv, CountInv, NEW i \in DOMAIN ops, DOMAIN ops' = DOMAIN ops,
           \A j \in DOMAIN ops : j # i => ops'[j] = ops[j],
           ops'[i].perm = ops[i].perm, ops'[i].amt = ops[i].amt, ops'[i].by = ops[i].by,
           ops'[i].watch = "settled" => ops'[i].status # "mempool",
           ops'[i].watch = ops[i].watch \/ \A h \in Handlers : req'[h].phase = "sent" => req[h].op # i,
           \A h \in Handlers : /\ Submitting(h)' => Submitting(h) /\ req'[h].job = req[h].job
                               /\ req'[h].phase = "sent" => req[h].phase = "sent" /\ req'[h].op = req[h].op
    PROVE  SettledKnown' /\ AwaitedFresh' /\ TriggersWorth'
<1>1. SettledKnown'
  BY DEF CountInv, SettledKnown
<1>2. AwaitedFresh'
  BY OpTypes DEF CountInv, AwaitedFresh
<1>3. \A j \in DOMAIN ops : ops'[j].perm = ops[j].perm /\ ops'[j].amt = ops[j].amt /\ ops'[j].by = ops[j].by
  OBVIOUS
<1>4. TriggersWorth'
  BY <1>3 DEF CountInv, TriggersWorth, TriggerWorth
<1> QED
  BY <1>1, <1>2, <1>4

\* A watched op is not awaited.
LEMMA WatchedNotAwaited ==
    ASSUME IInv, CountInv, NEW i \in DOMAIN ops, ops[i].watch # "none"
    PROVE  \A h \in Handlers : req[h].phase = "sent" => req[h].op # i
BY DEF CountInv, AwaitedFresh

LEMMA SettleSides ==
    ASSUME IInv, CountInv, NEW i \in DOMAIN ops, Settle(i) \/ OpSucceeds(i) \/ OpReverts(i)
    PROVE  SettledKnown' /\ AwaitedFresh' /\ TriggersWorth'
<1>0. req' = req /\ \A h \in Handlers : Submitting(h)' => Submitting(h)
  BY DEF Settle, SettleSuccess, SettleReverted, SettleTimeout, OpSucceeds, OpReverts, Submitting
<1>1. CASE OpSucceeds(i) \/ OpReverts(i)
  <2>1. PICK status \in {"success", "reverted"} : ops' = [ops EXCEPT ![i].status = status]
    BY <1>1 DEF OpSucceeds, OpReverts
  <2>2. /\ DOMAIN ops' = DOMAIN ops /\ \A j \in DOMAIN ops : j # i => ops'[j] = ops[j]
        /\ ops'[i].perm = ops[i].perm /\ ops'[i].amt = ops[i].amt /\ ops'[i].by = ops[i].by
        /\ ops'[i].status # "mempool" /\ ops'[i].watch = ops[i].watch
    BY <2>1, OpStatusSet
  <2> QED
    BY <1>0, <2>2, OpMoves
<1>2. CASE Settle(i)
  <2>1. PICK watch : /\ ops[i].watch = "polling" /\ ops' = [ops EXCEPT ![i].watch = watch]
                     /\ watch = "settled" => ops[i].status # "mempool"
    BY <1>2 DEF Settle, SettleSuccess, SettleReverted, SettleTimeout
  <2>2. /\ DOMAIN ops' = DOMAIN ops /\ \A j \in DOMAIN ops : j # i => ops'[j] = ops[j]
        /\ ops'[i].perm = ops[i].perm /\ ops'[i].amt = ops[i].amt /\ ops'[i].by = ops[i].by
        /\ ops'[i].status = ops[i].status /\ ops'[i].watch = watch
    BY <2>1, OpWatchSet
  <2>3. \A h \in Handlers : req'[h].phase = "sent" => req[h].op # i
    BY <1>0, <2>1, WatchedNotAwaited
  <2> QED
    BY <1>0, <2>1, <2>2, <2>3, OpMoves
<1> QED
  BY <1>1, <1>2

LEMMA JoinSides ==
    ASSUME IInv, CountInv, NEW h \in Handlers, NEW p \in Perms, NEW k \in Keys, NEW a \in Nat, Joins(h, p, k, a)
    PROVE  SettledKnown' /\ AwaitedFresh' /\ TriggersWorth'
<1>1. \A g \in Handlers : g # h => req'[g] = req[g]
  BY DEF Joins
<1>2. SettledKnown' /\ AwaitedFresh'
  BY <1>1 DEF Joins, CountInv, SettledKnown, AwaitedFresh
<1>3. \A g \in Handlers : Submitting(g)' => TriggerWorth(g, req'[g].job.perm, req'[g].job.amt)
  BY <1>1 DEF Joins, CountInv, TriggersWorth, TriggerWorth, Submitting
<1>4. TriggersWorth'
  BY <1>3 DEF Joins, CountInv, TriggersWorth, TriggerWorth
<1> QED
  BY <1>2, <1>4

LEMMA SubmitSides ==
    ASSUME IInv, CountInv, NEW h \in Handlers, BundlerAccepts(h) \/ SubmitThrows(h) \/ SubmitReturns(h)
    PROVE  SettledKnown' /\ AwaitedFresh' /\ TriggersWorth'
<1>1. CASE BundlerAccepts(h)
  <2>1. PICK n : /\ n \notin DOMAIN ops /\ DOMAIN ops' = DOMAIN ops \union {n}
                 /\ \A i \in DOMAIN ops : ops'[i] = ops[i]
                 /\ ops'[n].perm = req[h].job.perm /\ ops'[n].amt = req[h].job.amt
                 /\ ops'[n].by = h /\ ops'[n].watch = "none" /\ req[h].phase = "submit"
                 /\ req'[h].phase = "sent" /\ req'[h].op = n /\ req'[h].job = req[h].job
                 /\ \A g \in Handlers : g # h => req'[g] = req[g]
    BY <1>1, AcceptAppends
  <2>2. SettledKnown'
    BY <2>1 DEF CountInv, SettledKnown
  <2>3. AwaitedFresh'
    BY <2>1, OpTypes DEF CountInv, AwaitedFresh
  <2>4. TriggersWorth'
    <3>1. ASSUME NEW g \in Handlers, Submitting(g)' PROVE TriggerWorth(g, req'[g].job.perm, req'[g].job.amt)
      BY <2>1, <3>1 DEF CountInv, TriggersWorth, Submitting
    <3>2. ASSUME NEW i \in DOMAIN ops' PROVE TriggerWorth(ops'[i].by, ops'[i].perm, ops'[i].amt)
      <4>1. CASE i = n
        BY <2>1, <4>1 DEF CountInv, TriggersWorth, Submitting
      <4>2. CASE i # n
        BY <2>1, <4>2 DEF CountInv, TriggersWorth
      <4> QED
        BY <4>1, <4>2
    <3> QED
      BY <3>1, <3>2 DEF TriggersWorth, TriggerWorth
  <2> QED
    BY <2>2, <2>3, <2>4
<1>2. CASE SubmitThrows(h)
  <2>1. req[h].job \in Jobs
    BY <1>2 DEF SubmitThrows, Awaits, IInv, TypeOK
  <2>2. PICK p \in Perms, k \in Keys, a \in Nat :
            req[h].job.perm = p /\ req[h].job.key = k /\ req[h].job.amt = a
    BY <2>1 DEF Jobs
  <2>3. OnlyMoves(h) /\ req'[h].phase \notin {"submit", "sent"} /\ ops' = ops
    BY <1>2, <2>2, ThrowReleases
  <2> QED
    BY <2>3, OpsRest DEF OnlyMoves, Submitting
<1>3. CASE SubmitReturns(h)
  <2>1. PICK i \in DOMAIN ops :
              /\ req[h].phase = "sent" /\ req[h].op = i
              /\ DOMAIN ops' = DOMAIN ops /\ \A j \in DOMAIN ops : j # i => ops'[j] = ops[j]
              /\ ops'[i].perm = ops[i].perm /\ ops'[i].amt = ops[i].amt /\ ops'[i].by = ops[i].by
              /\ ops'[i].watch = "polling"
              /\ req'[h].phase \notin {"submit", "sent"}
              /\ \A g \in Handlers : g # h => req'[g] = req[g]
    BY <1>3, ReturnPasses
  <2>2. \A g \in Handlers : req'[g].phase = "sent" => req[g].op # i
    <3> SUFFICES ASSUME NEW g \in Handlers, req'[g].phase = "sent", req[g].op = i PROVE FALSE
      OBVIOUS
    <3>1. g # h /\ req[g].phase = "sent"
      BY <2>1
    <3>2. /\ req[g].job.perm = ops[i].perm /\ req[g].job.key = ops[i].key
          /\ req[h].job.perm = ops[i].perm /\ req[h].job.key = ops[i].key
      BY <2>1, <3>1, OpTypes
    <3> QED
      BY <2>1, <3>1, <3>2 DEF IInv, OwnersDistinct, Submitting
  <2>3. \A g \in Handlers : /\ Submitting(g)' => Submitting(g) /\ req'[g].job = req[g].job
                            /\ req'[g].phase = "sent" => req[g].phase = "sent" /\ req'[g].op = req[g].op
    BY <2>1 DEF Submitting
  <2> QED
    BY <2>1, <2>2, <2>3, OpMoves
<1> QED
  BY <1>1, <1>2, <1>3

LEMMA RestSides ==
    ASSUME IInv, CountInv, MirrorsRest \/ \E h \in Handlers, p \in Perms : FanBuildThrows(h, p)
    PROVE  SettledKnown' /\ AwaitedFresh' /\ TriggersWorth'
<1>1. CASE MirrorsRest
  BY <1>1, OpsRest DEF MirrorsRest, Submitting
<1>2. ASSUME NEW h \in Handlers, NEW p \in Perms, FanBuildThrows(h, p)
      PROVE  SettledKnown' /\ AwaitedFresh' /\ TriggersWorth'
  <2>0. req \in [Handlers -> HandlerState]
    BY DEF IInv, TypeOK
  <2> DEFINE s == [req[h] EXCEPT !.fan = @ \ {p}]
  <2>1. req[h].phase = "fan" /\ Becomes(h, s) /\ ops' = ops
    BY <1>2 DEF FanBuildThrows, Runs, envVars
  <2>2. s.phase = "fan"
    BY <2>0, <2>1 DEF HandlerState
  <2> HIDE DEF s
  <2>3. req'[h].phase = "fan" /\ \A g \in Handlers : g # h => req'[g] = req[g]
    BY <2>0, <2>1, <2>2 DEF Becomes
  <2> QED
    BY <2>1, <2>3, OpsRest DEF Submitting
<1> QED
  BY <1>1, <1>2

LEMMA CountStep ==
    ASSUME IInv, AbsentIsFresh, CountInv, MaxCrashes = 0, ~LostReplies, [Next]_vars
    PROVE  CountInv'
<1>0. ~Crash /\ \A h \in Handlers : ~ReplyLost(h)
  BY DEF IInv, TypeOK, Crash, ReplyLost
<1> USE DEF CountInv
<1>1. ASSUME NEW h \in Handlers, SubmitStep(h) PROVE CountInv'
  BY <1>0, <1>1, CoverAccepts, CoverThrows, CoverReturns, SubmitSides DEF SubmitStep
<1>2. ASSUME NEW i \in DOMAIN ops, Settle(i) \/ OpSucceeds(i) \/ OpReverts(i) PROVE CountInv'
  BY <1>2, CoverSettles, CoverStays, SettleSides DEF Settle
<1>3. ASSUME NEW h \in Handlers, NEW p \in Perms, NEW k \in Keys, NEW a \in Nat, Joins(h, p, k, a) PROVE CountInv'
  BY <1>3, CoverJoins, JoinSides
<1>4. CASE MirrorsRest \/ \E h \in Handlers, p \in Perms : FanBuildThrows(h, p)
  BY <1>4, CoverLeaks, RestSides
<1> QED
  BY <1>0, <1>1, <1>2, <1>3, <1>4, MirrorMoves

LEMMA CountStarts ==
    ASSUME Init
    PROVE  CountInv
<1>1. ops = <<>> /\ \A h \in Handlers : req[h].phase = "idle"
  BY DEF Init, Idle
<1>2. SettledKnown /\ AwaitedFresh /\ TriggersWorth
  BY <1>1 DEF SettledKnown, AwaitedFresh, TriggersWorth, Submitting
<1>3. ASSUME NEW p \in Perms PROVE CoveredOn(p)
  <2>1. SendersOn(p) = {} /\ DueOn(p) = {}
    BY <1>1 DEF SendersOn, DueOn
  <2>2. records[p] = BootFile[p] /\ inflight[p].spend = 0 /\ BootFile[p].spentTotal \in Int
    BY BootAssumption DEF Init, RegInit, NoBooking, CopyRecord
  <2>3. JobSum({}, req) = 0 /\ OpSum({}, ops) = 0 /\ IsFiniteSet({})
    BY NoSums, FS_EmptySet
  <2> QED
    BY <2>1, <2>2, <2>3 DEF CoveredOn
<1> QED
  BY <1>2, <1>3 DEF CountInv, Covered

-----------------------------------------------------------------------------
(* What is drawn on-chain is at most what is due.                          *)

\* An op draws no more than its amount.
LEMMA DrawIsAmount ==
    ASSUME IInv, OneApprove, TriggersWorth, NEW i \in DOMAIN ops
    PROVE  Draw(ops[i]) \in Int /\ Draw(ops[i]) <= ops[i].amt
<1> DEFINE o == ops[i]
           r == Request[o.by]
           A == CapApproves(r.calls, Scope[o.perm])
           f == [j \in A |-> r.calls[j].amount]
<1>0. o \in Op /\ o.amt \in Nat /\ o.by \in Handlers
  BY OpTypes DEF Op
<1>1. CASE r.kind = "trigger"
  <2>1. /\ o.perm = r.perm /\ o.amt = TriggerSpend(o.by)
        /\ \A j \in DOMAIN r.calls : r.calls[j].amount \in Nat
    BY <1>0, <1>1, RequestAssumption DEF TriggersWorth, TriggerWorth, Kind, WellFormedRequest
  <2>2. A \subseteq DOMAIN r.calls /\ \A m, n \in A : m = n
    BY <1>0, <1>1, <2>1 DEF CapApproves, OneApprove, Kind
  <2>3. Draw(o) = SumFunction(f)
    BY <1>1 DEF Draw
  <2>4. DOMAIN f = A /\ \A j \in A : f[j] = r.calls[j].amount /\ f[j] \in Int
    BY <2>1, <2>2
  <2>5. o.amt = r.calls[CHOOSE m \in A : \A n \in A : m <= n].amount
    BY <2>1 DEF TriggerSpend, DeriveSpendFromCalls
  <2> HIDE DEF f
  <2>6. CASE A = {}
    BY <1>0, <2>3, <2>4, <2>6, SumOfNone
  <2>7. ASSUME NEW k \in A PROVE Draw(o) \in Int /\ Draw(o) <= o.amt
    <3>1. A = {k}
      BY <2>2
    <3>2. SumFunction(f) = f[k]
      BY <2>4, <3>1, SumOfOne
    <3>3. k \in Nat
      BY <1>0, <1>1, <2>2, RequestAssumption DEF WellFormedRequest
    <3>4. (CHOOSE m \in A : \A n \in A : m <= n) = k
      <4> HIDE DEF A
      <4> QED
        BY <3>1, <3>3
    <3>5. o.amt = r.calls[k].amount
      BY <2>5, <3>4
    <3>6. Draw(o) = r.calls[k].amount /\ r.calls[k].amount \in Int
      BY <2>3, <2>4, <3>2
    <3> HIDE DEF o, r
    <3> QED
      BY <3>5, <3>6
  <2> QED
    BY <2>6, <2>7
<1>2. CASE r.kind # "trigger"
  BY <1>0, <1>2 DEF Draw
<1> QED
  BY <1>1, <1>2

LEMMA CountImplies ==
    ASSUME IInv, OneApprove, CountInv
    PROVE  NeverUnderCounts
<1> SUFFICES ASSUME NEW p \in Perms
             PROVE  BootFile[p].spentTotal + SumFunction([i \in MayLand(p) |-> Draw(ops[i])])
                        <= records[p].spentTotal + inflight[p].spend
  BY DEF NeverUnderCounts
<1> DEFINE M == MayLand(p)
           D == DueOn(p)
           draws == [i \in M |-> Draw(ops[i])]
           dues == [i \in D |-> ops[i].amt]
<1>1. M \subseteq D /\ D \subseteq DOMAIN ops /\ IsFiniteSet(D)
  BY CountTypes DEF MayLand, DueOn, Due
<1>2. \A i \in D : ops[i].amt \in Nat /\ Draw(ops[i]) \in Int /\ Draw(ops[i]) <= ops[i].amt
  BY <1>1, MirrorTypes, DrawIsAmount DEF CountInv
<1>3. DOMAIN draws = M /\ DOMAIN dues = D /\ \A i \in M : draws[i] = Draw(ops[i])
  OBVIOUS
<1>4. \A i \in D : dues[i] = ops[i].amt
  OBVIOUS
<1> HIDE DEF M, D, draws, dues
<1>5. SumFunction(draws) \in Int /\ SumFunction(dues) \in Int /\ SumFunction(draws) <= SumFunction(dues)
  <2>1. \A i \in DOMAIN dues : dues[i] \in Nat
    BY <1>2, <1>3, <1>4
  <2>2. \A i \in DOMAIN draws : draws[i] \in Int /\ draws[i] <= dues[i]
    BY <1>1, <1>2, <1>3, <1>4
  <2>3. IsFiniteSet(DOMAIN dues) /\ DOMAIN draws \subseteq DOMAIN dues
    BY <1>1, <1>3
  <2> QED
    BY <2>1, <2>2, <2>3, SumOfFewer
<1>6. JobSum(SendersOn(p), req) \in Nat
  <2>1. IsFiniteSet(SendersOn(p))
    BY DEF CountInv, Covered, CoveredOn
  <2>2. \A h \in SendersOn(p) : req[h].job.amt \in Nat
    BY DEF SendersOn, IInv, TypeOK, Jobs
  <2> QED
    BY <2>1, <2>2, JobSumNat
<1>7. BootFile[p].spentTotal + JobSum(SendersOn(p), req) + SumFunction(dues) <= records[p].spentTotal + inflight[p].spend
  BY DEF CountInv, Covered, CoveredOn, OpSum, dues, D
<1> QED
  BY <1>5, <1>6, <1>7, CountTypes DEF draws, M

\* "never under-count a maybe-landed op" (server.ts settleMirror, copySession.ts reserve): what a
\* session has drawn on-chain, or may still draw with an op in the mempool, is charged or
\* reserved, for any requests, timeouts, failing writes and leaked plans, as long as the process
\* does not die, the bundler's answers arrive and a trigger approves the spend token once.
THEOREM NothingIsUnderCounted ==
    ASSUME MaxCrashes = 0, ~LostReplies, OneApprove
    PROVE  Spec => []NeverUnderCounts
<1>1. Init => CountInv
  BY CountStarts
<1>2. IInv /\ FileInv /\ CountInv /\ [Next]_vars => FileInv' /\ CountInv'
  BY FileKeeps, CountStep DEF FileInv
<1>3. IInv /\ CountInv => NeverUnderCounts
  BY CountImplies
<1> QED
  BY <1>1, <1>2, <1>3, InitFile, Invariant, PTL DEF Spec

-----------------------------------------------------------------------------
(* How far apart two mirrors on one lane are.                              *)

\* The n-th lane handed out of a ring that starts at lane 0 is lane l.
Turns(n, l) == \E q \in Nat : n = q * LaneMod + l

\* Every request that awaits submitMirror and every op, the finished ones included.
Holding == {AskedBy(h) : h \in {g \in Handlers : Asks(g)}} \union {SentAs(i) : i \in DOMAIN ops}

HolderOK(a) ==
    /\ a.ticket \in Nat /\ a.run \in Nat /\ a.lane \in Nat /\ a.follower \in Followers
    /\ a.run <= crashes
    /\ Turns(a.ticket, a.lane)
    /\ a.run = crashes => a.ticket < handed[a.follower]

SameTicket(a, b) == a.follower = b.follower /\ a.run = b.run /\ a.ticket = b.ticket

\* A ticket of one run of the process belongs to one mirror, and names its lane.
LaneInv ==
    /\ handed \in [Followers -> Nat] /\ ticket \in [Handlers -> Nat]
    /\ \A f \in Followers : Turns(handed[f], nonceCounters[f])
    /\ \A a \in Holding : HolderOK(a)
    /\ \A a, b \in Holding : SameTicket(a, b) => a = b

LEMMA HolderFields ==
    ASSUME NEW h, NEW i, NEW p, NEW lane, NEW run, NEW n
    PROVE  LET a == Holder(h, i, p, lane, run, n)
           IN  /\ a.by = h /\ a.op = i /\ a.follower = FollowerOf(p)
               /\ a.lane = lane /\ a.run = run /\ a.ticket = n
BY DEF Holder

LEMMA LaneTypes ==
    ASSUME IInv
    PROVE  /\ LaneMod \in Nat \ {0} /\ crashes \in Nat
           /\ \A p \in Perms : FollowerOf(p) \in Followers
           /\ \A f \in Followers : nonceCounters[f] \in 0 .. LaneMod - 1
           /\ \A h \in Handlers : Asks(h) => req[h].job.perm \in Perms /\ req[h].job.lane \in Nat
           /\ 0 \notin DOMAIN ops
<1>1. LaneMod \in Nat \ {0} /\ \A p \in Perms : FollowerOf(p) \in Followers
  BY ScopeAssumption DEF FollowerOf
<1>2. crashes \in Nat /\ \A f \in Followers : nonceCounters[f] \in 0 .. LaneMod - 1
  BY RequestAssumption DEF IInv, TypeOK, RegTypeOK
<1>3. \A h \in Handlers : Asks(h) => req[h].job.perm \in Perms /\ req[h].job.lane \in Nat
  BY <1>1 DEF IInv, TypeOK, Jobs, Asks
<1>4. 0 \notin DOMAIN ops
  <2>1. DOMAIN ops = 1 .. Len(ops) /\ Len(ops) \in Nat
    BY LenProperties DEF IInv, TypeOK
  <2> QED
    BY <2>1
<1> QED
  BY <1>1, <1>2, <1>3, <1>4

\* The ring: after lane c comes the next one, and after the last one the first.
LEMMA TurnsNext ==
    ASSUME LaneMod \in Nat \ {0}, NEW n \in Nat, NEW c \in 0 .. LaneMod - 1, Turns(n, c)
    PROVE  Turns(n + 1, (c + 1) % LaneMod)
<1>1. PICK q \in Nat : n = q * LaneMod + c
  BY DEF Turns
<1>2. CASE c = LaneMod - 1
  <2>1. (c + 1) % LaneMod = 0
    BY <1>2
  <2>2. n + 1 = (q + 1) * LaneMod + 0
    BY <1>1, <1>2
  <2>3. q + 1 \in Nat /\ n + 1 = (q + 1) * LaneMod + ((c + 1) % LaneMod)
    BY <2>1, <2>2
  <2> QED
    BY <2>3, Zenon DEF Turns
<1>3. CASE c # LaneMod - 1
  <2>1. c + 1 \in 0 .. LaneMod - 1
    BY <1>3
  <2>2. (c + 1) % LaneMod = c + 1
    BY <2>1
  <2>3. n + 1 = q * LaneMod + (c + 1)
    <3> DEFINE m == q * LaneMod
    <3>1. m \in Nat /\ n = m + c
      BY <1>1
    <3> HIDE DEF m
    <3>2. n + 1 = m + (c + 1)
      BY <3>1
    <3> QED
      BY <3>2 DEF m
  <2> QED
    BY <2>2, <2>3 DEF Turns
<1> QED
  BY <1>2, <1>3

\* Two different tickets of one lane are a whole round apart.
LEMMA RoundsApart ==
    ASSUME LaneMod \in Nat \ {0}, NEW m \in Nat, NEW n \in Nat, NEW l \in Nat,
           Turns(m, l), Turns(n, l), m # n
    PROVE  m + LaneMod <= n \/ n + LaneMod <= m
<1>1. PICK q \in Nat : m = q * LaneMod + l
  BY DEF Turns
<1>2. PICK r \in Nat : n = r * LaneMod + l
  BY DEF Turns
<1>3. \A x, y \in Nat : x < y => x * LaneMod + LaneMod <= y * LaneMod
  <2> SUFFICES ASSUME NEW x \in Nat, NEW y \in Nat, x < y PROVE x * LaneMod + LaneMod <= y * LaneMod
    OBVIOUS
  <2>1. PICK d \in Nat : y = x + 1 + d
    <3>1. y - (x + 1) \in Nat /\ y = x + 1 + (y - (x + 1))
      OBVIOUS
    <3> QED
      BY <3>1
  <2>2. y * LaneMod = x * LaneMod + LaneMod + d * LaneMod
    BY <2>1
  <2>3. x * LaneMod \in Nat /\ d * LaneMod \in Nat
    OBVIOUS
  <2> QED
    BY <2>2, <2>3
<1>4. q # r
  BY <1>1, <1>2
<1>5. q * LaneMod \in Nat /\ r * LaneMod \in Nat
  OBVIOUS
<1>6. q < r \/ r < q
  BY <1>4
<1> QED
  BY <1>1, <1>2, <1>3, <1>5, <1>6

LEMMA LanesImply ==
    ASSUME IInv, LaneInv
    PROVE  LanesRotate
<1>1. UnderWay \subseteq Holding
  BY DEF UnderWay, Holding
<1> SUFFICES ASSUME NEW a \in UnderWay, NEW b \in UnderWay, a # b, SameLane(a, b), a.run = b.run
             PROVE  a.ticket + LaneMod <= b.ticket \/ b.ticket + LaneMod <= a.ticket
  BY DEF LanesRotate
<1>2. HolderOK(a) /\ HolderOK(b) /\ ~ SameTicket(a, b)
  BY <1>1 DEF LaneInv
<1>3. a.ticket # b.ticket /\ a.lane = b.lane
  BY <1>2 DEF SameTicket, SameLane
<1> QED
  BY <1>2, <1>3, RoundsApart, LaneTypes DEF HolderOK

LEMMA LanesStart == LaneInit => LaneInv
<1> SUFFICES ASSUME Init, HistoryInit PROVE LaneInv
  BY DEF LaneInit
<1>1. Holding = {}
  BY DEF Holding, Init, Idle, Asks
<1>2. handed \in [Followers -> Nat] /\ ticket \in [Handlers -> Nat] /\ \A f \in Followers : handed[f] = 0
  BY DEF HistoryInit
<1>3. \A f \in Followers : nonceCounters[f] = 0
  BY DEF Init, RegInit
<1>4. Turns(0, 0)
  <2>1. 0 = 0 * LaneMod + 0
    BY ScopeAssumption
  <2> QED
    BY <2>1 DEF Turns
<1> QED
  BY <1>1, <1>2, <1>3, <1>4 DEF LaneInv

\* No request takes a lane, and no op is sent.
NoneTakes ==
    /\ \A h \in Handlers : Asks(h)' => Asks(h) /\ req'[h].job = req[h].job
    /\ DOMAIN ops' = DOMAIN ops
    /\ \A i \in DOMAIN ops : ops'[i].by = ops[i].by /\ ops'[i].perm = ops[i].perm /\ ops'[i].lane = ops[i].lane
    /\ UNCHANGED <<nonceCounters, crashes>>

LEMMA LanesRest ==
    ASSUME IInv, LaneInv, NoneTakes, Record \/ UNCHANGED history
    PROVE  LaneInv'
<1>1. \A h \in Handlers : \A f : ~ Takes(h, f)
  BY DEF NoneTakes, Takes
<1>2. handed' = handed
  BY <1>1 DEF Record, history, NoneTakes, LaneInv
<1>3. \A h \in Handlers : ticket'[h] = ticket[h]
  BY <1>1 DEF Record, history
<1>4. ticket' \in [Handlers -> Nat]
  <2>1. CASE UNCHANGED history
    BY <2>1 DEF history, LaneInv
  <2>2. CASE Record
    BY <1>1, <2>2 DEF Record, LaneInv
  <2> QED
    BY <2>1, <2>2
<1>5. \A i \in DOMAIN ops : sent'[i] = sent[i]
  BY DEF Record, history, NoneTakes
<1>6. Holding' \subseteq Holding
  <2>1. ASSUME NEW h \in Handlers, Asks(h)' PROVE Asks(h) /\ AskedBy(h)' = AskedBy(h)
    BY <1>3, <2>1 DEF NoneTakes, AskedBy
  <2>2. ASSUME NEW i \in DOMAIN ops PROVE SentAs(i)' = SentAs(i)
    BY <1>5 DEF NoneTakes, SentAs
  <2> QED
    BY <2>1, <2>2 DEF Holding, NoneTakes
<1>7. \A a \in Holding' : HolderOK(a)'
  BY <1>2, <1>6 DEF LaneInv, HolderOK, NoneTakes
<1> QED
  BY <1>2, <1>4, <1>6, <1>7 DEF LaneInv, NoneTakes

\* A request takes the lane of its account's counter: a ticket no mirror of this run has.
LEMMA LanesJoin ==
    ASSUME IInv, LaneInv, Record,
           NEW h \in Handlers, NEW p \in Perms, NEW k \in Keys, NEW a \in Nat, Joins(h, p, k, a)
    PROVE  LaneInv'
<1> DEFINE f == FollowerOf(p)
           c == nonceCounters[f]
<1>0. /\ f \in Followers /\ c \in 0 .. LaneMod - 1 /\ LaneMod \in Nat \ {0} /\ handed[f] \in Nat /\ crashes \in Nat
      /\ c \in Nat
  BY LaneTypes DEF LaneInv
<1>1. /\ ~ Asks(h) /\ Asks(h)' /\ req'[h].job.perm = p /\ req'[h].job.lane = c
      /\ \A g \in Handlers : g # h => req'[g] = req[g]
      /\ ops' = ops /\ crashes' = crashes
  BY DEF Joins, Submitting, Asks, FollowerOf
<1>2. \A e \in Followers : nonceCounters'[e] = IF e = f THEN (c + 1) % LaneMod ELSE nonceCounters[e]
  <2>1. nonceCounters' = [nonceCounters EXCEPT ![f] = (@ + 1) % LaneMod]
    BY DEF Joins, NextNonceKey, FollowerOf
  <2> QED
    BY <1>0, <2>1 DEF IInv, TypeOK, RegTypeOK
<1>3. Takes(h, f) /\ \A g \in Handlers : \A e : Takes(g, e) => g = h /\ e = f
  BY <1>1 DEF Takes, Asks
<1> HIDE DEF f, c
<1> PICK new : new = Holder(h, 0, p, c, crashes, handed[f])
  OBVIOUS
<1>4. /\ handed' \in [Followers -> Nat]
      /\ \A e \in Followers : handed'[e] = IF e = f THEN handed[f] + 1 ELSE handed[e]
  BY <1>0, <1>1, <1>3 DEF Record, LaneInv
<1>5. /\ ticket' \in [Handlers -> Nat]
      /\ ticket'[h] = handed[f] /\ \A g \in Handlers : g # h => ticket'[g] = ticket[g]
  <2>1. \A g \in Handlers : (\E e \in Followers : Takes(g, e)) <=> g = h
    BY <1>0, <1>3
  <2>2. FollowerOf(req'[h].job.perm) = f
    BY <1>1 DEF f
  <2> QED
    BY <1>0, <2>1, <2>2 DEF Record, LaneInv
<1>6. \A i \in DOMAIN ops : sent'[i] = sent[i]
  BY <1>1 DEF Record
<1>7. Holding' \subseteq Holding \union {new}
  <2>1. AskedBy(h)' = new
    BY <1>1, <1>5 DEF AskedBy
  <2>2. ASSUME NEW g \in Handlers, g # h, Asks(g)' PROVE Asks(g) /\ AskedBy(g)' = AskedBy(g)
    BY <1>1, <1>5, <2>2 DEF AskedBy, Asks
  <2>3. ASSUME NEW i \in DOMAIN ops PROVE SentAs(i)' = SentAs(i)
    BY <1>1, <1>6 DEF SentAs
  <2> QED
    BY <1>1, <2>1, <2>2, <2>3 DEF Holding
<1>8. /\ new.ticket = handed[f] /\ new.run = crashes /\ new.lane = c /\ new.follower = f
  BY HolderFields DEF f
<1>9. HolderOK(new)'
  BY <1>0, <1>1, <1>4, <1>8 DEF HolderOK, LaneInv, c
<1>10. \A x \in Holding : HolderOK(x)'
  <2> SUFFICES ASSUME NEW x \in Holding PROVE HolderOK(x)'
    OBVIOUS
  <2>1. HolderOK(x)
    BY DEF LaneInv
  <2> QED
    BY <1>0, <1>1, <1>4, <2>1 DEF HolderOK
<1>11. \A x \in Holding : ~ SameTicket(x, new)
  BY <1>0, <1>8 DEF LaneInv, HolderOK, SameTicket
<1>12. \A e \in Followers : Turns(handed'[e], nonceCounters'[e])
  BY <1>0, <1>2, <1>4, TurnsNext DEF LaneInv, c
<1>13. \A x, y \in Holding' : SameTicket(x, y) => x = y
  BY <1>7, <1>11 DEF LaneInv, SameTicket
<1> QED
  BY <1>4, <1>5, <1>7, <1>9, <1>10, <1>12, <1>13 DEF LaneInv, SameTicket

\* The op keeps the ticket of the request that sent it, which asks no more.
LEMMA LanesAccept ==
    ASSUME IInv, LaneInv, Record, NEW h \in Handlers, BundlerAccepts(h)
    PROVE  LaneInv'
<1>1. PICK n : /\ n \notin DOMAIN ops /\ DOMAIN ops' = DOMAIN ops \union {n}
               /\ \A i \in DOMAIN ops : ops'[i] = ops[i]
               /\ ops'[n].perm = req[h].job.perm /\ ops'[n].lane = req[h].job.lane /\ ops'[n].by = h
               /\ req[h].phase = "submit" /\ req'[h].phase = "sent"
               /\ \A g \in Handlers : g # h => req'[g] = req[g]
  BY AcceptAppends
<1>2. UNCHANGED <<nonceCounters, crashes>>
  BY DEF BundlerAccepts, regVars
<1>3. \A g \in Handlers : \A f : ~ Takes(g, f)
  BY <1>1 DEF Takes, Asks
<1>4. handed' = handed
  BY <1>2, <1>3 DEF Record, LaneInv
<1>5. ticket' \in [Handlers -> Nat] /\ \A g \in Handlers : ticket'[g] = ticket[g]
  BY <1>3 DEF Record, LaneInv
<1>6. /\ \A i \in DOMAIN ops : sent'[i] = sent[i]
      /\ sent'[n] = [run |-> crashes, ticket |-> ticket[h]]
  BY <1>1 DEF Record
<1> DEFINE old == AskedBy(h)
           new == Holder(h, n, req[h].job.perm, req[h].job.lane, crashes, ticket[h])
<1>7. old \in Holding
  BY <1>1 DEF Holding, Asks
<1>8. 0 \notin DOMAIN ops'
  <2>1. IInv'
    BY StepPreserves DEF Next, RequestStep, SubmitStep
  <2>2. DOMAIN ops' = 1 .. Len(ops') /\ Len(ops') \in Nat
    BY <2>1, LenProperties DEF IInv, TypeOK
  <2> QED
    BY <2>2
<1>9. \A x \in Holding' : (x \in Holding /\ x # old) \/ x = new
  <2>1. ASSUME NEW g \in Handlers, Asks(g)' PROVE g # h /\ Asks(g) /\ AskedBy(g)' = AskedBy(g)
    BY <1>1, <1>2, <1>5, <2>1 DEF AskedBy, Asks
  <2>2. ASSUME NEW i \in DOMAIN ops PROVE SentAs(i)' = SentAs(i)
    BY <1>1, <1>6 DEF SentAs
  <2>3. SentAs(n)' = new
    BY <1>1, <1>6 DEF SentAs
  <2>4. \A g \in Handlers : g # h => AskedBy(g) # old
    BY HolderFields DEF AskedBy
  <2>5. \A i \in DOMAIN ops : SentAs(i) # old
    BY <1>1, <1>8, HolderFields DEF SentAs, AskedBy
  <2> HIDE DEF old, new
  <2> QED
    BY <1>1, <2>1, <2>2, <2>3, <2>4, <2>5 DEF Holding
<1>10. /\ new.follower = old.follower /\ new.run = old.run /\ new.ticket = old.ticket /\ new.lane = old.lane
  BY HolderFields DEF AskedBy
<1> HIDE DEF old, new
<1>11. \A x \in Holding \union {new} : HolderOK(x)'
  <2>1. \A x \in Holding : HolderOK(x)'
    BY <1>2, <1>4 DEF LaneInv, HolderOK
  <2> QED
    BY <1>7, <1>10, <2>1 DEF HolderOK
<1>12. \A x, y \in Holding' : SameTicket(x, y) => x = y
  BY <1>7, <1>9, <1>10 DEF LaneInv, SameTicket
<1> QED
  BY <1>2, <1>4, <1>5, <1>9, <1>11, <1>12 DEF LaneInv

\* A new process: no request asks, and every op is of an earlier run.
LEMMA LanesRestart ==
    ASSUME IInv, LaneInv, Record, Crash
    PROVE  LaneInv'
<1>1. /\ crashes' = crashes + 1 /\ crashes' # crashes
      /\ \A f \in Followers : nonceCounters'[f] = 0
      /\ \A h \in Handlers : ~ Asks(h)'
  BY LaneTypes DEF Crash, Restart, Asks, Idle
<1>2. DOMAIN ops' = DOMAIN ops
  BY DEF Crash
<1>3. \A i \in DOMAIN ops : ops'[i].by = ops[i].by /\ ops'[i].perm = ops[i].perm /\ ops'[i].lane = ops[i].lane
  <2> SUFFICES ASSUME NEW i \in DOMAIN ops
               PROVE  ops'[i].by = ops[i].by /\ ops'[i].perm = ops[i].perm /\ ops'[i].lane = ops[i].lane
    OBVIOUS
  <2>1. ops[i] \in Op
    BY OpTypes
  <2>2. ops'[i] = ops[i] \/ ops'[i] = [ops[i] EXCEPT !.watch = "none"]
    BY DEF Crash
  <2> QED
    BY <2>1, <2>2 DEF Op
<1>4. handed' \in [Followers -> Nat] /\ \A f \in Followers : handed'[f] = 0
  BY <1>1 DEF Record
<1>5. ticket' \in [Handlers -> Nat]
  <2>1. \A h \in Handlers : \A f : ~ Takes(h, f)
    BY <1>1 DEF Takes
  <2> QED
    BY <2>1 DEF Record, LaneInv
<1>6. Holding' \subseteq Holding
  <2>1. ASSUME NEW i \in DOMAIN ops PROVE SentAs(i)' = SentAs(i)
    BY <1>2, <1>3 DEF SentAs, Record
  <2> QED
    BY <1>1, <1>2, <2>1 DEF Holding
<1>7. ASSUME NEW x \in Holding PROVE HolderOK(x)'
  <2>1. HolderOK(x) /\ crashes \in Nat
    BY LaneTypes DEF LaneInv
  <2> QED
    BY <1>1, <2>1 DEF HolderOK
<1>8. Turns(0, 0)
  <2>1. 0 = 0 * LaneMod + 0
    BY LaneTypes
  <2> QED
    BY <2>1 DEF Turns
<1> QED
  BY <1>1, <1>4, <1>5, <1>6, <1>7, <1>8 DEF LaneInv

\* Every step keeps the tickets apart.
LEMMA LanesStep ==
    ASSUME IInv, AbsentIsFresh, LaneInv, [LaneNext]_laneVars
    PROVE  LaneInv'
<1>0. [Next]_vars /\ (Record \/ UNCHANGED laneVars)
  BY DEF LaneNext, laneVars
<1>1. CASE UNCHANGED laneVars
  BY <1>1, LanesRest DEF laneVars, vars, regVars, envVars, NoneTakes, Asks
<1> SUFFICES ASSUME Record PROVE LaneInv'
  BY <1>0, <1>1
<1>2. CASE MirrorsRest
  BY <1>2, LanesRest DEF MirrorsRest, NoneTakes, Asks, Submitting
<1>3. ASSUME NEW h \in Handlers, NEW p \in Perms, FanBuildThrows(h, p) PROVE LaneInv'
  <2>1. req \in [Handlers -> HandlerState] /\ req[h] \in HandlerState
    BY DEF IInv, TypeOK
  <2> DEFINE s == [req[h] EXCEPT !.fan = @ \ {p}]
  <2>2. Becomes(h, s) /\ req[h].phase = "fan" /\ UNCHANGED <<nonceCounters, ops, crashes>>
    BY <1>3 DEF FanBuildThrows, Runs, envVars
  <2>3. s.phase = "fan"
    BY <2>1, <2>2 DEF HandlerState
  <2> HIDE DEF s
  <2>4. req'[h] = s /\ \A g \in Handlers : g # h => req'[g] = req[g]
    BY <2>1, <2>2 DEF Becomes
  <2> QED
    BY <2>2, <2>3, <2>4, LanesRest DEF NoneTakes, Asks
<1>4. ASSUME NEW h \in Handlers, SubmitStep(h) PROVE LaneInv'
  <2>1. CASE BundlerAccepts(h)
    BY <2>1, LanesAccept
  <2>2. CASE SubmitThrows(h) \/ ReplyLost(h)
    <3>1. PICK p \in Perms, k \in Keys, a \in Nat : req[h].job.perm = p /\ req[h].job.key = k /\ req[h].job.amt = a
      BY <2>2 DEF SubmitThrows, ReplyLost, Awaits, IInv, TypeOK, Jobs
    <3>2. OnlyMoves(h) /\ req'[h].phase \notin {"submit", "sent"} /\ UNCHANGED <<nonceCounters, ops, crashes>>
      BY <2>2, <3>1, ThrowReleases
    <3> QED
      BY <3>2, LanesRest DEF OnlyMoves, NoneTakes, Asks
  <2>3. CASE SubmitReturns(h)
    <3>1. UNCHANGED <<nonceCounters, crashes>>
      BY <2>3 DEF SubmitReturns, regVars
    <3> QED
      BY <2>3, <3>1, ReturnPasses, LanesRest DEF NoneTakes, Asks
  <2> QED
    BY <1>4, <2>1, <2>2, <2>3 DEF SubmitStep
<1>5. ASSUME NEW i \in DOMAIN ops, Settle(i) \/ OpSucceeds(i) \/ OpReverts(i) PROVE LaneInv'
  <2>1. req' = req /\ UNCHANGED <<nonceCounters, crashes>>
    BY <1>5 DEF Settle, SettleSuccess, SettleReverted, SettleTimeout, OpSucceeds, OpReverts, regVars
  <2>2. \/ \E watch : ops' = [ops EXCEPT ![i].watch = watch]
        \/ \E status : ops' = [ops EXCEPT ![i].status = status]
    BY <1>5 DEF Settle, SettleSuccess, SettleReverted, SettleTimeout, OpSucceeds, OpReverts
  <2>3. /\ DOMAIN ops' = DOMAIN ops
        /\ \A j \in DOMAIN ops : ops'[j].by = ops[j].by /\ ops'[j].perm = ops[j].perm /\ ops'[j].lane = ops[j].lane
    BY <2>2, OpWatchSet, OpStatusSet
  <2> QED
    BY <2>1, <2>3, LanesRest DEF NoneTakes, Asks
<1>6. CASE Crash
  BY <1>6, LanesRestart
<1>7. ASSUME NEW h \in Handlers, NEW p \in Perms, NEW k \in Keys, NEW a \in Nat, Joins(h, p, k, a) PROVE LaneInv'
  BY <1>7, LanesJoin
<1> QED
  BY <1>0, <1>2, <1>3, <1>4, <1>5, <1>6, <1>7, MirrorMoves

\* "concurrent ops never share a lane" (copySession.ts nextNonceKey), as far as the code makes it
\* true: of two mirrors of one account under way on the same lane, one was sent before the last
\* restart, or LaneMod mirrors of the account were sent between them.  It holds for any requests,
\* crashes, lost answers, leaked plans and failing writes, and any number of lanes.
THEOREM LanesAreRotated == LaneSpec => []LanesRotate
<1>1. LaneInit => Init
  BY DEF LaneInit
<1>2. [LaneNext]_laneVars => [Next]_vars
  BY DEF LaneNext, laneVars
<1>3. IInv /\ FileInv /\ [Next]_vars => FileInv'
  BY FileKeeps
<1>4. IInv /\ FileInv /\ LaneInv /\ [LaneNext]_laneVars => LaneInv'
  BY LanesStep DEF FileInv
<1>5. IInv /\ LaneInv => LanesRotate
  BY LanesImply
<1> QED
  BY <1>1, <1>2, <1>3, <1>4, <1>5, InitFile, LanesStart, InitEstablishes, StepPreserves, PTL DEF LaneSpec
=============================================================================
