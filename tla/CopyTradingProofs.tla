------------------------- MODULE CopyTradingProofs -------------------------
(***************************************************************************)
(* Proofs about CopyTrading for every value of its constants: the type     *)
(* invariant, the exposure cap and at-most-once charging, with crashes,    *)
(* failing file writes and lost bundler answers allowed.                   *)
(*                                                                         *)
(* None of the three is inductive.  What is missing is that a reservation  *)
(* is worth exactly what its owner will give back: a mirror being          *)
(* submitted, or an accepted op being polled, claims a key and an amount,  *)
(* and the claimed keys weigh what inflight[p].spend says.  A reservation  *)
(* nobody claims (a leaked one) keeps its weight for ever.                 *)
(***************************************************************************)
EXTENDS CopyTrading, Weighing, SequenceTheorems

\* The keys and amounts that the mirrors under way of session p will commit or release.
ClaimsOn(p) ==
    {<<req[h].job.key, req[h].job.amt>> : h \in SubmittersOn(p)}
      \union {<<ops[i].key, ops[i].amt>> : i \in BookedOn(p)}

\* Every claim is reserved, with its own weight in the reserved sum.
BookOK ==
    \A p \in Perms : \E w \in [Keys -> Nat] :
        /\ WeighsTo(inflight[p].txs, w, inflight[p].spend)
        /\ \A c \in ClaimsOn(p) : c[1] \in inflight[p].txs /\ w[c[1]] = c[2]

\* No two mirrors under way share a session and a key.
OwnersDistinct ==
    /\ \A g, h \in Handlers :
          Submitting(g) /\ Submitting(h) /\ req[g].job.perm = req[h].job.perm
            /\ req[g].job.key = req[h].job.key => g = h
    /\ \A i, j \in DOMAIN ops :
          Booked(i) /\ Booked(j) /\ ops[i].perm = ops[j].perm /\ ops[i].key = ops[j].key => i = j
    /\ \A h \in Handlers, i \in DOMAIN ops :
          ~ (Submitting(h) /\ Booked(i) /\ req[h].job.perm = ops[i].perm /\ req[h].job.key = ops[i].key)

\* A webhook handler looks at an activity of its push, and an accepted op is the one it submitted.
InPayload(h) == Kind(h) = "webhook" /\ req[h].pos \in 1 .. Len(Request[h].payload)
HandlerOK(h) ==
    /\ req[h].phase = "scan" => Kind(h) = "webhook" /\ req[h].pos # 0
    /\ req[h].phase = "fan" => InPayload(h)
    /\ req[h].phase \in {"relay", "relayed"} => Kind(h) = "revoke"
    /\ Submitting(h) /\ Kind(h) = "webhook" => InPayload(h)
    /\ req[h].phase = "sent" => /\ ops[req[h].op].perm = req[h].job.perm
                                /\ ops[req[h].op].key = req[h].job.key
                                /\ ops[req[h].op].amt = req[h].job.amt

DiskWithinCap == \A p \in Perms : disk[p].spentTotal <= Cap(p)

Budget == ExposureWithinCap /\ ChargedOnce /\ DiskWithinCap

HandlersOK == \A h \in Handlers : HandlerOK(h)

IInv == TypeOK /\ HandlersOK /\ OwnersDistinct /\ BookOK /\ Budget

-----------------------------------------------------------------------------
(* Types of what the handlers compute.                                     *)

\* The amount of a webhook mirror that passes the skip conditions is a natural number.
LEMMA AmountType ==
    ASSUME TypeOK, NEW h \in Handlers, InPayload(h), NEW p \in Perms, Wants(h, p)
    PROVE  Amount(h, p) \in Nat /\ SpendKey(Activity(h)) \in Keys
<1>1. Activity(h).value \in Int /\ SpendKey(Activity(h)) \in Keys
  BY RequestAssumption DEF WellFormedRequest, InPayload, Kind, Activity
<1>2. Scope[p].allocationBps \in Int /\ Scope[p].cap \in Int
  BY RequestAssumption, ScopeAssumption
<1>3. req[h].seen[p] \in Int
  BY DEF TypeOK, HandlerState
<1> DEFINE v == Activity(h).value
           b == Scope[p].allocationBps
           c == Scope[p].cap - req[h].seen[p]
<1>4. c \in Int
  BY <1>2, <1>3
<1>5. ScaleMirror(v, b, c) \in Int
  <2>1. (v * b) \in Int
    BY <1>1, <1>2
  <2>2. ((v * b) \div BPS) \in Int
    BY <2>1 DEF BPS
  <2> HIDE DEF v, b, c
  <2> QED BY <1>4, <2>2 DEF ScaleMirror
<1>6. Amount(h, p) = ScaleMirror(v, b, c)
  BY DEF Amount, MirrorAmount
<1>7. Amount(h, p) > 0
  BY DEF Wants, WantsMirror, Amount
<1> HIDE DEF v, b, c
<1> QED BY <1>1, <1>5, <1>6, <1>7

\* The spend derived from a valid trigger is a natural number.
LEMMA TriggerType ==
    ASSUME NEW h \in Handlers, Kind(h) = "trigger", TriggerValid(h)
    PROVE  TriggerSpend(h) \in Nat /\ TriggerKey(Request[h]) \in Keys /\ Request[h].perm \in Perms
<1> DEFINE r == Request[h]
           approves == CapApproves(r.calls, Scope[r.perm])
<1>1. /\ r.perm \in Perms /\ TriggerKey(r) \in Keys
      /\ \A i \in DOMAIN r.calls : i \in Nat /\ r.calls[i].amount \in Nat
  BY RequestAssumption DEF WellFormedRequest, Kind
<1>2. approves # {} /\ approves \subseteq DOMAIN r.calls
  BY DEF TriggerValid, CapApproves
<1>3. PICK i \in approves : \A j \in approves : i <= j
  BY <1>1, <1>2, LeastOfNat
<1>4. TriggerSpend(h) = r.calls[CHOOSE k \in approves : \A j \in approves : k <= j].amount
  BY DEF TriggerSpend, DeriveSpendFromCalls
<1>5. (CHOOSE k \in approves : \A j \in approves : k <= j) \in approves
  <2> HIDE DEF approves
  <2> QED BY <1>3
<1> QED BY <1>1, <1>2, <1>4, <1>5

-----------------------------------------------------------------------------
(* Owners and claims.                                                      *)

\* The mirrors under way after a step are mirrors that were under way before it.
NoNewOwner ==
    /\ \A h \in Handlers : Submitting(h)' => Submitting(h) /\ req'[h].job = req[h].job
    /\ \A i \in DOMAIN ops' : Booked(i)' =>
          /\ i \in DOMAIN ops /\ Booked(i)
          /\ ops'[i].perm = ops[i].perm /\ ops'[i].key = ops[i].key /\ ops'[i].amt = ops[i].amt

\* A step without a new owner keeps the owners distinct and adds no claim.
LEMMA OwnersStay ==
    ASSUME OwnersDistinct, NoNewOwner
    PROVE  OwnersDistinct' /\ \A p \in Perms : ClaimsOn(p)' \subseteq ClaimsOn(p)
<1>1. OwnersDistinct'
  <2>1. ASSUME NEW g \in Handlers, NEW h \in Handlers, Submitting(g)', Submitting(h)',
               req'[g].job.perm = req'[h].job.perm, req'[g].job.key = req'[h].job.key
        PROVE  g = h
    BY <2>1 DEF OwnersDistinct, NoNewOwner
  <2>2. ASSUME NEW i \in DOMAIN ops', NEW j \in DOMAIN ops', Booked(i)', Booked(j)',
               ops'[i].perm = ops'[j].perm, ops'[i].key = ops'[j].key
        PROVE  i = j
    BY <2>2 DEF OwnersDistinct, NoNewOwner
  <2>3. ASSUME NEW h \in Handlers, NEW i \in DOMAIN ops', Submitting(h)', Booked(i)',
               req'[h].job.perm = ops'[i].perm, req'[h].job.key = ops'[i].key
        PROVE  FALSE
    BY <2>3 DEF OwnersDistinct, NoNewOwner
  <2> QED BY <2>1, <2>2, <2>3 DEF OwnersDistinct
<1>2. ASSUME NEW p \in Perms, NEW c \in ClaimsOn(p)' PROVE c \in ClaimsOn(p)
  <2>1. CASE \E h \in SubmittersOn(p)' : c = <<req'[h].job.key, req'[h].job.amt>>
    <3>1. PICK h \in SubmittersOn(p)' : c = <<req'[h].job.key, req'[h].job.amt>>
      BY <2>1
    <3>2. h \in SubmittersOn(p) /\ req'[h].job = req[h].job
      BY <3>1 DEF SubmittersOn, NoNewOwner
    <3> QED BY <3>1, <3>2 DEF ClaimsOn
  <2>2. CASE \E i \in BookedOn(p)' : c = <<ops'[i].key, ops'[i].amt>>
    <3>1. PICK i \in BookedOn(p)' : c = <<ops'[i].key, ops'[i].amt>>
      BY <2>2
    <3>2. i \in BookedOn(p) /\ ops'[i].key = ops[i].key /\ ops'[i].amt = ops[i].amt
      BY <3>1 DEF BookedOn, NoNewOwner
    <3> QED BY <3>1, <3>2 DEF ClaimsOn
  <2> QED BY <1>2, <2>1, <2>2 DEF ClaimsOn
<1> QED BY <1>1, <1>2

\* A step that leaves the reservations alone and adds no claim.
LEMMA BookStays ==
    ASSUME BookOK, inflight' = inflight, \A p \in Perms : ClaimsOn(p)' \subseteq ClaimsOn(p)
    PROVE  BookOK'
<1> SUFFICES ASSUME NEW p \in Perms
             PROVE  \E w \in [Keys -> Nat] :
                        /\ WeighsTo(inflight'[p].txs, w, inflight'[p].spend)
                        /\ \A c \in ClaimsOn(p)' : c[1] \in inflight'[p].txs /\ w[c[1]] = c[2]
  BY DEF BookOK
<1> QED BY DEF BookOK

\* Reserving a new key for the one claim a step adds.
LEMMA BookReserves ==
    ASSUME TypeOK, BookOK, NEW p \in Perms, NEW k \in Keys, NEW a \in Nat, Reserve(p, a, k),
           \A q \in Perms : ClaimsOn(q)' \subseteq
                ClaimsOn(q) \union (IF q = p THEN {<<k, a>>} ELSE {})
    PROVE  BookOK'
<1> SUFFICES ASSUME NEW q \in Perms
             PROVE  \E w \in [Keys -> Nat] :
                        /\ WeighsTo(inflight'[q].txs, w, inflight'[q].spend)
                        /\ \A c \in ClaimsOn(q)' : c[1] \in inflight'[q].txs /\ w[c[1]] = c[2]
  BY DEF BookOK
<1>1. PICK w \in [Keys -> Nat] :
          /\ WeighsTo(inflight[q].txs, w, inflight[q].spend)
          /\ \A c \in ClaimsOn(q) : c[1] \in inflight[q].txs /\ w[c[1]] = c[2]
  BY DEF BookOK
<1>2. inflight \in [Perms -> Booking]
  BY DEF TypeOK, RegTypeOK
<1>3. CASE q # p
  <2>1. inflight'[q] = inflight[q]
    BY <1>2, <1>3 DEF Reserve
  <2>2. ClaimsOn(q)' \subseteq ClaimsOn(q)
    BY <1>3
  <2> QED BY <1>1, <2>1, <2>2
<1>4. CASE q = p
  <2>1. /\ inflight'[p].txs = inflight[p].txs \union {k}
        /\ inflight'[p].spend = inflight[p].spend + a
        /\ k \notin inflight[p].txs
        /\ inflight[p].txs \in SUBSET Keys
    BY <1>2 DEF Reserve, Mirrorable, Booking
  <2> DEFINE v == [w EXCEPT ![k] = a]
  <2>2. WeighsTo(inflight'[p].txs, v, inflight'[p].spend)
    <3>1. WeighsTo(inflight[p].txs, w, inflight[p].spend)
      BY <1>1, <1>4
    <3>2. WeighsTo(inflight[p].txs \union {k}, v, inflight[p].spend + a)
      BY <2>1, <3>1, WeightAdd
    <3> QED BY <2>1, <3>2
  <2>3. ASSUME NEW c \in ClaimsOn(p)' PROVE c[1] \in inflight'[p].txs /\ v[c[1]] = c[2]
    <3>1. CASE c \in ClaimsOn(p)
      BY <1>1, <1>4, <2>1, <3>1
    <3>2. CASE c = <<k, a>>
      BY <2>1, <3>2
    <3> QED BY <2>3, <3>1, <3>2
  <2>4. v \in [Keys -> Nat]
    OBVIOUS
  <2> HIDE DEF v
  <2> QED BY <1>4, <2>2, <2>3, <2>4
<1> QED BY <1>3, <1>4

\* Releasing a claimed key gives back exactly its amount, provided no claim on it is left.
LEMMA BookReleases ==
    ASSUME TypeOK, BookOK, NEW p \in Perms, NEW k \in Keys, NEW a \in Nat,
           ReleaseInflight(p, a, k), <<k, a>> \in ClaimsOn(p),
           \A q \in Perms : ClaimsOn(q)' \subseteq ClaimsOn(q),
           \A c \in ClaimsOn(p)' : c[1] # k
    PROVE  /\ BookOK'
           /\ k \in inflight[p].txs
           /\ \A q \in Perms : q # p => inflight'[q] = inflight[q]
           /\ inflight'[p] = [txs |-> inflight[p].txs \ {k}, spend |-> inflight[p].spend - a]
           /\ inflight' \in [Perms -> Booking]
<1>1. PICK w \in [Keys -> Nat] :
          /\ WeighsTo(inflight[p].txs, w, inflight[p].spend)
          /\ \A c \in ClaimsOn(p) : c[1] \in inflight[p].txs /\ w[c[1]] = c[2]
  BY DEF BookOK
<1>2. inflight \in [Perms -> Booking]
  BY DEF TypeOK, RegTypeOK
<1>3. k \in inflight[p].txs /\ w[k] = a /\ inflight[p].txs \in SUBSET Keys
  BY <1>1, <1>2 DEF Booking
<1> DEFINE T == inflight[p].txs \ {k}
           n == inflight[p].spend - a
<1>4. WeighsTo(T, w, n)
  BY <1>1, <1>3, WeightDrop
<1>5. n \in Int /\ (T = {} => n = 0)
  <2>1. n \in Nat /\ (T = {} => n = 0)
    <3> HIDE DEF T, n
    <3> QED BY <1>4, WeightNat
  <2> QED BY <2>1
<1>6. inflight'[p] = [txs |-> T, spend |-> n]
  BY <1>2, <1>3, <1>5 DEF ReleaseInflight, NoBooking
<1>7. \A q \in Perms : q # p => inflight'[q] = inflight[q]
  BY <1>2 DEF ReleaseInflight
<1>8. inflight' \in [Perms -> Booking]
  <2>1. [txs |-> T, spend |-> n] \in Booking /\ NoBooking \in Booking
    BY <1>3, <1>5 DEF Booking, NoBooking
  <2>2. inflight' = [inflight EXCEPT ![p] = inflight'[p]]
    BY <1>2 DEF ReleaseInflight
  <2> HIDE DEF T, n
  <2> QED BY <1>2, <1>6, <2>1, <2>2
<1>9. ASSUME NEW q \in Perms
      PROVE  \E v \in [Keys -> Nat] :
                /\ WeighsTo(inflight'[q].txs, v, inflight'[q].spend)
                /\ \A c \in ClaimsOn(q)' : c[1] \in inflight'[q].txs /\ v[c[1]] = c[2]
  <2>1. CASE q # p
    BY <1>7, <2>1 DEF BookOK
  <2>2. CASE q = p
    <3>1. WeighsTo(inflight'[p].txs, w, inflight'[p].spend)
      BY <1>4, <1>6
    <3>2. ASSUME NEW c \in ClaimsOn(p)' PROVE c[1] \in inflight'[p].txs /\ w[c[1]] = c[2]
      <4>1. c \in ClaimsOn(p) /\ c[1] # k
        BY <3>2
      <4> QED BY <1>1, <1>6, <4>1
    <3> QED BY <2>2, <3>1, <3>2
  <2> QED BY <2>1, <2>2
<1> QED BY <1>3, <1>6, <1>7, <1>8, <1>9 DEF BookOK

-----------------------------------------------------------------------------
(* The budget under each registry operation.                               *)

LEMMA BudgetReserves ==
    ASSUME TypeOK, Budget, NEW p \in Perms, NEW k \in Keys, NEW a \in Nat, Reserve(p, a, k),
           UNCHANGED <<records, disk>>
    PROVE  Budget' /\ inflight' \in [Perms -> Booking]
<1>1. /\ inflight \in [Perms -> Booking]
      /\ records \in [Perms -> CopyRecord]
  BY DEF TypeOK, RegTypeOK
<1>2. /\ inflight'[p] = [txs |-> inflight[p].txs \union {k}, spend |-> inflight[p].spend + a]
      /\ \A q \in Perms : q # p => inflight'[q] = inflight[q]
      /\ inflight' \in [Perms -> Booking]
  BY <1>1 DEF Reserve, Booking
<1>3. ExposureWithinCap'
  <2> SUFFICES ASSUME NEW q \in Perms PROVE records'[q].spentTotal + inflight'[q].spend <= Cap(q)
    BY DEF ExposureWithinCap, Cap
  <2>1. CASE q = p
    <3>1. records[p].spentTotal + inflight[p].spend + a <= Cap(p)
      BY DEF Reserve, Mirrorable
    <3>2. records[p].spentTotal \in Int /\ inflight[p].spend \in Int /\ Cap(p) \in Int
      BY <1>1, ScopeAssumption DEF CopyRecord, Booking, Cap
    <3> QED BY <1>2, <2>1, <3>1, <3>2
  <2>2. CASE q # p
    BY <1>2, <2>2 DEF Budget, ExposureWithinCap
  <2> QED BY <2>1, <2>2
<1>4. ChargedOnce'
  BY <1>2 DEF Budget, ChargedOnce, Reserve, Mirrorable, Mirrored
<1> QED BY <1>2, <1>3, <1>4 DEF Budget, DiskWithinCap, Cap

LEMMA BudgetReleases ==
    ASSUME TypeOK, Budget, NEW p \in Perms, NEW k \in Keys, NEW a \in Nat,
           \A q \in Perms : q # p => inflight'[q] = inflight[q],
           inflight'[p] = [txs |-> inflight[p].txs \ {k}, spend |-> inflight[p].spend - a],
           UNCHANGED <<records, disk>>
    PROVE  Budget'
<1>1. ExposureWithinCap'
  <2> SUFFICES ASSUME NEW q \in Perms PROVE records'[q].spentTotal + inflight'[q].spend <= Cap(q)
    BY DEF ExposureWithinCap, Cap
  <2>1. records[q].spentTotal \in Int /\ inflight[q].spend \in Int /\ Cap(q) \in Int
    BY ScopeAssumption DEF TypeOK, RegTypeOK, CopyRecord, Booking, Cap
  <2>2. records[q].spentTotal + inflight[q].spend <= Cap(q)
    BY DEF Budget, ExposureWithinCap
  <2> QED BY <2>1, <2>2
<1>2. ChargedOnce'
  BY DEF Budget, ChargedOnce, Mirrored
<1> QED BY <1>1, <1>2 DEF Budget, DiskWithinCap, Cap

\* The reserved sum is not negative, so what is charged is within the cap by itself.
LEMMA SpentWithinCap ==
    ASSUME TypeOK, BookOK, Budget, NEW p \in Perms
    PROVE  records[p].spentTotal <= Cap(p)
<1>1. PICK w \in [Keys -> Nat] : WeighsTo(inflight[p].txs, w, inflight[p].spend)
  BY DEF BookOK
<1>2. inflight[p].spend \in Nat
  BY <1>1, WeightNat
<1>3. records[p].spentTotal \in Int /\ Cap(p) \in Int
  BY ScopeAssumption DEF TypeOK, RegTypeOK, CopyRecord, Cap
<1> QED BY <1>2, <1>3 DEF Budget, ExposureWithinCap

\* Writing a record that keeps what was charged.
LEMMA BudgetUpserts ==
    ASSUME TypeOK, BookOK, Budget, NEW p \in Perms, NEW r \in CopyRecord, NEW ok \in BOOLEAN,
           Upsert(p, r, ok),
           r.spentTotal = records[p].spentTotal, r.mirroredTx = records[p].mirroredTx,
           inflight' = inflight
    PROVE  Budget' /\ records' \in [Perms -> CopyRecord] /\ disk' \in [Perms -> CopyRecord]
<1>1. records \in [Perms -> CopyRecord] /\ disk \in [Perms -> CopyRecord]
  BY DEF TypeOK, RegTypeOK
<1>2. /\ records' \in [Perms -> CopyRecord] /\ disk' \in [Perms -> CopyRecord]
      /\ \A q \in Perms : /\ records'[q].spentTotal = records[q].spentTotal
                          /\ records'[q].mirroredTx = records[q].mirroredTx
      /\ disk' = disk \/ disk' = records'
  BY <1>1 DEF Upsert
<1>3. DiskWithinCap'
  BY <1>2, SpentWithinCap DEF Budget, DiskWithinCap, Cap
<1>4. ExposureWithinCap'
  BY <1>2 DEF Budget, ExposureWithinCap, Cap
<1>5. ChargedOnce'
  <2> SUFFICES ASSUME NEW q \in Perms
               PROVE  /\ NoRepeats(records'[q].mirroredTx)
                      /\ NoRepeats(disk'[q].mirroredTx)
                      /\ Mirrored(records'[q]) \intersect inflight'[q].txs = {}
    BY DEF ChargedOnce, Mirrored, NoRepeats
  <2>1. /\ NoRepeats(records[q].mirroredTx)
        /\ NoRepeats(disk[q].mirroredTx)
        /\ Mirrored(records[q]) \intersect inflight[q].txs = {}
    BY DEF Budget, ChargedOnce
  <2>2. Mirrored(records'[q]) = Mirrored(records[q])
    BY <1>2 DEF Mirrored
  <2> QED BY <1>2, <2>1, <2>2
<1> QED BY <1>2, <1>3, <1>4, <1>5 DEF Budget

\* Committing a claimed key moves its amount from the reserved to the charged sum.
LEMMA BudgetCommits ==
    ASSUME TypeOK, BookOK, Budget, NEW p \in Perms, NEW k \in Keys, NEW a \in Nat, NEW ok \in BOOLEAN,
           RecordMirror(p, a, k, ok), k \in inflight[p].txs,
           \A q \in Perms : q # p => inflight'[q] = inflight[q],
           inflight'[p] = [txs |-> inflight[p].txs \ {k}, spend |-> inflight[p].spend - a],
           BookOK'
    PROVE  Budget' /\ records' \in [Perms -> CopyRecord] /\ disk' \in [Perms -> CopyRecord]
<1>1. records \in [Perms -> CopyRecord] /\ disk \in [Perms -> CopyRecord]
  BY DEF TypeOK, RegTypeOK
<1> DEFINE s == records[p].mirroredTx
           r == [records[p] EXCEPT !.spentTotal = @ + a, !.mirroredTx = Append(@, k)]
<1>2. s \in Seq(Keys)
  BY <1>1 DEF CopyRecord
<1>3. /\ Append(s, k) \in Seq(Keys)
      /\ Len(Append(s, k)) = Len(s) + 1
      /\ \A i \in 1 .. Len(s) : Append(s, k)[i] = s[i]
      /\ Append(s, k)[Len(s) + 1] = k
  BY <1>2, AppendProperties
<1>4. /\ r \in CopyRecord
      /\ r.spentTotal = records[p].spentTotal + a
      /\ r.mirroredTx = Append(s, k)
  <2>1. records[p] \in [status: Statuses, paused: BOOLEAN, spentTotal: Nat, mirroredTx: Seq(Keys)]
    BY <1>1 DEF CopyRecord
  <2>2. records[p].spentTotal + a \in Nat
    BY <2>1
  <2>3. r \in [status: Statuses, paused: BOOLEAN, spentTotal: Nat, mirroredTx: Seq(Keys)]
    BY <1>3, <2>1, <2>2
  <2>4. r.spentTotal = records[p].spentTotal + a /\ r.mirroredTx = Append(s, k)
    BY <2>1
  <2> HIDE DEF r
  <2> QED BY <2>3, <2>4 DEF CopyRecord
<1> HIDE DEF r
<1>5. /\ records' = [records EXCEPT ![p] = r]
      /\ disk' = disk \/ disk' = records'
  BY DEF RecordMirror, Upsert, r
<1>6. records' \in [Perms -> CopyRecord] /\ disk' \in [Perms -> CopyRecord]
  BY <1>1, <1>4, <1>5
<1>7. k \notin Mirrored(records[p])
  BY DEF Budget, ChargedOnce
<1>8. NoRepeats(Append(s, k)) /\ Mirrored(r) = Mirrored(records[p]) \union {k}
  <2>1. DOMAIN s = 1 .. Len(s) /\ DOMAIN Append(s, k) = 1 .. Len(s) + 1 /\ Len(s) \in Nat
    BY <1>2, <1>3, LenProperties
  <2>2. \A i \in DOMAIN s : s[i] # k
    BY <1>7 DEF Mirrored
  <2>3. NoRepeats(s)
    BY DEF Budget, ChargedOnce
  <2>4. ASSUME NEW i \in DOMAIN Append(s, k), NEW j \in DOMAIN Append(s, k),
               Append(s, k)[i] = Append(s, k)[j]
        PROVE  i = j
    <3>1. i \in DOMAIN s \/ i = Len(s) + 1
      BY <2>1
    <3>2. j \in DOMAIN s \/ j = Len(s) + 1
      BY <2>1
    <3> QED BY <1>3, <2>1, <2>2, <2>3, <2>4, <3>1, <3>2 DEF NoRepeats
  <2>5. ASSUME NEW x PROVE x \in Mirrored(r) <=> x \in Mirrored(records[p]) \union {k}
    <3>1. x \in Mirrored(r) <=> \E i \in 1 .. Len(s) + 1 : x = Append(s, k)[i]
      BY <1>4, <2>1 DEF Mirrored
    <3>2. x \in Mirrored(records[p]) <=> \E i \in 1 .. Len(s) : x = s[i]
      BY <2>1 DEF Mirrored
    <3>3. \A i \in 1 .. Len(s) + 1 : i \in 1 .. Len(s) \/ i = Len(s) + 1
      BY <2>1
    <3>4. \A i \in 1 .. Len(s) : i \in 1 .. Len(s) + 1
      BY <2>1
    <3>5. Len(s) + 1 \in 1 .. Len(s) + 1
      BY <2>1
    <3> QED BY <1>3, <3>1, <3>2, <3>3, <3>4, <3>5
  <2> QED BY <2>4, <2>5 DEF NoRepeats
<1>9. ExposureWithinCap'
  <2> SUFFICES ASSUME NEW q \in Perms PROVE records'[q].spentTotal + inflight'[q].spend <= Cap(q)
    BY DEF ExposureWithinCap, Cap
  <2>1. /\ records[q].spentTotal \in Int /\ inflight[q].spend \in Int /\ Cap(q) \in Int
        /\ records[q].spentTotal + inflight[q].spend <= Cap(q)
    BY ScopeAssumption, SMTT(30) DEF TypeOK, RegTypeOK, CopyRecord, Booking, Cap, Budget, ExposureWithinCap
  <2>2. CASE q # p
    BY <1>1, <1>5, <2>1, <2>2
  <2>3. CASE q = p
    <3>1. records'[p].spentTotal = records[p].spentTotal + a
      BY <1>1, <1>4, <1>5
    <3>2. inflight'[p].spend = inflight[p].spend - a
      OBVIOUS
    <3> QED BY <2>1, <2>3, <3>1, <3>2
  <2> QED BY <2>2, <2>3
<1>10. ASSUME NEW q \in Perms
       PROVE  /\ NoRepeats(records'[q].mirroredTx)
              /\ Mirrored(records'[q]) \intersect inflight'[q].txs = {}
  <2>1. /\ NoRepeats(records[q].mirroredTx)
        /\ Mirrored(records[q]) \intersect inflight[q].txs = {}
    BY DEF Budget, ChargedOnce
  <2>2. CASE q # p
    BY <1>1, <1>5, <2>1, <2>2
  <2>3. CASE q = p
    <3>1. records'[p] = r
      BY <1>1, <1>5
    <3>2. inflight'[p].txs = inflight[p].txs \ {k}
      OBVIOUS
    <3> QED BY <1>4, <1>8, <2>1, <2>3, <3>1, <3>2
  <2> QED BY <2>2, <2>3
<1>11. ChargedOnce'
  <2>1. \A q \in Perms : NoRepeats(disk[q].mirroredTx)
    BY DEF Budget, ChargedOnce
  <2>2. \A q \in Perms : NoRepeats(disk'[q].mirroredTx)
    BY <1>5, <1>10, <2>1
  <2> QED BY <1>10, <2>2 DEF ChargedOnce, NoRepeats, Mirrored
<1>12. DiskWithinCap'
  <2>1. ASSUME NEW q \in Perms PROVE records'[q].spentTotal <= Cap(q)
    <3>1. PICK w \in [Keys -> Nat] : WeighsTo(inflight'[q].txs, w, inflight'[q].spend)
      BY DEF BookOK
    <3>2. inflight'[q].spend \in Nat
      BY <3>1, WeightNat
    <3>3. records'[q].spentTotal + inflight'[q].spend <= Cap(q)
      BY <1>9 DEF ExposureWithinCap, Cap
    <3>4. records'[q].spentTotal \in Int /\ Cap(q) \in Int
      BY <1>6, ScopeAssumption DEF CopyRecord, Cap
    <3> QED BY <3>2, <3>3, <3>4
  <2> QED BY <1>5, <2>1 DEF Budget, DiskWithinCap, Cap
<1> QED BY <1>6, <1>9, <1>11, <1>12 DEF Budget

-----------------------------------------------------------------------------
(* Steps of one request.                                                   *)

\* Only the local state of request h changes.
OnlyMoves(h) ==
    /\ req' \in [Handlers -> HandlerState]
    /\ \A g \in Handlers : g # h => req'[g] = req[g]

\* Every op that was accepted stays in the list as the op it was.
OpsKept ==
    /\ DOMAIN ops \subseteq DOMAIN ops'
    /\ \A i \in DOMAIN ops : /\ ops'[i].perm = ops[i].perm
                             /\ ops'[i].key = ops[i].key
                             /\ ops'[i].amt = ops[i].amt

LEMMA HandlersStay ==
    ASSUME TypeOK, HandlersOK, OpsKept, NEW h \in Handlers, OnlyMoves(h), HandlerOK(h)'
    PROVE  HandlersOK'
<1> SUFFICES ASSUME NEW g \in Handlers PROVE HandlerOK(g)'
  BY DEF HandlersOK
<1>1. CASE g = h
  BY <1>1
<1>2. CASE g # h
  <2>1. req'[g] = req[g] /\ HandlerOK(g)
    BY <1>2 DEF OnlyMoves, HandlersOK
  <2>2. req[g].phase = "sent" => req[g].op \in DOMAIN ops
    BY DEF TypeOK
  <2> QED BY <2>1, <2>2 DEF OpsKept, HandlerOK, Submitting, InPayload, Kind
<1> QED BY <1>1, <1>2

LEMMA MovesTo ==
    ASSUME TypeOK, NEW h \in Handlers, NEW s \in HandlerState, Becomes(h, s)
    PROVE  OnlyMoves(h) /\ req'[h] = s
BY DEF TypeOK, OnlyMoves, Becomes

\* Request h, which has no mirror under way, moves to a state without one; the reservations and
\* the accepted ops stay, the records keep what was charged.
LEMMA PlainStep ==
    ASSUME IInv, NEW h \in Handlers, NEW s \in HandlerState, Becomes(h, s),
           ~ Submitting(h), s.phase \notin {"submit", "sent"},
           s.phase = "scan" => Kind(h) = "webhook" /\ s.pos # 0,
           s.phase \in {"relay", "relayed"} => Kind(h) = "revoke",
           s.phase = "fan" => Kind(h) = "webhook" /\ s.pos \in 1 .. Len(Request[h].payload),
           turn' \in Handlers \union {Nobody}, UNCHANGED <<ops, crashes>>,
           session' \in [Perms -> SessionStates],
           RegTypeOK', Budget', inflight' = inflight
    PROVE  IInv'
<1>0. TypeOK /\ HandlersOK /\ OwnersDistinct /\ BookOK
  BY DEF IInv
<1>1. OnlyMoves(h) /\ req'[h] = s
  BY <1>0, MovesTo
<1>2. TypeOK'
  <2>1. ASSUME NEW g \in Handlers
        PROVE  /\ req'[g].phase \in {"submit", "sent"} => req'[g].job \in Jobs
               /\ req'[g].phase = "sent" => req'[g].op \in DOMAIN ops
    BY <1>0, <1>1 DEF TypeOK, OnlyMoves
  <2> QED BY <1>0, <1>1, <2>1 DEF TypeOK, OnlyMoves
<1>3. HandlersOK'
  <2>1. OpsKept
    BY DEF OpsKept
  <2>2. HandlerOK(h)'
    BY <1>1 DEF HandlerOK, Submitting, InPayload, Kind
  <2> QED BY <1>0, <1>1, <2>1, <2>2, HandlersStay
<1>4. NoNewOwner
  BY <1>1 DEF OnlyMoves, NoNewOwner, Submitting, Booked
<1>5. OwnersDistinct' /\ \A p \in Perms : ClaimsOn(p)' \subseteq ClaimsOn(p)
  BY <1>0, <1>4, OwnersStay
<1>6. BookOK'
  BY <1>0, <1>5, BookStays
<1> QED BY <1>2, <1>3, <1>5, <1>6 DEF IInv

\* The same when the registry is not touched at all.
LEMMA QuietStep ==
    ASSUME IInv, NEW h \in Handlers, NEW s \in HandlerState, Becomes(h, s),
           ~ Submitting(h), s.phase \notin {"submit", "sent"},
           s.phase = "scan" => Kind(h) = "webhook" /\ s.pos # 0,
           s.phase \in {"relay", "relayed"} => Kind(h) = "revoke",
           s.phase = "fan" => Kind(h) = "webhook" /\ s.pos \in 1 .. Len(Request[h].payload),
           turn' \in Handlers \union {Nobody}, UNCHANGED <<regVars, ops, crashes>>,
           session' \in [Perms -> SessionStates]
    PROVE  IInv'
<1>1. RegTypeOK'
  BY DEF IInv, TypeOK, RegTypeOK, regVars
<1>2. Budget'
  BY DEF IInv, regVars, Budget, ExposureWithinCap, ChargedOnce, DiskWithinCap, Cap, Mirrored, NoRepeats
<1> QED BY <1>1, <1>2, PlainStep DEF regVars

\* Writing a record with another status or pause flag keeps the registry's invariant.
LEMMA RecordStep ==
    ASSUME IInv, NEW p \in Perms, NEW r \in CopyRecord, NEW ok \in BOOLEAN, Upsert(p, r, ok),
           r.spentTotal = records[p].spentTotal, r.mirroredTx = records[p].mirroredTx,
           UNCHANGED <<inflight, nonceCounters>>
    PROVE  RegTypeOK' /\ Budget'
<1>1. Budget' /\ records' \in [Perms -> CopyRecord] /\ disk' \in [Perms -> CopyRecord]
  BY BudgetUpserts DEF IInv
<1> QED BY <1>1 DEF IInv, TypeOK, RegTypeOK

LEMMA WritesBoolean == \A ok \in WriteOutcomes : ok \in BOOLEAN
BY DEF WriteOutcomes

LEMMA RevokeStepKeeps ==
    ASSUME IInv, NEW p \in Perms, NEW ok \in BOOLEAN, Revoke(p, ok), UNCHANGED <<inflight, nonceCounters>>
    PROVE  RegTypeOK' /\ Budget'
<1> DEFINE r == [records[p] EXCEPT !.status = "revoked"]
<1>1. records[p] \in CopyRecord
  BY DEF IInv, TypeOK, RegTypeOK
<1>2. r \in CopyRecord /\ r.spentTotal = records[p].spentTotal /\ r.mirroredTx = records[p].mirroredTx
  BY <1>1 DEF CopyRecord, Statuses
<1>3. Upsert(p, r, ok)
  BY DEF Revoke
<1> HIDE DEF r
<1> QED BY <1>2, <1>3, RecordStep

\* Facts about the state of one request that the cases below need.
LEMMA RequestTypes ==
    ASSUME IInv, NEW h \in Handlers
    PROVE  /\ req[h] \in HandlerState
           /\ HandlerOK(h)
           /\ turn \in Handlers \union {Nobody}
           /\ session \in [Perms -> SessionStates]
           /\ Kind(h) = "webhook" => Len(Request[h].payload) \in Nat
           /\ records \in [Perms -> CopyRecord]
           /\ \A reply \in {"ok", "error"} : Finished(reply) \in HandlerState /\ Finished(reply).phase = "done"
BY RequestAssumption DEF IInv, TypeOK, HandlersOK, RegTypeOK, Kind, Finished, Idle, HandlerState, Phases

LEMMA WebhookQuiet ==
    ASSUME IInv, NEW h \in Handlers,
           \/ WebhookRejects(h) \/ WebhookArrives(h) \/ ScanSkips(h) \/ ScanFinds(h)
           \/ ScanReplies(h) \/ FanEnds(h) \/ \E p \in Perms : FanSkips(h, p)
    PROVE  IInv'
<1>0. /\ req[h] \in HandlerState /\ HandlerOK(h)
      /\ turn \in Handlers \union {Nobody}
      /\ session \in [Perms -> SessionStates]
      /\ Kind(h) = "webhook" => Len(Request[h].payload) \in Nat
      /\ records \in [Perms -> CopyRecord]
  BY RequestTypes
<1>1. CASE WebhookRejects(h)
  <2>1. Becomes(h, Finished("error")) /\ ~ Submitting(h)
    BY <1>1 DEF WebhookRejects, Arrives, Submitting
  <2> QED BY <1>0, <1>1, <2>1, RequestTypes, QuietStep DEF WebhookRejects, envVars
<1>2. CASE WebhookArrives(h)
  <2> DEFINE s == [req[h] EXCEPT !.phase = "scan", !.pos = 1, !.followed = Followed]
  <2>1. Becomes(h, s) /\ ~ Submitting(h) /\ Kind(h) = "webhook" /\ turn' = h
    BY <1>2 DEF WebhookArrives, Arrives, Submitting
  <2>2. s \in HandlerState /\ s.phase = "scan" /\ s.pos = 1
    BY <1>0 DEF HandlerState, Phases, Followed, Sources
  <2> HIDE DEF s
  <2> QED BY <1>0, <1>2, <2>1, <2>2, QuietStep DEF WebhookArrives, envVars
<1>3. CASE ScanSkips(h)
  <2> DEFINE s == [req[h] EXCEPT !.pos = @ + 1]
  <2>1. Becomes(h, s) /\ ~ Submitting(h) /\ req[h].phase = "scan"
    BY <1>3 DEF ScanSkips, Runs, Submitting
  <2>2. s \in HandlerState /\ s.phase = "scan" /\ s.pos # 0
    <3>1. req[h].pos \in Nat
      BY <1>0 DEF HandlerState
    <3> DEFINE n == req[h].pos + 1
    <3>2. n \in Nat /\ n # 0
      BY <3>1
    <3> HIDE DEF n
    <3>3. s.phase = "scan" /\ s.pos = n
      BY <1>0, <2>1 DEF HandlerState, n
    <3>4. s \in HandlerState
      BY <1>0, <3>2 DEF HandlerState, Phases, n
    <3> QED BY <3>2, <3>3, <3>4
  <2>3. Kind(h) = "webhook"
    BY <1>0, <2>1 DEF HandlerOK
  <2> HIDE DEF s
  <2> QED BY <1>0, <1>3, <2>1, <2>2, <2>3, QuietStep DEF ScanSkips, envVars
<1>4. CASE ScanFinds(h)
  <2> DEFINE s == [req[h] EXCEPT !.phase = "fan",
                                 !.fan = FindBySource(Activity(h).from, Activity(h).chain),
                                 !.seen = [p \in Perms |-> records[p].spentTotal]]
  <2>1. Becomes(h, s) /\ ~ Submitting(h) /\ req[h].phase = "scan" /\ req[h].pos <= Len(Request[h].payload)
    BY <1>4 DEF ScanFinds, Runs, Submitting
  <2>2. FindBySource(Activity(h).from, Activity(h).chain) \in SUBSET Perms
    BY DEF FindBySource
  <2>3. [p \in Perms |-> records[p].spentTotal] \in [Perms -> Nat]
    BY <1>0 DEF CopyRecord
  <2>4. s \in HandlerState /\ s.phase = "fan" /\ s.pos = req[h].pos
    BY <1>0, <2>1, <2>2, <2>3 DEF HandlerState, Phases
  <2>5. Kind(h) = "webhook" /\ req[h].pos \in 1 .. Len(Request[h].payload)
    BY <1>0, <2>1 DEF HandlerOK, HandlerState
  <2> HIDE DEF s
  <2> QED BY <1>0, <1>4, <2>1, <2>4, <2>5, QuietStep DEF ScanFinds, envVars
<1>5. CASE ScanReplies(h)
  <2>1. Becomes(h, Finished("ok")) /\ ~ Submitting(h)
    BY <1>5 DEF ScanReplies, Runs, Submitting
  <2> QED BY <1>0, <1>5, <2>1, RequestTypes, QuietStep DEF ScanReplies, envVars
<1>6. CASE FanEnds(h)
  <2> DEFINE s == [req[h] EXCEPT !.phase = "scan", !.pos = @ + 1, !.seen = [p \in Perms |-> 0]]
  <2>1. Becomes(h, s) /\ ~ Submitting(h) /\ req[h].phase = "fan"
    BY <1>6 DEF FanEnds, Runs, Submitting
  <2>2. s \in HandlerState /\ s.phase = "scan" /\ s.pos # 0
    <3>1. req[h].pos \in Nat
      BY <1>0 DEF HandlerState
    <3> DEFINE n == req[h].pos + 1
    <3>2. n \in Nat /\ n # 0
      BY <3>1
    <3> HIDE DEF n
    <3>3. s.phase = "scan" /\ s.pos = n
      BY <1>0, <2>1 DEF HandlerState, n
    <3>4. s \in HandlerState
      BY <1>0, <3>2 DEF HandlerState, Phases, n
    <3> QED BY <3>2, <3>3, <3>4
  <2>3. Kind(h) = "webhook"
    BY <1>0, <2>1 DEF HandlerOK, InPayload
  <2> HIDE DEF s
  <2> QED BY <1>0, <1>6, <2>1, <2>2, <2>3, QuietStep DEF FanEnds, envVars
<1>7. ASSUME NEW p \in Perms, FanSkips(h, p) PROVE IInv'
  <2> DEFINE s == [req[h] EXCEPT !.fan = @ \ {p}]
  <2>1. Becomes(h, s) /\ ~ Submitting(h) /\ req[h].phase = "fan"
    BY <1>7 DEF FanSkips, Runs, Submitting
  <2>2. s \in HandlerState /\ s.phase = "fan" /\ s.pos = req[h].pos
    BY <1>0, <2>1 DEF HandlerState, Phases
  <2>3. Kind(h) = "webhook" /\ req[h].pos \in 1 .. Len(Request[h].payload)
    BY <1>0, <2>1 DEF HandlerOK, InPayload
  <2> HIDE DEF s
  <2> QED BY <1>0, <1>7, <2>1, <2>2, <2>3, QuietStep DEF FanSkips, envVars
<1> QED BY <1>1, <1>2, <1>3, <1>4, <1>5, <1>6, <1>7

LEMMA ListKeeps ==
    ASSUME IInv, NEW h \in Handlers, ListStep(h)
    PROVE  IInv'
<1>0. /\ req[h] \in HandlerState /\ HandlerOK(h)
      /\ turn \in Handlers \union {Nobody}
      /\ session \in [Perms -> SessionStates]
      /\ \A reply \in {"ok", "error"} : Finished(reply) \in HandlerState /\ Finished(reply).phase = "done"
  BY RequestTypes
<1>1. CASE ListArrives(h)
  <2> DEFINE s == [req[h] EXCEPT !.phase = "read", !.fan = ViewByFollower(Request[h].follower)]
  <2>1. Becomes(h, s) /\ ~ Submitting(h)
    BY <1>1 DEF ListArrives, Arrives, Submitting
  <2>2. s \in HandlerState /\ s.phase = "read"
    BY <1>0 DEF HandlerState, Phases, ViewByFollower
  <2> HIDE DEF s
  <2> QED BY <1>0, <1>1, <2>1, <2>2, QuietStep DEF ListArrives, envVars
<1>2. CASE ListResumes(h)
  <2> DEFINE s == [req[h] EXCEPT !.phase = "apply"]
  <2>1. Becomes(h, s) /\ ~ Submitting(h)
    BY <1>2 DEF ListResumes, Awaits, Submitting
  <2>2. s \in HandlerState /\ s.phase = "apply"
    BY <1>0 DEF HandlerState, Phases
  <2> HIDE DEF s
  <2> QED BY <1>0, <1>2, <2>1, <2>2, QuietStep DEF ListResumes, envVars
<1>3. CASE ListReplies(h)
  <2>1. Becomes(h, Finished("ok")) /\ ~ Submitting(h)
    BY <1>3 DEF ListReplies, Runs, Submitting
  <2> QED BY <1>0, <1>3, <2>1, QuietStep DEF ListReplies, envVars
<1>4. ASSUME NEW p \in Perms, NEW failed \in BOOLEAN, ListReads(h, p, failed) PROVE IInv'
  <2> DEFINE s == [req[h] EXCEPT !.fan = @ \ {p},
                                 !.gone = IF failed \/ SessionLive(p) THEN @ ELSE @ \union {p}]
  <2>1. Becomes(h, s) /\ ~ Submitting(h) /\ req[h].phase = "read"
    BY <1>4 DEF ListReads, Submitting
  <2>2. s \in HandlerState /\ s.phase = "read"
    BY <1>0, <2>1 DEF HandlerState, Phases
  <2> HIDE DEF s
  <2> QED BY <1>0, <1>4, <2>1, <2>2, QuietStep DEF ListReads, envVars
<1>5. ASSUME NEW p \in Perms, NEW ok \in WriteOutcomes, ListRevokes(h, p, ok) PROVE IInv'
  <2> DEFINE s == IF ok THEN [req[h] EXCEPT !.gone = @ \ {p}] ELSE Finished("error")
  <2>1. Becomes(h, s) /\ ~ Submitting(h) /\ req[h].phase = "apply"
    BY <1>5 DEF ListRevokes, Runs, Submitting
  <2>2. s \in HandlerState /\ s.phase \in {"apply", "done"}
    BY <1>0, <2>1 DEF HandlerState, Phases
  <2>3. RegTypeOK' /\ Budget'
    BY <1>5, WritesBoolean, RevokeStepKeeps DEF ListRevokes
  <2> HIDE DEF s
  <2> QED BY <1>0, <1>5, <2>1, <2>2, <2>3, PlainStep DEF ListRevokes, envVars
<1> QED BY <1>1, <1>2, <1>3, <1>4, <1>5 DEF ListStep

LEMMA RevokeKeeps ==
    ASSUME IInv, NEW h \in Handlers, RevokeStep(h)
    PROVE  IInv'
<1>0. /\ req[h] \in HandlerState /\ HandlerOK(h)
      /\ turn \in Handlers \union {Nobody}
      /\ session \in [Perms -> SessionStates]
      /\ \A reply \in {"ok", "error"} : Finished(reply) \in HandlerState /\ Finished(reply).phase = "done"
  BY RequestTypes
<1>1. CASE RevokeArrives(h)
  <2> DEFINE s == IF records[Request[h].perm].status = "none" THEN Finished("error")
                  ELSE [req[h] EXCEPT !.phase = "relay"]
  <2>1. Becomes(h, s) /\ ~ Submitting(h) /\ Kind(h) = "revoke"
    BY <1>1 DEF RevokeArrives, Arrives, Submitting
  <2>2. s \in HandlerState /\ s.phase \in {"relay", "done"}
    BY <1>0 DEF HandlerState, Phases
  <2> HIDE DEF s
  <2> QED BY <1>0, <1>1, <2>1, <2>2, QuietStep DEF RevokeArrives, envVars
<1>2. CASE OpAccepted(h)
  <2> DEFINE s == [req[h] EXCEPT !.phase = "relayed"]
  <2>1. Becomes(h, s) /\ ~ Submitting(h) /\ Kind(h) = "revoke"
    BY <1>0, <1>2 DEF OpAccepted, Submitting, HandlerOK
  <2>2. s \in HandlerState /\ s.phase = "relayed"
    BY <1>0 DEF HandlerState, Phases
  <2>3. session' \in [Perms -> SessionStates]
    BY <1>0, <1>2 DEF OpAccepted, SessionStates
  <2> HIDE DEF s
  <2> QED BY <1>0, <1>2, <2>1, <2>2, <2>3, QuietStep DEF OpAccepted, envVars
<1>3. CASE RelayThrows(h)
  <2>1. Becomes(h, Finished("error")) /\ ~ Submitting(h)
    BY <1>3 DEF RelayThrows, Awaits, Submitting
  <2> QED BY <1>0, <1>3, <2>1, QuietStep DEF RelayThrows, envVars
<1>4. ASSUME NEW ok \in WriteOutcomes, RelayReturns(h, ok) PROVE IInv'
  <2> DEFINE s == Finished(IF ok THEN "ok" ELSE "error")
  <2>1. Becomes(h, s) /\ ~ Submitting(h) /\ Request[h].perm \in Perms
    <3>1. Becomes(h, s) /\ ~ Submitting(h) /\ Kind(h) = "revoke"
      BY <1>0, <1>4 DEF RelayReturns, Awaits, Submitting, HandlerOK
    <3>2. Request[h].perm \in Perms
      BY <3>1, RequestAssumption DEF WellFormedRequest, Kind
    <3> QED BY <3>1, <3>2
  <2>2. s \in HandlerState /\ s.phase = "done"
    BY <1>0
  <2>3. RegTypeOK' /\ Budget'
    BY <1>4, <2>1, WritesBoolean, RevokeStepKeeps DEF RelayReturns
  <2> HIDE DEF s
  <2> QED BY <1>0, <1>4, <2>1, <2>2, <2>3, PlainStep DEF RelayReturns, envVars
<1> QED BY <1>1, <1>2, <1>3, <1>4 DEF RevokeStep

-----------------------------------------------------------------------------
(* Mirrors: reserving, submitting and settling.                            *)

\* The reservation of a plan that cannot be built is claimed by nobody and stays.
LEMMA BuildThrowsKeeps ==
    ASSUME IInv, NEW h \in Handlers, NEW p \in Perms, FanBuildThrows(h, p)
    PROVE  IInv'
<1> DEFINE s == [req[h] EXCEPT !.fan = @ \ {p}]
           k == SpendKey(Activity(h))
           a == Amount(h, p)
<1>0. TypeOK /\ HandlersOK /\ OwnersDistinct /\ BookOK /\ Budget
  BY DEF IInv
<1>1. /\ req[h] \in HandlerState /\ HandlerOK(h) /\ req[h].phase = "fan"
      /\ Wants(h, p) /\ Reserve(p, a, k) /\ Becomes(h, s)
      /\ UNCHANGED <<records, disk, nonceCounters, turn, ops, session, crashes>>
  BY RequestTypes DEF FanBuildThrows, Runs, envVars
<1>2. InPayload(h)
  BY <1>1 DEF HandlerOK
<1>3. a \in Nat /\ k \in Keys
  BY <1>0, <1>1, <1>2, AmountType
<1>4. s \in HandlerState /\ s.phase = "fan" /\ s.pos = req[h].pos
  BY <1>1 DEF HandlerState
<1>5. OnlyMoves(h) /\ req'[h] = s
  <2> HIDE DEF s
  <2> QED BY <1>0, <1>1, <1>4, MovesTo
<1> HIDE DEF s, k, a
<1>6. Budget' /\ inflight' \in [Perms -> Booking]
  BY <1>0, <1>1, <1>3, BudgetReserves
<1>7. TypeOK'
  BY <1>0, <1>1, <1>4, <1>5, <1>6 DEF TypeOK, RegTypeOK, OnlyMoves
<1>8. HandlersOK'
  <2>1. OpsKept
    BY <1>1 DEF OpsKept
  <2>2. HandlerOK(h)'
    BY <1>2, <1>4, <1>5 DEF HandlerOK, Submitting, InPayload, Kind
  <2> QED BY <1>0, <1>5, <2>1, <2>2, HandlersStay
<1>9. NoNewOwner
  BY <1>1, <1>4, <1>5 DEF OnlyMoves, NoNewOwner, Submitting, Booked
<1>10. OwnersDistinct' /\ \A q \in Perms : ClaimsOn(q)' \subseteq ClaimsOn(q)
  BY <1>0, <1>9, OwnersStay
<1>11. BookOK'
  <2>1. \A q \in Perms : ClaimsOn(q)' \subseteq ClaimsOn(q) \union (IF q = p THEN {<<k, a>>} ELSE {})
    BY <1>10
  <2> QED BY <1>0, <1>1, <1>3, <2>1, BookReserves
<1> QED BY <1>6, <1>7, <1>8, <1>10, <1>11 DEF IInv

\* A request that reserves a key and goes on to submit becomes the only owner of that key.
LEMMA ReserveAndSubmit ==
    ASSUME IInv, NEW h \in Handlers, NEW s \in HandlerState, Becomes(h, s), ~ Submitting(h),
           NEW p \in Perms, NEW k \in Keys, NEW a \in Nat,
           s.phase = "submit", s.job = Job(p, k, a),
           Kind(h) = "webhook" => s.pos \in 1 .. Len(Request[h].payload),
           Reserve(p, a, k), NextNonceKey(Scope[p].follower),
           turn' \in Handlers \union {Nobody}, UNCHANGED <<records, disk, ops, session, crashes>>
    PROVE  IInv'
<1>0. TypeOK /\ HandlersOK /\ OwnersDistinct /\ BookOK /\ Budget
  BY DEF IInv
<1>1. OnlyMoves(h) /\ req'[h] = s
  BY <1>0, MovesTo
<1>2. Budget' /\ inflight' \in [Perms -> Booking]
  BY <1>0, BudgetReserves
<1>3. LaneMod \in Nat \ {0} /\ Scope[p].follower \in Followers
  BY ScopeAssumption
<1>4. nonceCounters \in [Followers -> 0 .. LaneMod - 1]
  BY <1>0 DEF TypeOK, RegTypeOK
<1>5. nonceCounters' \in [Followers -> 0 .. LaneMod - 1]
  <2>1. \A n \in 0 .. LaneMod - 1 : ((n + 1) % LaneMod) \in 0 .. LaneMod - 1
    BY <1>3
  <2>2. nonceCounters[Scope[p].follower] \in 0 .. LaneMod - 1
    BY <1>3, <1>4
  <2> QED BY <1>4, <2>1, <2>2 DEF NextNonceKey
<1>6. Job(p, k, a) \in Jobs
  BY <1>3, <1>4 DEF Job, Jobs
<1>7. s.job.perm = p /\ s.job.key = k /\ s.job.amt = a
  BY DEF Job
<1>8. TypeOK'
  <2>1. ASSUME NEW g \in Handlers
        PROVE  /\ req'[g].phase \in {"submit", "sent"} => req'[g].job \in Jobs
               /\ req'[g].phase = "sent" => req'[g].op \in DOMAIN ops
    BY <1>0, <1>1, <1>6 DEF TypeOK, OnlyMoves
  <2> QED BY <1>0, <1>1, <1>2, <1>5, <2>1 DEF TypeOK, RegTypeOK, OnlyMoves
<1>9. HandlersOK'
  <2>1. OpsKept
    BY DEF OpsKept
  <2>2. HandlerOK(h)'
    BY <1>1 DEF HandlerOK, Submitting, InPayload, Kind
  <2> QED BY <1>0, <1>1, <2>1, <2>2, HandlersStay
<1>10. k \notin inflight[p].txs
  BY DEF Reserve, Mirrorable
<1>11. \A c \in ClaimsOn(p) : c[1] # k
  BY <1>0, <1>10 DEF BookOK
<1>12. ASSUME NEW g \in Handlers, Submitting(g), req[g].job.perm = p PROVE req[g].job.key # k
  <2>1. <<req[g].job.key, req[g].job.amt>> \in ClaimsOn(p)
    BY <1>12 DEF ClaimsOn, SubmittersOn
  <2> QED BY <1>11, <2>1
<1>13. ASSUME NEW i \in DOMAIN ops, Booked(i), ops[i].perm = p PROVE ops[i].key # k
  <2>1. <<ops[i].key, ops[i].amt>> \in ClaimsOn(p)
    BY <1>13 DEF ClaimsOn, BookedOn
  <2> QED BY <1>11, <2>1
<1>14. \A g \in Handlers : g # h => req'[g] = req[g]
  BY <1>1 DEF OnlyMoves
<1>15. OwnersDistinct'
  <2>1. ASSUME NEW f \in Handlers, NEW g \in Handlers, Submitting(f)', Submitting(g)',
               req'[f].job.perm = req'[g].job.perm, req'[f].job.key = req'[g].job.key
        PROVE  f = g
    BY <1>0, <1>1, <1>7, <1>12, <1>14, <2>1 DEF OwnersDistinct, Submitting
  <2>2. ASSUME NEW g \in Handlers, NEW i \in DOMAIN ops', Submitting(g)', Booked(i)',
               req'[g].job.perm = ops'[i].perm, req'[g].job.key = ops'[i].key
        PROVE  FALSE
    BY <1>0, <1>1, <1>7, <1>13, <1>14, <2>2 DEF OwnersDistinct, Submitting, Booked
  <2>3. ASSUME NEW i \in DOMAIN ops', NEW j \in DOMAIN ops', Booked(i)', Booked(j)',
               ops'[i].perm = ops'[j].perm, ops'[i].key = ops'[j].key
        PROVE  i = j
    BY <1>0, <2>3 DEF OwnersDistinct, Booked
  <2> QED BY <2>1, <2>2, <2>3 DEF OwnersDistinct
<1>16. ASSUME NEW q \in Perms, NEW c \in ClaimsOn(q)'
       PROVE  c \in ClaimsOn(q) \union (IF q = p THEN {<<k, a>>} ELSE {})
  <2>1. CASE \E g \in SubmittersOn(q)' : c = <<req'[g].job.key, req'[g].job.amt>>
    <3>1. PICK g \in SubmittersOn(q)' : c = <<req'[g].job.key, req'[g].job.amt>>
      BY <2>1
    <3>2. g \in Handlers /\ Submitting(g)' /\ req'[g].job.perm = q
      BY <3>1 DEF SubmittersOn
    <3>3. CASE g = h
      BY <1>1, <1>7, <3>1, <3>2, <3>3
    <3>4. CASE g # h
      BY <1>14, <3>1, <3>2, <3>4 DEF ClaimsOn, SubmittersOn, Submitting
    <3> QED BY <3>3, <3>4
  <2>2. CASE \E i \in BookedOn(q)' : c = <<ops'[i].key, ops'[i].amt>>
    BY <2>2 DEF ClaimsOn, BookedOn, Booked
  <2> QED BY <1>16, <2>1, <2>2 DEF ClaimsOn
<1>17. BookOK'
  <2>1. \A q \in Perms : ClaimsOn(q)' \subseteq ClaimsOn(q) \union (IF q = p THEN {<<k, a>>} ELSE {})
    BY <1>16
  <2> QED BY <1>0, <2>1, BookReserves
<1> QED BY <1>2, <1>8, <1>9, <1>15, <1>17 DEF IInv

LEMMA FanSubmitsKeeps ==
    ASSUME IInv, NEW h \in Handlers, NEW p \in Perms, FanSubmits(h, p)
    PROVE  IInv'
<1> DEFINE k == SpendKey(Activity(h))
           a == Amount(h, p)
           s == [req[h] EXCEPT !.fan = @ \ {p}, !.phase = "submit", !.job = Job(p, k, a)]
<1>1. /\ req[h] \in HandlerState /\ HandlerOK(h) /\ req[h].phase = "fan"
      /\ Wants(h, p) /\ Reserve(p, a, k) /\ NextNonceKey(Scope[p].follower) /\ Becomes(h, s)
      /\ turn' = Nobody /\ UNCHANGED <<records, disk, ops, session, crashes>>
  BY RequestTypes DEF FanSubmits, Runs, envVars
<1>2. InPayload(h)
  BY <1>1 DEF HandlerOK
<1>3. a \in Nat /\ k \in Keys
  BY <1>1, <1>2, AmountType DEF IInv
<1>4. Job(p, k, a) \in Jobs
  <2> HIDE DEF k, a
  <2> QED BY <1>3, ScopeAssumption DEF Job, Jobs, IInv, TypeOK, RegTypeOK
<1>5. s \in HandlerState /\ s.phase = "submit" /\ s.job = Job(p, k, a) /\ s.pos = req[h].pos
  <2> HIDE DEF k, a
  <2> QED BY <1>1, <1>4 DEF HandlerState, Phases
<1>6. ~ Submitting(h)
  BY <1>1 DEF Submitting
<1> HIDE DEF k, a, s
<1> QED BY <1>1, <1>2, <1>3, <1>5, <1>6, ReserveAndSubmit DEF InPayload

LEMMA TriggerKeeps ==
    ASSUME IInv, NEW h \in Handlers, TriggerStep(h)
    PROVE  IInv'
<1>0. /\ req[h] \in HandlerState /\ turn \in Handlers \union {Nobody}
      /\ session \in [Perms -> SessionStates]
      /\ \A reply \in {"ok", "error"} : Finished(reply) \in HandlerState /\ Finished(reply).phase = "done"
  BY RequestTypes
<1>1. CASE TriggerRejects(h)
  <2>1. Becomes(h, Finished("error")) /\ ~ Submitting(h)
    BY <1>1 DEF TriggerRejects, Arrives, Submitting
  <2> QED BY <1>0, <1>1, <2>1, QuietStep DEF TriggerRejects, envVars
<1>2. CASE TriggerSubmits(h)
  <2> DEFINE p == Request[h].perm
             k == TriggerKey(Request[h])
             a == TriggerSpend(h)
             s == [req[h] EXCEPT !.phase = "submit", !.job = Job(p, k, a)]
  <2>1. /\ Kind(h) = "trigger" /\ TriggerValid(h) /\ ~ Submitting(h)
        /\ Reserve(p, a, k) /\ NextNonceKey(Scope[p].follower) /\ Becomes(h, s)
        /\ UNCHANGED <<records, disk, turn, ops, session, crashes>>
    BY <1>2 DEF TriggerSubmits, Arrives, Submitting, envVars
  <2>2. p \in Perms /\ k \in Keys /\ a \in Nat
    BY <2>1, TriggerType
  <2>3. Job(p, k, a) \in Jobs
    <3> HIDE DEF p, k, a
    <3> QED BY <2>2, ScopeAssumption DEF Job, Jobs, IInv, TypeOK, RegTypeOK
  <2>4. s \in HandlerState /\ s.phase = "submit" /\ s.job = Job(p, k, a)
    <3> HIDE DEF p, k, a
    <3> QED BY <1>0, <2>3 DEF HandlerState, Phases
  <2> HIDE DEF p, k, a, s
  <2> QED BY <1>0, <2>1, <2>2, <2>4, ReserveAndSubmit
<1> QED BY <1>1, <1>2 DEF TriggerStep

-----------------------------------------------------------------------------
(* Mirrors: the answer of the bundler and the settlement.                  *)

\* One accepted op changes its status or its watcher.
LEMMA OpChanges ==
    ASSUME TypeOK, NEW i \in DOMAIN ops, NEW o \in Op, ops' = [ops EXCEPT ![i] = o],
           o.perm = ops[i].perm, o.key = ops[i].key, o.amt = ops[i].amt
    PROVE  /\ ops' \in Seq(Op) /\ DOMAIN ops' = DOMAIN ops /\ OpsKept
           /\ ops'[i] = o /\ \A j \in DOMAIN ops : j # i => ops'[j] = ops[j]
<1>1. ops \in Seq(Op)
  BY DEF TypeOK
<1>2. ops' \in Seq(Op) /\ DOMAIN ops' = DOMAIN ops
  BY <1>1, ExceptSeq
<1> QED BY <1>2 DEF OpsKept

\* After the await the handler has no mirror under way.
LEMMA ContinueMoves ==
    ASSUME IInv, NEW h \in Handlers, Submitting(h), NEW reply \in {"ok", "error"}, Continue(h, reply)
    PROVE  /\ OnlyMoves(h) /\ HandlerOK(h)'
           /\ req'[h].phase \notin {"submit", "sent"}
           /\ turn' \in Handlers \union {Nobody}
<1>0. req[h] \in HandlerState /\ HandlerOK(h) /\ TypeOK
      /\ Finished(reply) \in HandlerState /\ Finished(reply).phase = "done"
  BY RequestTypes DEF IInv
<1>1. CASE Kind(h) = "webhook"
  <2> DEFINE s == [req[h] EXCEPT !.phase = "fan", !.job = NoValue, !.op = 0]
  <2>1. Becomes(h, s) /\ turn' = h
    BY <1>1 DEF Continue
  <2>2. s \in HandlerState /\ s.phase = "fan" /\ s.pos = req[h].pos
    BY <1>0 DEF HandlerState, Phases
  <2> HIDE DEF s
  <2>3. OnlyMoves(h) /\ req'[h] = s
    BY <1>0, <2>1, <2>2, MovesTo
  <2> QED BY <1>0, <1>1, <2>1, <2>2, <2>3 DEF HandlerOK, Submitting, InPayload, Kind
<1>2. CASE Kind(h) # "webhook"
  <2>1. Becomes(h, Finished(reply)) /\ turn' = Nobody
    BY <1>2 DEF Continue
  <2>2. OnlyMoves(h) /\ req'[h] = Finished(reply)
    BY <1>0, <2>1, MovesTo
  <2> QED BY <1>0, <1>2, <2>1, <2>2 DEF HandlerOK, Submitting, InPayload, Kind
<1> QED BY <1>1, <1>2

\* The mirror that h submitted is given up: its own reservation is released, no other.
LEMMA ThrowReleases ==
    ASSUME IInv, NEW h \in Handlers, SubmitThrows(h) \/ ReplyLost(h),
           NEW p \in Perms, NEW k \in Keys, NEW a \in Nat,
           req[h].job.perm = p, req[h].job.key = k, req[h].job.amt = a
    PROVE  /\ Submitting(h) /\ OnlyMoves(h) /\ HandlerOK(h)'
           /\ req'[h].phase \notin {"submit", "sent"}
           /\ turn' \in Handlers \union {Nobody}
           /\ UNCHANGED <<records, disk, nonceCounters, ops, session, crashes>>
           /\ OwnersDistinct' /\ BookOK'
           /\ k \in inflight[p].txs
           /\ \A q \in Perms : q # p => inflight'[q] = inflight[q]
           /\ inflight'[p] = [txs |-> inflight[p].txs \ {k}, spend |-> inflight[p].spend - a]
           /\ inflight' \in [Perms -> Booking]
<1>0. TypeOK /\ OwnersDistinct /\ BookOK
  BY DEF IInv
<1>1. /\ Submitting(h) /\ ReleaseInflight(p, a, k) /\ Continue(h, "error")
      /\ UNCHANGED <<records, disk, nonceCounters, ops, session, crashes>>
  BY DEF SubmitThrows, ReplyLost, ReleaseReservation, Awaits, Submitting, envVars
<1>3. /\ OnlyMoves(h) /\ HandlerOK(h)'
      /\ req'[h].phase \notin {"submit", "sent"}
      /\ turn' \in Handlers \union {Nobody}
  BY <1>1, ContinueMoves
<1>4. NoNewOwner
  BY <1>1, <1>3 DEF OnlyMoves, NoNewOwner, Submitting, Booked
<1>5. OwnersDistinct' /\ \A q \in Perms : ClaimsOn(q)' \subseteq ClaimsOn(q)
  BY <1>0, <1>4, OwnersStay
<1>6. <<k, a>> \in ClaimsOn(p)
  BY <1>1 DEF ClaimsOn, SubmittersOn
<1>7. ASSUME NEW c \in ClaimsOn(p)' PROVE c[1] # k
  <2>1. CASE \E g \in SubmittersOn(p)' : c = <<req'[g].job.key, req'[g].job.amt>>
    <3>1. PICK g \in SubmittersOn(p)' : c = <<req'[g].job.key, req'[g].job.amt>>
      BY <2>1
    <3>2. g \in Handlers /\ g # h /\ Submitting(g) /\ req'[g] = req[g] /\ req[g].job.perm = p
      BY <1>3, <3>1 DEF SubmittersOn, Submitting, OnlyMoves
    <3> QED BY <1>0, <1>1, <3>1, <3>2 DEF OwnersDistinct
  <2>2. CASE \E i \in BookedOn(p)' : c = <<ops'[i].key, ops'[i].amt>>
    <3>1. PICK i \in BookedOn(p)' : c = <<ops'[i].key, ops'[i].amt>>
      BY <2>2
    <3>2. i \in DOMAIN ops /\ Booked(i) /\ ops[i].perm = p
      BY <1>1, <3>1 DEF BookedOn, Booked
    <3> QED BY <1>0, <1>1, <3>1, <3>2 DEF OwnersDistinct
  <2> QED BY <1>7, <2>1, <2>2 DEF ClaimsOn
<1>8. /\ BookOK' /\ k \in inflight[p].txs
      /\ \A q \in Perms : q # p => inflight'[q] = inflight[q]
      /\ inflight'[p] = [txs |-> inflight[p].txs \ {k}, spend |-> inflight[p].spend - a]
      /\ inflight' \in [Perms -> Booking]
  BY <1>0, <1>1, <1>5, <1>6, <1>7, BookReleases
<1> QED BY <1>1, <1>3, <1>5, <1>8

LEMMA ThrowsKeeps ==
    ASSUME IInv, NEW h \in Handlers, SubmitThrows(h) \/ ReplyLost(h)
    PROVE  IInv'
<1>0. TypeOK /\ HandlersOK /\ Budget
  BY DEF IInv
<1>1. req[h].job \in Jobs
  BY <1>0 DEF SubmitThrows, ReplyLost, Awaits, Submitting, TypeOK
<1>2. PICK p \in Perms, k \in Keys, a \in Nat :
          req[h].job.perm = p /\ req[h].job.key = k /\ req[h].job.amt = a
  BY <1>1 DEF Jobs
<1>3. /\ OnlyMoves(h) /\ HandlerOK(h)'
      /\ req'[h].phase \notin {"submit", "sent"}
      /\ turn' \in Handlers \union {Nobody}
      /\ UNCHANGED <<records, disk, nonceCounters, ops, session, crashes>>
      /\ OwnersDistinct' /\ BookOK'
      /\ \A q \in Perms : q # p => inflight'[q] = inflight[q]
      /\ inflight'[p] = [txs |-> inflight[p].txs \ {k}, spend |-> inflight[p].spend - a]
      /\ inflight' \in [Perms -> Booking]
  BY <1>2, ThrowReleases
<1>4. Budget'
  BY <1>0, <1>3, BudgetReleases
<1>5. TypeOK'
  <2>1. ASSUME NEW g \in Handlers
        PROVE  /\ req'[g].phase \in {"submit", "sent"} => req'[g].job \in Jobs
               /\ req'[g].phase = "sent" => req'[g].op \in DOMAIN ops
    BY <1>0, <1>3 DEF TypeOK, OnlyMoves
  <2> QED BY <1>0, <1>3, <2>1 DEF TypeOK, RegTypeOK, OnlyMoves
<1>6. HandlersOK'
  <2>1. OpsKept
    BY <1>3 DEF OpsKept
  <2> QED BY <1>0, <1>3, <2>1, HandlersStay
<1> QED BY <1>3, <1>4, <1>5, <1>6 DEF IInv

LEMMA AcceptsKeeps ==
    ASSUME IInv, NEW h \in Handlers, BundlerAccepts(h)
    PROVE  IInv'
<1>0. TypeOK /\ HandlersOK /\ OwnersDistinct /\ BookOK /\ Budget
  BY DEF IInv
<1> DEFINE j == req[h].job
           o == [perm |-> j.perm, key |-> j.key, amt |-> j.amt, lane |-> j.lane,
                 by |-> h, status |-> "mempool", watch |-> "none"]
           n == Len(ops) + 1
           s == [req[h] EXCEPT !.phase = "sent", !.op = n]
<1>1. /\ Submitting(h) /\ req[h].phase = "submit" /\ ops' = Append(ops, o) /\ Becomes(h, s)
      /\ UNCHANGED <<regVars, turn, session, crashes>>
  BY DEF BundlerAccepts, Submitting
<1>2. req[h] \in HandlerState /\ HandlerOK(h) /\ j \in Jobs
  BY <1>0, <1>1, RequestTypes DEF TypeOK, Submitting
<1>3. o \in Op /\ o.perm = j.perm /\ o.key = j.key /\ o.amt = j.amt /\ o.watch = "none"
  BY <1>2 DEF Op, Jobs
<1>4. ops \in Seq(Op) /\ Len(ops) \in Nat /\ DOMAIN ops = 1 .. Len(ops)
  BY <1>0, LenProperties DEF TypeOK
<1>5. n \in Nat /\ n \notin DOMAIN ops
  BY <1>4
<1>6. s \in HandlerState /\ s.phase = "sent" /\ s.op = n /\ s.job = req[h].job /\ s.pos = req[h].pos
  <2> HIDE DEF n
  <2> QED BY <1>2, <1>5 DEF HandlerState, Phases
<1> HIDE DEF o, s
<1>7. /\ ops' \in Seq(Op) /\ DOMAIN ops' = DOMAIN ops \union {n}
      /\ ops'[n] = o /\ \A i \in DOMAIN ops : ops'[i] = ops[i]
  <2>1. /\ Append(ops, o) \in Seq(Op) /\ Len(Append(ops, o)) = n
        /\ \A i \in 1 .. Len(ops) : Append(ops, o)[i] = ops[i]
        /\ Append(ops, o)[n] = o
    BY <1>3, <1>4, AppendProperties
  <2>2. DOMAIN Append(ops, o) = 1 .. n
    BY <2>1, LenProperties
  <2>3. 1 .. n = 1 .. Len(ops) \union {n}
    BY <1>4
  <2> QED BY <1>1, <1>4, <2>1, <2>2, <2>3
<1> HIDE DEF n
<1>8. OnlyMoves(h) /\ req'[h] = s
  BY <1>0, <1>1, <1>6, MovesTo
<1>9. OpsKept
  BY <1>7 DEF OpsKept
<1>10. TypeOK'
  <2>1. ASSUME NEW g \in Handlers
        PROVE  /\ req'[g].phase \in {"submit", "sent"} => req'[g].job \in Jobs
               /\ req'[g].phase = "sent" => req'[g].op \in DOMAIN ops'
    BY <1>0, <1>2, <1>6, <1>7, <1>8 DEF TypeOK, OnlyMoves
  <2>2. RegTypeOK'
    BY <1>0, <1>1 DEF TypeOK, RegTypeOK, regVars
  <2> QED BY <1>0, <1>1, <1>7, <1>8, <2>1, <2>2 DEF TypeOK, OnlyMoves
<1>11. HandlersOK'
  <2>1. HandlerOK(h)'
    BY <1>1, <1>2, <1>3, <1>6, <1>7, <1>8 DEF HandlerOK, Submitting, InPayload, Kind
  <2> QED BY <1>0, <1>8, <1>9, <2>1, HandlersStay
<1>12. NoNewOwner
  BY <1>1, <1>3, <1>6, <1>7, <1>8 DEF OnlyMoves, NoNewOwner, Submitting, Booked
<1>13. OwnersDistinct' /\ \A q \in Perms : ClaimsOn(q)' \subseteq ClaimsOn(q)
  BY <1>0, <1>12, OwnersStay
<1>14. BookOK' /\ Budget'
  BY <1>0, <1>1, <1>13, BookStays
  DEF regVars, Budget, ExposureWithinCap, ChargedOnce, DiskWithinCap, Cap, Mirrored, NoRepeats
<1> QED BY <1>10, <1>11, <1>13, <1>14 DEF IInv

\* The reservation passes from the handler to the op it submitted.
LEMMA ReturnsKeeps ==
    ASSUME IInv, NEW h \in Handlers, SubmitReturns(h)
    PROVE  IInv'
<1>0. TypeOK /\ HandlersOK /\ OwnersDistinct /\ BookOK /\ Budget
  BY DEF IInv
<1>1. /\ Submitting(h) /\ req[h].phase = "sent" /\ req[h].job \in Jobs /\ req[h].op \in DOMAIN ops
      /\ ops' = [ops EXCEPT ![req[h].op] = [ops[req[h].op] EXCEPT !.watch = "polling"]]
      /\ Continue(h, "ok") /\ UNCHANGED <<regVars, session, crashes>>
  BY <1>0 DEF SubmitReturns, Awaits, Submitting, TypeOK
<1>2. PICK i \in DOMAIN ops : i = req[h].op
  BY <1>1
<1> DEFINE o == [ops[i] EXCEPT !.watch = "polling"]
<1>3. ops[i].perm = req[h].job.perm /\ ops[i].key = req[h].job.key /\ ops[i].amt = req[h].job.amt
  BY <1>0, <1>1, <1>2 DEF HandlersOK, HandlerOK
<1>4. ops[i] \in Op
  BY <1>0, LenProperties, ElementOfSeq DEF TypeOK
<1>5. /\ o \in Op /\ o.perm = ops[i].perm /\ o.key = ops[i].key /\ o.amt = ops[i].amt
  BY <1>4 DEF Op
<1> HIDE DEF o
<1>6. /\ ops' \in Seq(Op) /\ DOMAIN ops' = DOMAIN ops /\ OpsKept
      /\ ops'[i] = o /\ \A j \in DOMAIN ops : j # i => ops'[j] = ops[j]
  <2>1. ops' = [ops EXCEPT ![i] = o]
    BY <1>1, <1>2 DEF o
  <2> QED BY <1>0, <1>5, <2>1, OpChanges
<1>7. /\ OnlyMoves(h) /\ HandlerOK(h)'
      /\ req'[h].phase \notin {"submit", "sent"}
      /\ turn' \in Handlers \union {Nobody}
  BY <1>1, ContinueMoves
<1>8. TypeOK'
  <2>1. ASSUME NEW g \in Handlers
        PROVE  /\ req'[g].phase \in {"submit", "sent"} => req'[g].job \in Jobs
               /\ req'[g].phase = "sent" => req'[g].op \in DOMAIN ops'
    BY <1>0, <1>6, <1>7 DEF TypeOK, OnlyMoves
  <2>2. RegTypeOK'
    BY <1>0, <1>1 DEF TypeOK, RegTypeOK, regVars
  <2> QED BY <1>0, <1>1, <1>6, <1>7, <2>1, <2>2 DEF TypeOK, OnlyMoves
<1>9. HandlersOK'
  BY <1>0, <1>6, <1>7, HandlersStay
<1>10. \A g \in Handlers : Submitting(g)' => g # h /\ Submitting(g) /\ req'[g] = req[g]
  BY <1>7 DEF OnlyMoves, Submitting
<1>11. \A j \in DOMAIN ops' : Booked(j)' =>
          /\ j \in DOMAIN ops /\ ops'[j].perm = ops[j].perm
          /\ ops'[j].key = ops[j].key /\ ops'[j].amt = ops[j].amt
          /\ j = i \/ Booked(j)
  BY <1>5, <1>6 DEF Booked
<1>12. OwnersDistinct'
  <2>1. ASSUME NEW f \in Handlers, NEW g \in Handlers, Submitting(f)', Submitting(g)',
               req'[f].job.perm = req'[g].job.perm, req'[f].job.key = req'[g].job.key
        PROVE  f = g
    BY <1>0, <1>10, <2>1 DEF OwnersDistinct
  <2>2. ASSUME NEW j \in DOMAIN ops', NEW k \in DOMAIN ops', Booked(j)', Booked(k)',
               ops'[j].perm = ops'[k].perm, ops'[j].key = ops'[k].key
        PROVE  j = k
    BY <1>0, <1>1, <1>3, <1>11, <2>2 DEF OwnersDistinct
  <2>3. ASSUME NEW g \in Handlers, NEW j \in DOMAIN ops', Submitting(g)', Booked(j)',
               req'[g].job.perm = ops'[j].perm, req'[g].job.key = ops'[j].key
        PROVE  FALSE
    BY <1>0, <1>1, <1>3, <1>10, <1>11, <2>3 DEF OwnersDistinct
  <2> QED BY <2>1, <2>2, <2>3 DEF OwnersDistinct
<1>13. ASSUME NEW q \in Perms, NEW c \in ClaimsOn(q)' PROVE c \in ClaimsOn(q)
  <2>1. CASE \E g \in SubmittersOn(q)' : c = <<req'[g].job.key, req'[g].job.amt>>
    <3>1. PICK g \in SubmittersOn(q)' : c = <<req'[g].job.key, req'[g].job.amt>>
      BY <2>1
    <3>2. g \in SubmittersOn(q) /\ req'[g] = req[g]
      BY <1>10, <3>1 DEF SubmittersOn
    <3> QED BY <3>1, <3>2 DEF ClaimsOn
  <2>2. CASE \E j \in BookedOn(q)' : c = <<ops'[j].key, ops'[j].amt>>
    <3>1. PICK j \in BookedOn(q)' : c = <<ops'[j].key, ops'[j].amt>>
      BY <2>2
    <3>2. /\ j \in DOMAIN ops /\ ops[j].perm = q /\ c = <<ops[j].key, ops[j].amt>>
          /\ j = i \/ Booked(j)
      BY <1>11, <3>1 DEF BookedOn
    <3>3. CASE Booked(j)
      BY <3>2, <3>3 DEF ClaimsOn, BookedOn
    <3>4. CASE j = i
      BY <1>1, <1>3, <3>2, <3>4 DEF ClaimsOn, SubmittersOn
    <3> QED BY <3>2, <3>3, <3>4
  <2> QED BY <1>13, <2>1, <2>2 DEF ClaimsOn
<1>14. BookOK' /\ Budget'
  BY <1>0, <1>1, <1>13, BookStays
  DEF regVars, Budget, ExposureWithinCap, ChargedOnce, DiskWithinCap, Cap, Mirrored, NoRepeats
<1> QED BY <1>8, <1>9, <1>12, <1>14 DEF IInv

LEMMA SubmitKeeps ==
    ASSUME IInv, NEW h \in Handlers, SubmitStep(h)
    PROVE  IInv'
BY AcceptsKeeps, ThrowsKeeps, ReturnsKeeps DEF SubmitStep

\* A step that leaves the requests alone and keeps every accepted op what it was.
LEMMA EnvironmentStep ==
    ASSUME TypeOK, HandlersOK, UNCHANGED <<req, turn>>, OpsKept, ops' \in Seq(Op), RegTypeOK',
           session' \in [Perms -> SessionStates], crashes' \in 0 .. MaxCrashes
    PROVE  TypeOK' /\ HandlersOK'
<1>1. TypeOK'
  BY DEF TypeOK, OpsKept
<1>2. ASSUME NEW h \in Handlers PROVE HandlerOK(h)'
  <2>1. HandlerOK(h) /\ (req[h].phase = "sent" => req[h].op \in DOMAIN ops)
    BY DEF HandlersOK, TypeOK
  <2> QED BY <2>1 DEF OpsKept, HandlerOK, Submitting, InPayload, Kind
<1> QED BY <1>1, <1>2 DEF HandlersOK

\* The same when the registry is not touched and no mirror under way appears.
LEMMA QuietEnvironment ==
    ASSUME IInv, UNCHANGED <<regVars, req, turn>>, OpsKept, ops' \in Seq(Op), NoNewOwner,
           session' \in [Perms -> SessionStates], crashes' \in 0 .. MaxCrashes
    PROVE  IInv'
<1>0. TypeOK /\ HandlersOK /\ OwnersDistinct /\ BookOK /\ Budget
  BY DEF IInv
<1>1. RegTypeOK'
  BY <1>0 DEF TypeOK, RegTypeOK, regVars
<1>2. TypeOK' /\ HandlersOK'
  BY <1>0, <1>1, EnvironmentStep
<1>3. OwnersDistinct' /\ \A q \in Perms : ClaimsOn(q)' \subseteq ClaimsOn(q)
  BY <1>0, OwnersStay
<1>4. BookOK' /\ Budget'
  BY <1>0, <1>3, BookStays
  DEF regVars, Budget, ExposureWithinCap, ChargedOnce, DiskWithinCap, Cap, Mirrored, NoRepeats
<1> QED BY <1>2, <1>3, <1>4 DEF IInv

\* Settling op i takes its reservation, and only that, out of the book.
LEMMA SettleReleases ==
    ASSUME IInv, NEW i \in DOMAIN ops, ops[i].watch = "polling",
           ops' = [ops EXCEPT ![i].watch = "settled"], req' = req,
           NEW p \in Perms, NEW k \in Keys, NEW a \in Nat,
           ops[i].perm = p, ops[i].key = k, ops[i].amt = a, ReleaseInflight(p, a, k)
    PROVE  /\ ops' \in Seq(Op) /\ OpsKept /\ OwnersDistinct' /\ BookOK'
           /\ k \in inflight[p].txs
           /\ \A q \in Perms : q # p => inflight'[q] = inflight[q]
           /\ inflight'[p] = [txs |-> inflight[p].txs \ {k}, spend |-> inflight[p].spend - a]
           /\ inflight' \in [Perms -> Booking]
<1>0. TypeOK /\ OwnersDistinct /\ BookOK
  BY DEF IInv
<1> DEFINE o == [ops[i] EXCEPT !.watch = "settled"]
<1>1. ops[i] \in Op
  BY <1>0, LenProperties, ElementOfSeq DEF TypeOK
<1>2. o \in Op /\ o.perm = ops[i].perm /\ o.key = ops[i].key /\ o.amt = ops[i].amt /\ o.watch = "settled"
  BY <1>1 DEF Op
<1>3. ops' = [ops EXCEPT ![i] = o]
  OBVIOUS
<1> HIDE DEF o
<1>4. /\ ops' \in Seq(Op) /\ DOMAIN ops' = DOMAIN ops /\ OpsKept
      /\ ops'[i] = o /\ \A j \in DOMAIN ops : j # i => ops'[j] = ops[j]
  BY <1>0, <1>2, <1>3, OpChanges
<1>5. Booked(i) /\ \A j \in DOMAIN ops' : Booked(j)' => j # i /\ Booked(j)
  BY <1>2, <1>4 DEF Booked
<1>6. NoNewOwner
  BY <1>4, <1>5 DEF NoNewOwner, Submitting
<1>7. OwnersDistinct' /\ \A q \in Perms : ClaimsOn(q)' \subseteq ClaimsOn(q)
  BY <1>0, <1>6, OwnersStay
<1>8. <<k, a>> \in ClaimsOn(p)
  BY <1>5 DEF ClaimsOn, BookedOn
<1>9. ASSUME NEW c \in ClaimsOn(p)' PROVE c[1] # k
  <2>1. CASE \E h \in SubmittersOn(p)' : c = <<req'[h].job.key, req'[h].job.amt>>
    <3>1. PICK h \in SubmittersOn(p) : c = <<req[h].job.key, req[h].job.amt>>
      BY <2>1 DEF SubmittersOn, Submitting
    <3> QED BY <1>0, <1>5, <3>1 DEF OwnersDistinct, SubmittersOn
  <2>2. CASE \E j \in BookedOn(p)' : c = <<ops'[j].key, ops'[j].amt>>
    <3>1. PICK j \in BookedOn(p)' : c = <<ops'[j].key, ops'[j].amt>>
      BY <2>2
    <3>2. j \in DOMAIN ops /\ j # i /\ Booked(j) /\ ops'[j] = ops[j] /\ ops[j].perm = p
      BY <1>4, <1>5, <3>1 DEF BookedOn
    <3> QED BY <1>0, <1>5, <3>1, <3>2 DEF OwnersDistinct
  <2> QED BY <1>9, <2>1, <2>2 DEF ClaimsOn
<1> QED BY <1>0, <1>4, <1>7, <1>8, <1>9, BookReleases

LEMMA SettleKeeps ==
    ASSUME IInv, NEW i \in DOMAIN ops, Settle(i)
    PROVE  IInv'
<1>0. TypeOK /\ HandlersOK /\ OwnersDistinct /\ BookOK /\ Budget
  BY DEF IInv
<1>1. ops[i] \in Op /\ session \in [Perms -> SessionStates] /\ crashes \in 0 .. MaxCrashes
  BY <1>0, LenProperties, ElementOfSeq DEF TypeOK
<1>2. PICK p \in Perms, k \in Keys, a \in Nat : ops[i].perm = p /\ ops[i].key = k /\ ops[i].amt = a
  BY <1>1 DEF Op
<1>3. ASSUME NEW ok \in WriteOutcomes, SettleSuccess(i, ok) PROVE IInv'
  <2>1. /\ ReleaseInflight(p, a, k) /\ RecordMirror(p, a, k, ok) /\ ok \in BOOLEAN
        /\ ops[i].watch = "polling" /\ ops' = [ops EXCEPT ![i].watch = "settled"]
        /\ UNCHANGED <<nonceCounters, req, turn, session, crashes>>
    BY <1>2, <1>3, WritesBoolean DEF SettleSuccess, CommitReservation
  <2>2. /\ ops' \in Seq(Op) /\ OpsKept /\ OwnersDistinct' /\ BookOK'
        /\ k \in inflight[p].txs
        /\ \A q \in Perms : q # p => inflight'[q] = inflight[q]
        /\ inflight'[p] = [txs |-> inflight[p].txs \ {k}, spend |-> inflight[p].spend - a]
        /\ inflight' \in [Perms -> Booking]
    BY <1>2, <2>1, SettleReleases
  <2>3. Budget' /\ records' \in [Perms -> CopyRecord] /\ disk' \in [Perms -> CopyRecord]
    BY <1>0, <2>1, <2>2, BudgetCommits
  <2>4. RegTypeOK'
    BY <1>0, <2>1, <2>2, <2>3 DEF TypeOK, RegTypeOK
  <2>5. TypeOK' /\ HandlersOK'
    BY <1>0, <1>1, <2>1, <2>2, <2>4, EnvironmentStep
  <2> QED BY <2>2, <2>3, <2>5 DEF IInv
<1>4. CASE SettleReverted(i)
  <2>1. /\ ReleaseInflight(p, a, k)
        /\ ops[i].watch = "polling" /\ ops' = [ops EXCEPT ![i].watch = "settled"]
        /\ UNCHANGED <<records, disk, nonceCounters, req, turn, session, crashes>>
    BY <1>2, <1>4 DEF SettleReverted, ReleaseReservation
  <2>2. /\ ops' \in Seq(Op) /\ OpsKept /\ OwnersDistinct' /\ BookOK'
        /\ \A q \in Perms : q # p => inflight'[q] = inflight[q]
        /\ inflight'[p] = [txs |-> inflight[p].txs \ {k}, spend |-> inflight[p].spend - a]
        /\ inflight' \in [Perms -> Booking]
    BY <1>2, <2>1, SettleReleases
  <2>3. Budget'
    BY <1>0, <2>1, <2>2, BudgetReleases
  <2>4. RegTypeOK'
    BY <1>0, <2>1, <2>2 DEF TypeOK, RegTypeOK
  <2>5. TypeOK' /\ HandlersOK'
    BY <1>0, <1>1, <2>1, <2>2, <2>4, EnvironmentStep
  <2> QED BY <2>2, <2>3, <2>5 DEF IInv
<1>5. CASE SettleTimeout(i)
  <2> DEFINE o == [ops[i] EXCEPT !.watch = "gaveup"]
  <2>1. /\ ops[i].watch = "polling" /\ ops' = [ops EXCEPT ![i] = o]
        /\ UNCHANGED <<regVars, req, turn, session, crashes>>
    BY <1>5 DEF SettleTimeout
  <2>2. o \in Op /\ o.perm = ops[i].perm /\ o.key = ops[i].key /\ o.amt = ops[i].amt
    BY <1>1 DEF Op
  <2> HIDE DEF o
  <2>3. /\ ops' \in Seq(Op) /\ DOMAIN ops' = DOMAIN ops /\ OpsKept
        /\ ops'[i] = o /\ \A j \in DOMAIN ops : j # i => ops'[j] = ops[j]
    BY <1>0, <2>1, <2>2, OpChanges
  <2>4. NoNewOwner
    BY <2>1, <2>2, <2>3 DEF NoNewOwner, Submitting, Booked
  <2> QED BY <1>0, <1>1, <2>1, <2>3, <2>4, QuietEnvironment
<1> QED BY <1>3, <1>4, <1>5 DEF Settle

-----------------------------------------------------------------------------
(* The owner, the chain and crashes.                                       *)

\* A prepare starts from nothing charged.
LEMMA BudgetPrepares ==
    ASSUME TypeOK, BookOK, Budget, NEW p \in Perms, NEW ok \in BOOLEAN, Prepare(p, ok), inflight' = inflight
    PROVE  Budget' /\ records' \in [Perms -> CopyRecord] /\ disk' \in [Perms -> CopyRecord]
<1> DEFINE r == FreshRecord("prepared")
<1>1. /\ records \in [Perms -> CopyRecord] /\ disk \in [Perms -> CopyRecord]
      /\ inflight \in [Perms -> Booking]
  BY DEF TypeOK, RegTypeOK
<1>2. r \in CopyRecord /\ r.spentTotal = 0 /\ r.mirroredTx = <<>>
  BY EmptySeq DEF FreshRecord, CopyRecord, Statuses
<1>3. records' = [records EXCEPT ![p] = r] /\ (disk' = disk \/ disk' = records')
  BY DEF Prepare, Upsert
<1> HIDE DEF r
<1>4. records' \in [Perms -> CopyRecord] /\ disk' \in [Perms -> CopyRecord]
  BY <1>1, <1>2, <1>3
<1>5. ASSUME NEW q \in Perms
      PROVE  /\ records'[q].spentTotal + inflight'[q].spend <= Cap(q)
             /\ records'[q].spentTotal <= Cap(q)
             /\ NoRepeats(records'[q].mirroredTx)
             /\ Mirrored(records'[q]) \intersect inflight'[q].txs = {}
  <2>1. /\ records[q].spentTotal \in Nat /\ inflight[q].spend \in Int /\ Cap(q) \in Nat
        /\ records[q].spentTotal + inflight[q].spend <= Cap(q)
        /\ records[q].spentTotal <= Cap(q)
    BY <1>1, ScopeAssumption, SpentWithinCap DEF CopyRecord, Booking, Cap, Budget, ExposureWithinCap
  <2>2. /\ NoRepeats(records[q].mirroredTx)
        /\ Mirrored(records[q]) \intersect inflight[q].txs = {}
    BY DEF Budget, ChargedOnce
  <2>3. CASE q # p
    BY <1>1, <1>3, <2>1, <2>2, <2>3
  <2>4. CASE q = p
    <3>1. records'[p] = r
      BY <1>1, <1>3
    <3>2. NoRepeats(r.mirroredTx) /\ Mirrored(r) = {}
      BY <1>2 DEF NoRepeats, Mirrored
    <3> QED BY <1>2, <2>1, <2>4, <3>1, <3>2
  <2> QED BY <2>3, <2>4
<1>6. ExposureWithinCap' /\ DiskWithinCap'
  BY <1>3, <1>5 DEF ExposureWithinCap, DiskWithinCap, Cap, Budget
<1>7. ChargedOnce'
  <2>1. \A q \in Perms : NoRepeats(disk[q].mirroredTx)
    BY DEF Budget, ChargedOnce
  <2>2. \A q \in Perms : NoRepeats(disk'[q].mirroredTx)
    BY <1>3, <1>5, <2>1
  <2> QED BY <1>5, <2>2 DEF ChargedOnce, NoRepeats, Mirrored
<1> QED BY <1>4, <1>6, <1>7 DEF Budget

LEMMA OwnerKeeps ==
    ASSUME IInv, NEW p \in Perms, OwnerStep(p)
    PROVE  IInv'
<1>0. TypeOK /\ HandlersOK /\ OwnersDistinct /\ BookOK /\ Budget /\ records[p] \in CopyRecord
  BY DEF IInv, TypeOK, RegTypeOK
<1>1. ASSUME RegTypeOK', Budget', UNCHANGED <<inflight, req, turn, envVars>> PROVE IInv'
  <2>1. ops' \in Seq(Op) /\ OpsKept /\ session' \in [Perms -> SessionStates] /\ crashes' \in 0 .. MaxCrashes
    BY <1>0, <1>1 DEF TypeOK, OpsKept, envVars
  <2>2. TypeOK' /\ HandlersOK'
    BY <1>0, <1>1, <2>1, EnvironmentStep
  <2>3. NoNewOwner
    BY <1>1 DEF NoNewOwner, Submitting, Booked, envVars
  <2>4. OwnersDistinct' /\ \A q \in Perms : ClaimsOn(q)' \subseteq ClaimsOn(q)
    BY <1>0, <2>3, OwnersStay
  <2>5. BookOK'
    BY <1>0, <1>1, <2>4, BookStays
  <2> QED BY <1>1, <2>2, <2>4, <2>5 DEF IInv
<1>2. ASSUME NEW ok \in WriteOutcomes, OwnerPrepares(p, ok) PROVE IInv'
  <2>1. Budget' /\ records' \in [Perms -> CopyRecord] /\ disk' \in [Perms -> CopyRecord]
    BY <1>0, <1>2, WritesBoolean, BudgetPrepares DEF OwnerPrepares
  <2>2. RegTypeOK'
    BY <1>0, <1>2, <2>1 DEF OwnerPrepares, TypeOK, RegTypeOK
  <2> QED BY <1>1, <1>2, <2>1, <2>2 DEF OwnerPrepares
<1>3. ASSUME NEW ok \in WriteOutcomes, OwnerGrants(p, ok) PROVE IInv'
  <2> DEFINE r == [records[p] EXCEPT !.status = "granted"]
  <2>1. r \in CopyRecord /\ r.spentTotal = records[p].spentTotal /\ r.mirroredTx = records[p].mirroredTx
    BY <1>0 DEF CopyRecord, Statuses
  <2>2. Upsert(p, r, ok) /\ ok \in BOOLEAN /\ UNCHANGED <<inflight, nonceCounters, req, turn, envVars>>
    BY <1>3, WritesBoolean DEF OwnerGrants, Grant
  <2> HIDE DEF r
  <2>3. RegTypeOK' /\ Budget'
    BY <2>1, <2>2, RecordStep
  <2> QED BY <1>1, <2>2, <2>3
<1>4. ASSUME NEW ok \in WriteOutcomes, NEW paused \in BOOLEAN, OwnerPauses(p, paused, ok) PROVE IInv'
  <2> DEFINE r == [records[p] EXCEPT !.paused = paused]
  <2>1. r \in CopyRecord /\ r.spentTotal = records[p].spentTotal /\ r.mirroredTx = records[p].mirroredTx
    BY <1>0 DEF CopyRecord
  <2>2. Upsert(p, r, ok) /\ ok \in BOOLEAN /\ UNCHANGED <<inflight, nonceCounters, req, turn, envVars>>
    BY <1>4, WritesBoolean DEF OwnerPauses, SetPaused
  <2> HIDE DEF r
  <2>3. RegTypeOK' /\ Budget'
    BY <2>1, <2>2, RecordStep
  <2> QED BY <1>1, <2>2, <2>3
<1> QED BY <1>2, <1>3, <1>4 DEF OwnerStep

LEMMA ChainKeeps ==
    ASSUME IInv, ChainStep
    PROVE  IInv'
<1>0. TypeOK /\ session \in [Perms -> SessionStates] /\ crashes \in 0 .. MaxCrashes
  BY DEF IInv, TypeOK
<1>1. ASSUME NEW i \in DOMAIN ops, NEW r \in {"success", "reverted"}, ops' = [ops EXCEPT ![i].status = r],
             UNCHANGED <<regVars, req, turn, session, crashes>>
      PROVE  IInv'
  <2> DEFINE o == [ops[i] EXCEPT !.status = r]
  <2>1. ops[i] \in Op
    BY <1>0, LenProperties, ElementOfSeq DEF TypeOK
  <2>2. /\ o \in Op /\ o.perm = ops[i].perm /\ o.key = ops[i].key /\ o.amt = ops[i].amt
        /\ o.watch = ops[i].watch
    BY <2>1 DEF Op
  <2>3. ops' = [ops EXCEPT ![i] = o]
    BY <1>1
  <2> HIDE DEF o
  <2>4. /\ ops' \in Seq(Op) /\ DOMAIN ops' = DOMAIN ops /\ OpsKept
        /\ ops'[i] = o /\ \A j \in DOMAIN ops : j # i => ops'[j] = ops[j]
    BY <1>0, <2>2, <2>3, OpChanges
  <2>5. NoNewOwner
    BY <1>1, <2>2, <2>4 DEF NoNewOwner, Submitting, Booked
  <2> QED BY <1>0, <1>1, <2>4, <2>5, QuietEnvironment
<1>2. ASSUME NEW p \in Perms, NEW x \in SessionStates, session' = [session EXCEPT ![p] = x],
             UNCHANGED <<regVars, req, turn, ops, crashes>>
      PROVE  IInv'
  <2>1. /\ ops' \in Seq(Op) /\ OpsKept /\ NoNewOwner /\ session' \in [Perms -> SessionStates]
        /\ crashes' \in 0 .. MaxCrashes
    BY <1>0, <1>2 DEF TypeOK, OpsKept, NoNewOwner, Submitting, Booked
  <2> QED BY <1>2, <2>1, QuietEnvironment
<1>3. ASSUME NEW i \in DOMAIN ops, OpSucceeds(i) \/ OpReverts(i) PROVE IInv'
  BY <1>1, <1>3 DEF OpSucceeds, OpReverts
<1>4. ASSUME NEW p \in Perms, EnableMined(p) \/ OwnerRemoves(p) \/ RemovalMined(p) PROVE IInv'
  BY <1>2, <1>4 DEF EnableMined, OwnerRemoves, RemovalMined, SessionStates
<1> QED BY <1>3, <1>4 DEF ChainStep

\* After a crash nothing is under way: the book is empty and the records are the file's.
LEMMA CrashKeeps ==
    ASSUME IInv, Crash
    PROVE  IInv'
<1>0. TypeOK /\ Budget
  BY DEF IInv
<1>1. /\ records' = disk /\ disk' = disk /\ inflight' = [p \in Perms |-> NoBooking]
      /\ nonceCounters' = [f \in Followers |-> 0] /\ turn' = Nobody /\ session' = session
  BY DEF Crash, Restart
<1>2. RegTypeOK'
  <2>1. NoBooking \in Booking
    BY DEF NoBooking, Booking
  <2>2. 0 \in 0 .. LaneMod - 1
    BY ScopeAssumption
  <2> QED BY <1>0, <1>1, <2>1, <2>2 DEF TypeOK, RegTypeOK
<1>3. /\ req' \in [Handlers -> HandlerState]
      /\ \A h \in Handlers : req'[h].phase \in {"idle", "done", "dead"}
  <2>1. [Idle EXCEPT !.phase = "dead"] \in HandlerState /\ [Idle EXCEPT !.phase = "dead"].phase = "dead"
    BY DEF Idle, HandlerState, Phases
  <2>2. req \in [Handlers -> HandlerState]
    BY <1>0 DEF TypeOK
  <2> QED BY <2>1, <2>2 DEF Crash
<1>4. ops' \in Seq(Op) /\ DOMAIN ops' = DOMAIN ops /\ \A i \in DOMAIN ops : ~ Booked(i)'
  <2>1. ops \in Seq(Op) /\ Len(ops) \in Nat /\ DOMAIN ops = 1 .. Len(ops)
    BY <1>0, LenProperties DEF TypeOK
  <2>2. \A i \in DOMAIN ops : ops[i] \in Op
    BY <2>1, ElementOfSeq
  <2>3. \A i \in DOMAIN ops : [ops[i] EXCEPT !.watch = "none"] \in Op /\ [ops[i] EXCEPT !.watch = "none"].watch = "none"
    BY <2>2 DEF Op
  <2>4. ops' \in [1 .. Len(ops) -> Op]
    BY <2>1, <2>2, <2>3 DEF Crash
  <2>5. ops' \in Seq(Op)
    BY <2>1, <2>4, SeqDef
  <2> QED BY <2>1, <2>2, <2>3, <2>5 DEF Crash, Booked, Op
<1>5. crashes' \in 0 .. MaxCrashes
  BY <1>0, RequestAssumption DEF Crash, TypeOK
<1>6. TypeOK'
  BY <1>0, <1>1, <1>2, <1>3, <1>4, <1>5 DEF TypeOK
<1>7. HandlersOK'
  BY <1>3 DEF HandlersOK, HandlerOK, Submitting
<1>8. \A h \in Handlers : ~ Submitting(h)'
  BY <1>3 DEF Submitting
<1>9. OwnersDistinct'
  BY <1>4, <1>8 DEF OwnersDistinct
<1>10. \A p \in Perms : ClaimsOn(p)' = {}
  BY <1>4, <1>8 DEF ClaimsOn, SubmittersOn, BookedOn
<1>11. BookOK'
  <2> SUFFICES ASSUME NEW p \in Perms
               PROVE  \E w \in [Keys -> Nat] :
                          /\ WeighsTo(inflight'[p].txs, w, inflight'[p].spend)
                          /\ \A c \in ClaimsOn(p)' : c[1] \in inflight'[p].txs /\ w[c[1]] = c[2]
    BY DEF BookOK
  <2> DEFINE w == [k \in Keys |-> 0]
  <2>1. inflight'[p].txs = {} /\ inflight'[p].spend = 0
    BY <1>1 DEF NoBooking
  <2>2. WeighsTo({}, w, 0)
    BY WeightEmpty
  <2>3. w \in [Keys -> Nat]
    OBVIOUS
  <2> HIDE DEF w
  <2> QED BY <1>10, <2>1, <2>2, <2>3
<1>12. ExposureWithinCap' /\ DiskWithinCap'
  <2> SUFFICES ASSUME NEW p \in Perms
               PROVE  disk[p].spentTotal + inflight'[p].spend <= Cap(p) /\ disk[p].spentTotal <= Cap(p)
    BY <1>1 DEF ExposureWithinCap, DiskWithinCap, Cap
  <2>1. disk[p].spentTotal \in Int /\ inflight'[p].spend = 0
    BY <1>0, <1>1 DEF TypeOK, RegTypeOK, CopyRecord, NoBooking
  <2>2. disk[p].spentTotal <= Cap(p)
    BY <1>0 DEF Budget, DiskWithinCap
  <2> QED BY <2>1, <2>2
<1>13. ChargedOnce'
  BY <1>0, <1>1 DEF Budget, ChargedOnce, Mirrored, NoRepeats, NoBooking
<1> QED BY <1>6, <1>7, <1>9, <1>11, <1>12, <1>13 DEF IInv, Budget

-----------------------------------------------------------------------------
(* The invariant and the theorems.                                         *)

LEMMA InitEstablishes == Init => IInv
<1> SUFFICES ASSUME Init PROVE IInv
  OBVIOUS
<1>1. /\ records = BootFile /\ disk = BootFile /\ inflight = [p \in Perms |-> NoBooking]
      /\ nonceCounters = [f \in Followers |-> 0]
      /\ req = [h \in Handlers |-> Idle] /\ turn = Nobody /\ ops = <<>> /\ crashes = 0
      /\ session = [p \in Perms |-> IF p \in BootEnabled THEN "enabled" ELSE "absent"]
  BY DEF Init, RegInit
<1>2. RegTypeOK
  <2>1. NoBooking \in Booking
    BY DEF NoBooking, Booking
  <2>2. 0 \in 0 .. LaneMod - 1
    BY ScopeAssumption
  <2> QED BY <1>1, <2>1, <2>2, BootAssumption DEF RegTypeOK
<1>3. Idle \in HandlerState /\ Idle.phase = "idle"
  BY DEF Idle, HandlerState, Phases
<1>4. TypeOK
  <2>1. ops \in Seq(Op) /\ crashes \in 0 .. MaxCrashes
    BY <1>1, EmptySeq, RequestAssumption
  <2>2. session \in [Perms -> SessionStates]
    BY <1>1 DEF SessionStates
  <2> QED BY <1>1, <1>2, <1>3, <2>1, <2>2 DEF TypeOK
<1>5. DOMAIN ops = {} /\ \A h \in Handlers : ~ Submitting(h)
  BY <1>1, <1>3 DEF Submitting
<1>6. HandlersOK /\ OwnersDistinct
  BY <1>1, <1>3, <1>5 DEF HandlersOK, HandlerOK, OwnersDistinct, Submitting
<1>7. \A p \in Perms : ClaimsOn(p) = {}
  BY <1>5 DEF ClaimsOn, SubmittersOn, BookedOn
<1>8. BookOK
  <2> SUFFICES ASSUME NEW p \in Perms
               PROVE  \E w \in [Keys -> Nat] :
                          /\ WeighsTo(inflight[p].txs, w, inflight[p].spend)
                          /\ \A c \in ClaimsOn(p) : c[1] \in inflight[p].txs /\ w[c[1]] = c[2]
    BY DEF BookOK
  <2> DEFINE w == [k \in Keys |-> 0]
  <2>1. inflight[p].txs = {} /\ inflight[p].spend = 0
    BY <1>1 DEF NoBooking
  <2>2. WeighsTo({}, w, 0)
    BY WeightEmpty
  <2>3. w \in [Keys -> Nat]
    OBVIOUS
  <2> HIDE DEF w
  <2> QED BY <1>7, <2>1, <2>2, <2>3
<1>9. Budget
  <2>1. ASSUME NEW p \in Perms
        PROVE  records[p].spentTotal + inflight[p].spend <= Cap(p)
    BY <1>1, BootAssumption DEF NoBooking, CopyRecord
  <2> QED BY <1>1, <2>1, BootAssumption DEF Budget, ExposureWithinCap, ChargedOnce, DiskWithinCap, NoBooking
<1> QED BY <1>4, <1>6, <1>8, <1>9 DEF IInv

LEMMA StepPreserves == IInv /\ [Next]_vars => IInv'
<1> SUFFICES ASSUME IInv, [Next]_vars PROVE IInv'
  OBVIOUS
<1>1. ASSUME NEW h \in Handlers, RequestStep(h) PROVE IInv'
  BY <1>1, WebhookQuiet, BuildThrowsKeeps, FanSubmitsKeeps, TriggerKeeps, SubmitKeeps, ListKeeps, RevokeKeeps
  DEF RequestStep, WebhookStep
<1>2. ASSUME NEW i \in DOMAIN ops, Settle(i) PROVE IInv'
  BY <1>2, SettleKeeps
<1>3. ASSUME NEW p \in Perms, OwnerStep(p) PROVE IInv'
  BY <1>3, OwnerKeeps
<1>4. CASE UNCHANGED vars
  <2>1. OpsKept /\ NoNewOwner /\ ops' \in Seq(Op) /\ session' \in [Perms -> SessionStates] /\ crashes' \in 0 .. MaxCrashes
    BY <1>4 DEF vars, envVars, OpsKept, NoNewOwner, Submitting, Booked, IInv, TypeOK
  <2> QED BY <1>4, <2>1, QuietEnvironment DEF vars
<1> QED BY <1>1, <1>2, <1>3, <1>4, ChainKeeps, CrashKeeps DEF Next

\* The inductive invariant holds in every reachable state.
THEOREM Invariant == Spec => []IInv
BY InitEstablishes, StepPreserves, PTL DEF Spec

\* Every variable keeps its type, for any number of requests, sessions, keys and crashes
\* (the whole of copySession.ts and the handlers of server.ts that use it).
THEOREM TypeCorrect == Spec => []TypeOK
<1>1. IInv => TypeOK
  BY DEF IInv
<1> QED BY <1>1, Invariant, PTL

\* Q7: no interleaving of deliveries, retries, triggers, settlements, lost answers, failing
\* writes and crashes takes charged plus reserved over a session's budget (copySession.ts reserve).
THEOREM ExposureIsCapped == Spec => []ExposureWithinCap
<1>1. IInv => ExposureWithinCap
  BY DEF IInv, Budget
<1> QED BY <1>1, Invariant, PTL

\* No source spend is charged twice or charged while it is reserved, in memory or in the file a
\* restart reads (copySession.ts assertMirrorable, commitReservation, recordMirror).
THEOREM ChargesAreUnique == Spec => []ChargedOnce
<1>1. IInv => ChargedOnce
  BY DEF IInv, Budget
<1> QED BY <1>1, Invariant, PTL

\* The budget a restart would resume from is never over the cap (copySession.ts upsert, constructor).
THEOREM FileIsCapped == Spec => []DiskWithinCap
<1>1. IInv => DiskWithinCap
  BY DEF IInv, Budget
<1> QED BY <1>1, Invariant, PTL
=============================================================================
