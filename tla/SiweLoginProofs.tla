-------------------------- MODULE SiweLoginProofs --------------------------
(***************************************************************************)
(* Proofs about SiweLogin for any numbers of logins, messages, nonces,     *)
(* processes, migrations and crashes: what a token stands for, that a      *)
(* wallet keeps its profile, and that the schema is what schema_version    *)
(* says.  A token is proven because a nonce that admitted a login is       *)
(* neither stored any more nor ever issued again.                          *)
(***************************************************************************)
EXTENDS SiweLogin, TLAPS

-----------------------------------------------------------------------------
(* The inductive invariant.                                                *)

\* What a process has read or done is committed.
ProcFacts == \A p \in Procs : proc[p].saw \union proc[p].done \subseteq tables

StoreInv == StoreTypeOK /\ SchemaSound /\ ProcFacts

Admitted(r) == login[r].phase \in {"taken", "found", "done"}

\* A login past the first step holds one message; the nonce of an admitted one is used up.
NonceFacts ==
    /\ live \subseteq issued
    /\ \A r \in Logins : login[r].phase # "idle" => \E m \in Messages : login[r].msg = {m}
    /\ \A r \in Logins : \A m \in login[r].msg : Admitted(r) => m.nonce \in issued \ live
    /\ \A r, q \in Logins : \A m \in login[r].msg, n \in login[q].msg :
          Admitted(r) /\ Admitted(q) /\ r # q => m.nonce # n.nonce

VerifiedFacts ==
    \A r \in Logins : \A m \in login[r].msg : login[r].phase \in {"found", "done"} => Verifies(m)

\* Subject s was made by a finished login of the wallet with username a.
MadeFor(s, a) == login[s].phase = "done" /\ \E m \in Messages : login[s].msg = {m} /\ Username(m) = a

SubjectFacts ==
    /\ \A r \in Logins : login[r].phase = "idle" => login[r].saw = {}
    /\ \A a \in Addresses : \A s \in users[a] : MadeFor(s, a)
    /\ \A r \in Logins : \A m \in login[r].msg : \A s \in login[r].saw : MadeFor(s, Username(m))
    /\ \A t \in tokens : /\ MadeFor(t.sub, t.username)
                         /\ login[t.login].phase = "done"
                         /\ login[t.login].msg = {t.msg}
                         /\ t.username = Username(t.msg)

IInv == TypeOK /\ StoreInv /\ NonceFacts /\ VerifiedFacts /\ SubjectFacts

LEMMA InitInv == Init => IInv
<1> SUFFICES ASSUME Init PROVE IInv
  OBVIOUS
<1>1. StoreInv
  <2>1. StoreInit
    BY DEF Init
  <2>2. StoreTypeOK /\ ProcFacts
    <3>1. Down \in [phase: {"down"}, saw: {{}}, done: {{}}]
      BY DEF Down
    <3>2. crashes \in 0 .. MaxCrashes
      BY <2>1, StoreAssumption DEF StoreInit
    <3>3. ProcFacts
      BY <2>1, <3>1 DEF StoreInit, ProcFacts
    <3> QED
      BY <2>1, <3>1, <3>2, <3>3 DEF StoreInit, StoreTypeOK
  <2>3. SchemaSound
    BY <2>1 DEF StoreInit, SchemaSound, Down
  <2> QED
    BY <2>2, <2>3 DEF StoreInv
<1>2. TypeOK
  BY <1>1 DEF Init, TypeOK, StoreInv
<1>3. NonceFacts /\ VerifiedFacts /\ SubjectFacts
  BY DEF Init, NonceFacts, Admitted, VerifiedFacts, SubjectFacts
<1> QED
  BY <1>1, <1>2, <1>3 DEF IInv

-----------------------------------------------------------------------------
(* The store.                                                              *)

\* A process that does not hold a migration moves to a state that holds none.
LEMMA StoreMoves ==
    ASSUME StoreInv, NEW p \in Procs,
           NEW s \in [phase: {"down", "creating", "created"}, saw: {{}}, done: {{}}],
           ProcBecomes(p, s), created' \in BOOLEAN, UNCHANGED <<recorded, tables>>
    PROVE  StoreInv'
<1>1. StoreTypeOK'
  BY DEF StoreInv, StoreTypeOK, ProcBecomes
<1>2. SchemaSound'
  BY DEF StoreInv, StoreTypeOK, SchemaSound, ProcBecomes
<1>3. ProcFacts'
  BY DEF StoreInv, StoreTypeOK, ProcFacts, ProcBecomes
<1> QED
  BY <1>1, <1>2, <1>3 DEF StoreInv

LEMMA DownType == Down \in [phase: {"down", "creating", "created"}, saw: {{}}, done: {{}}]
BY DEF Down

LEMMA CommitsKeeps ==
    ASSUME StoreInv, NEW p \in Procs, Commits(p)
    PROVE  StoreInv'
<1>1. PICK v \in Versions :
        /\ IsNext(p, v)
        /\ recorded' = recorded \union {v} /\ tables' = tables \union {v}
        /\ ProcBecomes(p, [proc[p] EXCEPT !.phase = "migrating", !.done = @ \union {v}])
  BY DEF Commits
<1>2. proc[p].saw \union proc[p].done \subseteq tables
  BY DEF StoreInv, ProcFacts, Commits
<1>3. StoreTypeOK'
  <2>1. proc' \in [Procs -> [phase: {"down", "creating", "created", "migrating", "executed", "serving"},
                            saw: SUBSET Versions, done: SUBSET Versions]]
    BY <1>1 DEF StoreInv, StoreTypeOK, ProcBecomes
  <2> QED
    BY <1>1, <2>1 DEF StoreInv, StoreTypeOK, Commits, ProcBecomes
<1>4. \A w \in Versions : w < v => w \in tables
  BY <1>1, <1>2, StoreAssumption DEF IsNext, Pending, Versions
<1>5. SchemaSound'
  <2>1. recorded' = tables'
    BY <1>1 DEF StoreInv, SchemaSound
  <2>2. \A x \in tables' : \A w \in Versions : w < x => w \in tables'
    BY <1>1, <1>4 DEF StoreInv, SchemaSound
  <2>3. \A q \in Procs : proc'[q].phase = "serving" => tables' = Versions
    BY <1>1 DEF StoreInv, StoreTypeOK, SchemaSound, ProcBecomes
  <2> QED
    BY <2>1, <2>2, <2>3 DEF SchemaSound
<1>6. ProcFacts'
  BY <1>1, <1>2 DEF StoreInv, StoreTypeOK, ProcFacts, ProcBecomes
<1> QED
  BY <1>3, <1>5, <1>6 DEF StoreInv

LEMMA StoreKeeps ==
    ASSUME StoreInv, NEW p \in Procs, ProcStep(p) \/ Crashes(p)
    PROVE  StoreInv'
<1>1. CASE Starts(p)
  <2>1. [Down EXCEPT !.phase = IF created THEN "created" ELSE "creating"]
          \in [phase: {"down", "creating", "created"}, saw: {{}}, done: {{}}]
    BY DEF Down
  <2> QED
    BY <1>1, <2>1, StoreMoves DEF Starts, StoreInv, StoreTypeOK
<1>2. CASE CreatesVersionTable(p)
  <2>1. [Down EXCEPT !.phase = "created"]
          \in [phase: {"down", "creating", "created"}, saw: {{}}, done: {{}}]
    BY DEF Down
  <2>2. CASE created
    BY <1>2, <2>2, DownType, StoreMoves DEF CreatesVersionTable
  <2>3. CASE ~created
    BY <1>2, <2>1, <2>3, StoreMoves DEF CreatesVersionTable
  <2> QED
    BY <2>2, <2>3
<1>3. CASE ReadsApplied(p)
  <2>1. proc' = [proc EXCEPT ![p] = [proc[p] EXCEPT !.phase = "migrating", !.saw = recorded]]
        /\ UNCHANGED <<created, recorded, tables, crashes, profile>>
    BY <1>3 DEF ReadsApplied, ProcBecomes
  <2>2. proc[p].done \subseteq tables
    BY <1>3 DEF ReadsApplied, StoreInv, ProcFacts
  <2> QED
    BY <2>1, <2>2, ZenonT(60) DEF StoreInv, StoreTypeOK, SchemaSound, ProcFacts
<1>4. CASE Executes(p)
  <2>1. PICK v \in Versions : ProcBecomes(p, IF v \in tables THEN Down ELSE [proc[p] EXCEPT !.phase = "executed"])
    BY <1>4 DEF Executes
  <2>2. CASE v \in tables
    BY <1>4, <2>1, <2>2, DownType, StoreMoves DEF Executes, StoreInv, StoreTypeOK
  <2>3. CASE v \notin tables
    BY <1>4, <2>1, <2>3 DEF Executes, ProcBecomes, StoreInv, StoreTypeOK, SchemaSound, ProcFacts
  <2> QED
    BY <2>2, <2>3
<1>5. CASE Commits(p)
  BY <1>5, CommitsKeeps
<1>6. CASE Serves(p)
  <2>1. proc' = [proc EXCEPT ![p] = [Down EXCEPT !.phase = "serving"]]
        /\ UNCHANGED <<created, recorded, tables, crashes, profile>>
    BY <1>6 DEF Serves, ProcBecomes
  <2>2. tables = Versions
    BY <1>6 DEF Serves, Pending, StoreInv, StoreTypeOK, ProcFacts
  <2> QED
    BY <2>1, <2>2 DEF StoreInv, StoreTypeOK, SchemaSound, ProcFacts, Down
<1>7. CASE Crashes(p)
  BY <1>7, StoreAssumption DEF Crashes, StoreInv, StoreTypeOK, SchemaSound, ProcFacts, Down
<1> QED
  BY <1>1, <1>2, <1>3, <1>4, <1>5, <1>6, <1>7 DEF ProcStep

\* The store's invariant and the login's say nothing of each other's variables.
LEMMA StoreFramed == ASSUME StoreInv, UNCHANGED storeVars PROVE StoreInv'
BY DEF StoreInv, StoreTypeOK, SchemaSound, ProcFacts, storeVars

LoginInv == NonceFacts /\ VerifiedFacts /\ SubjectFacts

LEMMA LoginFramed == ASSUME LoginInv, UNCHANGED loginVars PROVE LoginInv'
BY DEF LoginInv, NonceFacts, Admitted, VerifiedFacts, SubjectFacts, MadeFor, loginVars

\* A profile request keeps the store's types and takes no row's id away.
LEMMA UpsertKeeps ==
    ASSUME StoreInv, NEW p \in Procs, NEW address \in Addresses, NEW sub \in Subjects, Upserts(p, address, sub)
    PROVE  /\ StoreInv'
           /\ \A a \in Addresses : \A row \in profile[a] : \E new \in profile'[a] : new.id = row.id
<1>1. profile \in [Addresses -> SUBSET [id: Subjects, sub: Subjects]]
  BY DEF StoreInv, StoreTypeOK
<1>2. Upsert(address, sub) \in SUBSET [id: Subjects, sub: Subjects]
  BY <1>1 DEF Upsert
<1>3. profile' = [profile EXCEPT ![address] = Upsert(address, sub)]
  BY DEF Upserts
<1>4. StoreInv'
  BY <1>1, <1>2, <1>3 DEF Upserts, StoreInv, StoreTypeOK, SchemaSound, ProcFacts
<1>5. ASSUME NEW row \in profile[address] PROVE \E new \in Upsert(address, sub) : new.id = row.id
  <2>1. [row EXCEPT !.sub = sub] \in Upsert(address, sub)
    BY DEF Upsert
  <2>2. [row EXCEPT !.sub = sub].id = row.id
    BY <1>1
  <2> QED
    BY <2>1, <2>2
<1> QED
  BY <1>1, <1>3, <1>4, <1>5

-----------------------------------------------------------------------------
(* The login.                                                              *)

\* A login moves on without a token, and without passing a check it has not passed.
LEMMA LoginMoves ==
    ASSUME TypeOK, LoginInv, NEW r \in Logins, NEW s, NEW m \in Messages,
           LoginBecomes(r, s), UNCHANGED <<users, tokens>>, live' \subseteq live,
           s \in [phase: {"posted", "taken", "found", "failed"}, msg: {{m}}, saw: SUBSET Subjects],
           login[r].phase \in {"idle", "posted", "taken", "found"},
           login[r].phase # "idle" => login[r].msg = {m},
           s.phase = "taken" => m.nonce \in live \ live',
           s.phase = "found" => login[r].phase = "taken" /\ Verifies(m),
           \A sub \in s.saw : MadeFor(sub, Username(m))
    PROVE  TypeOK' /\ LoginInv'
<1>1. /\ login'[r] = s /\ s.msg = {m} /\ \A q \in Logins : q # r => login'[q] = login[q]
      /\ issued' = issued /\ UNCHANGED storeVars
  BY DEF TypeOK, LoginBecomes
<1>2. TypeOK'
  <2>1. login' \in [Logins -> [phase: {"idle", "posted", "taken", "found", "done", "failed"},
                               msg: SUBSET Messages, saw: SUBSET Subjects]]
    BY DEF TypeOK, LoginBecomes
  <2>2. StoreTypeOK'
    BY <1>1 DEF TypeOK, StoreTypeOK, storeVars
  <2> QED
    BY <1>1, <2>1, <2>2 DEF TypeOK
<1>3. \A q \in Logins \ {r} : /\ Admitted(q)' = Admitted(q)
                              /\ login'[q] = login[q]
  BY <1>1 DEF Admitted
<1>4. Admitted(r)' => m.nonce \in issued \ live'
  BY <1>1 DEF Admitted, LoginInv, NonceFacts
<1>5. ASSUME NEW q \in Logins \ {r}, NEW n \in login[q].msg, Admitted(r)', Admitted(q) PROVE m.nonce # n.nonce
  <2>1. n.nonce \notin live
    BY <1>5 DEF LoginInv, NonceFacts
  <2>2. CASE s.phase = "taken"
    BY <2>1, <2>2
  <2>3. CASE s.phase = "found"
    BY <1>5, <2>3 DEF Admitted, LoginInv, NonceFacts
  <2> QED
    BY <1>1, <1>5, <2>2, <2>3 DEF Admitted
<1>6. NonceFacts'
  <2>1. live' \subseteq issued'
    BY <1>1 DEF LoginInv, NonceFacts
  <2>2. \A q \in Logins : login'[q].phase # "idle" => \E n \in Messages : login'[q].msg = {n}
    BY <1>1, <1>3 DEF LoginInv, NonceFacts
  <2>3. \A q \in Logins : \A n \in login'[q].msg : Admitted(q)' => n.nonce \in issued' \ live'
    BY <1>1, <1>3, <1>4 DEF LoginInv, NonceFacts
  <2>4. \A q1, q2 \in Logins : \A n1 \in login'[q1].msg, n2 \in login'[q2].msg :
            Admitted(q1)' /\ Admitted(q2)' /\ q1 # q2 => n1.nonce # n2.nonce
    <3> SUFFICES ASSUME NEW q1 \in Logins, NEW q2 \in Logins, NEW n1 \in login'[q1].msg, NEW n2 \in login'[q2].msg,
                        Admitted(q1)', Admitted(q2)', q1 # q2
                 PROVE  n1.nonce # n2.nonce
      OBVIOUS
    <3>1. CASE q1 = r
      BY <1>1, <1>3, <1>5, <3>1
    <3>2. CASE q2 = r
      BY <1>1, <1>3, <1>5, <3>2
    <3>3. CASE q1 # r /\ q2 # r
      BY <1>3, <3>3 DEF LoginInv, NonceFacts
    <3> QED
      BY <3>1, <3>2, <3>3
  <2> QED
    BY <2>1, <2>2, <2>3, <2>4 DEF NonceFacts
<1>7. VerifiedFacts'
  BY <1>1 DEF LoginInv, VerifiedFacts
<1>8. \A sub \in Subjects : \A a \in Addresses : MadeFor(sub, a) => MadeFor(sub, a)'
  BY <1>1 DEF MadeFor, Logins
<1>9. SubjectFacts'
  <2>1. \A a \in Addresses : \A sub \in users'[a] : MadeFor(sub, a)'
    BY <1>8 DEF TypeOK, LoginInv, SubjectFacts
  <2>2. \A n \in Messages : Username(n) \in Addresses
    BY LoginAssumption DEF Username, Addresses
  <2>3. \A q \in Logins : \A n \in login'[q].msg : \A sub \in login'[q].saw : MadeFor(sub, Username(n))'
    BY <1>1, <1>3, <1>8, <2>2 DEF TypeOK, LoginInv, SubjectFacts
  <2>4. \A t \in tokens' : /\ MadeFor(t.sub, t.username)'
                           /\ login'[t.login].phase = "done"
                           /\ login'[t.login].msg = {t.msg}
                           /\ t.username = Username(t.msg)
    BY <1>1, <1>8 DEF TypeOK, LoginInv, SubjectFacts
  <2>5. \A q \in Logins : login'[q].phase = "idle" => login'[q].saw = {}
    BY <1>1, <1>3 DEF LoginInv, SubjectFacts
  <2> QED
    BY <2>1, <2>3, <2>4, <2>5 DEF SubjectFacts
<1> QED
  BY <1>2, <1>6, <1>7, <1>9 DEF LoginInv

LEMMA CommitKeeps ==
    ASSUME TypeOK, LoginInv, NEW r \in Logins, LoginCommits(r)
    PROVE  TypeOK' /\ LoginInv'
<1>0. PICK m \in Messages : login[r].msg = {m}
  BY DEF LoginCommits, LoginInv, NonceFacts
<1> DEFINE u == Username(m)
           sub == IF login[r].saw = {} THEN {r} ELSE login[r].saw
<1>1. u \in Addresses
  BY LoginAssumption DEF Username, Addresses
<1>2. CASE users[u] # login[r].saw
  <2>1. LoginBecomes(r, [login[r] EXCEPT !.phase = "failed"]) /\ UNCHANGED <<users, tokens, live>>
    BY <1>0, <1>2 DEF LoginCommits
  <2>2. [login[r] EXCEPT !.phase = "failed"]
          \in [phase: {"posted", "taken", "found", "failed"}, msg: {{m}}, saw: SUBSET Subjects]
    BY <1>0 DEF TypeOK
  <2>3. \A x \in login[r].saw : MadeFor(x, Username(m))
    BY <1>0 DEF LoginInv, SubjectFacts
  <2>4. [login[r] EXCEPT !.phase = "failed"].saw = login[r].saw /\ [login[r] EXCEPT !.phase = "failed"].phase = "failed"
    BY DEF TypeOK
  <2>5. login[r].phase = "found"
    BY DEF LoginCommits
  <2> HIDE DEF u, sub
  <2> QED
    BY <1>0, <2>1, <2>2, <2>3, <2>4, <2>5, LoginMoves
<1>3. CASE users[u] = login[r].saw
  <2>1. /\ users' = [users EXCEPT ![u] = sub]
        /\ tokens' = tokens \union {[login |-> r, username |-> u, sub |-> x, msg |-> m] : x \in sub}
        /\ LoginBecomes(r, [login[r] EXCEPT !.phase = "done"])
        /\ live' = live /\ login[r].phase = "found"
    BY <1>0, <1>3 DEF LoginCommits
  <2>2. /\ login'[r].phase = "done" /\ login'[r].msg = {m} /\ login'[r].saw = login[r].saw
        /\ \A q \in Logins : q # r => login'[q] = login[q]
        /\ issued' = issued /\ UNCHANGED storeVars
    BY <1>0, <2>1 DEF TypeOK, LoginBecomes
  <2>3. sub \in SUBSET Subjects
    BY DEF TypeOK, Logins
  <2>4. TypeOK'
    <3>1. login' \in [Logins -> [phase: {"idle", "posted", "taken", "found", "done", "failed"},
                                 msg: SUBSET Messages, saw: SUBSET Subjects]]
      BY <2>1 DEF TypeOK, LoginBecomes
    <3>2. StoreTypeOK'
      BY <2>2 DEF TypeOK, StoreTypeOK, storeVars
    <3>3. users' \in [Addresses -> SUBSET Subjects]
      BY <2>1, <2>3 DEF TypeOK
    <3>4. tokens' \subseteq [login: Logins, username: Addresses, sub: Subjects, msg: Messages]
      BY <1>1, <2>1, <2>3 DEF TypeOK
    <3> QED
      BY <2>1, <2>2, <3>1, <3>2, <3>3, <3>4 DEF TypeOK
  <2>5. ASSUME NEW q \in Logins PROVE (Admitted(q)' <=> Admitted(q)) /\ login'[q].msg = login[q].msg
    <3>1. CASE q = r
      <4>1. login[r].phase = "found" /\ login'[r].phase = "done" /\ login'[r].msg = login[r].msg
        BY <1>0, <2>1, <2>2
      <4> QED
        BY <3>1, <4>1 DEF Admitted
    <3>2. CASE q # r
      BY <2>2, <3>2 DEF Admitted
    <3> QED
      BY <3>1, <3>2
  <2>6. NonceFacts'
    <3>1. \A q \in Logins : login'[q].phase # "idle" => \E n \in Messages : login'[q].msg = {n}
      BY <1>0, <2>2 DEF LoginInv, NonceFacts
    <3> QED
      BY <2>1, <2>2, <2>5, <3>1 DEF LoginInv, NonceFacts
  <2>7. VerifiedFacts'
    BY <1>0, <2>1, <2>2 DEF LoginInv, VerifiedFacts
  <2>8. \A x \in Subjects : \A a \in Addresses : MadeFor(x, a) => MadeFor(x, a)'
    BY <2>1, <2>2 DEF MadeFor, Logins
  <2>9. \A x \in sub : MadeFor(x, u)'
    <3>1. CASE login[r].saw = {}
      BY <2>2, <3>1 DEF MadeFor
    <3>2. CASE login[r].saw # {}
      BY <1>0, <1>1, <2>3, <2>8, <3>2 DEF LoginInv, SubjectFacts
    <3> QED
      BY <3>1, <3>2
  <2>10. SubjectFacts'
    <3>1. \A a \in Addresses : \A x \in users'[a] : MadeFor(x, a)'
      BY <2>1, <2>8, <2>9 DEF TypeOK, LoginInv, SubjectFacts
    <3>2. \A n \in Messages : Username(n) \in Addresses
      BY LoginAssumption DEF Username, Addresses
    <3>3. \A q \in Logins : login'[q].msg = login[q].msg /\ login'[q].saw = login[q].saw
      BY <1>0, <2>2
    <3>4. \A q \in Logins : \A n \in login'[q].msg : \A x \in login'[q].saw : MadeFor(x, Username(n))'
      BY <2>8, <3>2, <3>3 DEF TypeOK, LoginInv, SubjectFacts
    <3>5. ASSUME NEW t \in tokens'
          PROVE  /\ MadeFor(t.sub, t.username)'
                 /\ login'[t.login].phase = "done"
                 /\ login'[t.login].msg = {t.msg}
                 /\ t.username = Username(t.msg)
      <4>1. CASE t \in tokens
        <5>1. t.login \in Logins /\ t.sub \in Subjects /\ t.username \in Addresses
          BY <4>1 DEF TypeOK
        <5>2. /\ MadeFor(t.sub, t.username)
              /\ login[t.login].phase = "done"
              /\ login[t.login].msg = {t.msg}
              /\ t.username = Username(t.msg)
          BY <4>1 DEF LoginInv, SubjectFacts
        <5> QED
          BY <2>1, <2>2, <2>8, <5>1, <5>2
      <4>2. CASE t \notin tokens
        <5>1. PICK x \in sub : t = [login |-> r, username |-> u, sub |-> x, msg |-> m]
          BY <2>1, <4>2
        <5> QED
          BY <2>2, <2>9, <5>1
      <4> QED
        BY <4>1, <4>2
    <3>6. \A q \in Logins : login'[q].phase = "idle" => login'[q].saw = {}
      BY <2>2 DEF LoginInv, SubjectFacts
    <3> QED
      BY <3>1, <3>4, <3>5, <3>6 DEF SubjectFacts
  <2> QED
    BY <2>4, <2>6, <2>7, <2>10 DEF LoginInv
<1> QED
  BY <1>2, <1>3

LEMMA PostKeeps ==
    ASSUME TypeOK, LoginInv, NEW r \in Logins, NEW m \in Messages, LoginPosted(r, m)
    PROVE  TypeOK' /\ LoginInv'
<1> DEFINE s == [login[r] EXCEPT !.phase = "posted", !.msg = {m}]
<1>1. LoginBecomes(r, s) /\ UNCHANGED <<live, users, tokens>> /\ login[r].phase = "idle"
  BY DEF LoginPosted
<1>2. s \in [phase: {"posted", "taken", "found", "failed"}, msg: {{m}}, saw: SUBSET Subjects]
      /\ s.phase = "posted" /\ s.saw = login[r].saw
  BY DEF TypeOK
<1>3. login[r].saw = {}
  BY <1>1 DEF LoginInv, SubjectFacts
<1> HIDE DEF s
<1> QED
  BY <1>1, <1>2, <1>3, LoginMoves

LEMMA TakeKeeps ==
    ASSUME TypeOK, LoginInv, NEW r \in Logins, NonceTaken(r)
    PROVE  TypeOK' /\ LoginInv'
<1>1. PICK m \in Messages : login[r].msg = {m}
  BY DEF NonceTaken, LoginInv, NonceFacts
<1> DEFINE s == [login[r] EXCEPT !.phase = IF m.nonce \in live THEN "taken" ELSE "failed"]
<1>2. /\ LoginBecomes(r, s) /\ live' = live \ {m.nonce}
      /\ UNCHANGED <<users, tokens>> /\ login[r].phase = "posted"
  BY <1>1 DEF NonceTaken
<1>3. s \in [phase: {"posted", "taken", "found", "failed"}, msg: {{m}}, saw: SUBSET Subjects]
      /\ (s.phase = "taken" => m.nonce \in live) /\ s.phase # "found" /\ s.saw = login[r].saw
  <2>1. login[r] \in [phase: {"idle", "posted", "taken", "found", "done", "failed"}, msg: {{m}}, saw: SUBSET Subjects]
    BY <1>1 DEF TypeOK
  <2>2. CASE m.nonce \in live
    BY <2>1, <2>2
  <2>3. CASE m.nonce \notin live
    BY <2>1, <2>3
  <2> QED
    BY <2>2, <2>3
<1>4. \A x \in s.saw : MadeFor(x, Username(m))
  BY <1>1, <1>3 DEF LoginInv, SubjectFacts
<1> HIDE DEF s
<1> QED
  BY <1>1, <1>2, <1>3, <1>4, LoginMoves

LEMMA RefuseKeeps ==
    ASSUME TypeOK, LoginInv, NEW r \in Logins, LoginRefused(r)
    PROVE  TypeOK' /\ LoginInv'
<1>1. PICK m \in Messages : login[r].msg = {m}
  BY DEF LoginRefused, LoginInv, NonceFacts
<1> DEFINE s == [login[r] EXCEPT !.phase = "failed"]
<1>2. LoginBecomes(r, s) /\ UNCHANGED <<live, users, tokens>> /\ login[r].phase = "taken"
  BY DEF LoginRefused
<1>3. s \in [phase: {"posted", "taken", "found", "failed"}, msg: {{m}}, saw: SUBSET Subjects]
      /\ s.phase = "failed" /\ s.saw = login[r].saw
  BY <1>1 DEF TypeOK
<1>4. \A x \in s.saw : MadeFor(x, Username(m))
  BY <1>1, <1>3 DEF LoginInv, SubjectFacts
<1> HIDE DEF s
<1> QED
  BY <1>1, <1>2, <1>3, <1>4, LoginMoves

LEMMA LookupKeeps ==
    ASSUME TypeOK, LoginInv, NEW r \in Logins, UserLookedUp(r)
    PROVE  TypeOK' /\ LoginInv'
<1>1. PICK m \in Messages : login[r].msg = {m}
  BY DEF UserLookedUp, LoginInv, NonceFacts
<1> DEFINE s == [login[r] EXCEPT !.phase = "found", !.saw = users[Username(m)]]
<1>2. /\ LoginBecomes(r, s) /\ UNCHANGED <<live, users, tokens>>
      /\ login[r].phase = "taken" /\ Verifies(m)
  BY <1>1 DEF UserLookedUp
<1>3. Username(m) \in Addresses
  BY LoginAssumption DEF Username, Addresses
<1>4. s \in [phase: {"posted", "taken", "found", "failed"}, msg: {{m}}, saw: SUBSET Subjects]
      /\ s.phase = "found" /\ s.saw = users[Username(m)]
  BY <1>1, <1>3 DEF TypeOK
<1>5. \A x \in s.saw : MadeFor(x, Username(m))
  BY <1>3, <1>4 DEF LoginInv, SubjectFacts
<1> HIDE DEF s
<1> QED
  BY <1>1, <1>2, <1>4, <1>5, LoginMoves

\* Issuing, expiry and the removal of a user move no login.
LEMMA NoncesKeep ==
    ASSUME TypeOK, LoginInv, NEW n \in Nonces, NonceIssued(n) \/ NonceExpires(n)
    PROVE  TypeOK' /\ LoginInv'
<1>1. UNCHANGED <<storeVars, login, users, tokens>>
  BY DEF NonceIssued, NonceExpires
<1>2. issued \subseteq issued' /\ live' \subseteq issued' /\ issued' \subseteq Nonces /\ issued \ live \subseteq issued' \ live'
  BY DEF NonceIssued, NonceExpires, TypeOK, LoginInv, NonceFacts
<1>3. TypeOK'
  BY <1>1, <1>2 DEF TypeOK, StoreTypeOK, storeVars
<1>4. NonceFacts'
  BY <1>1, <1>2 DEF LoginInv, NonceFacts, Admitted
<1>5. VerifiedFacts' /\ SubjectFacts'
  BY <1>1 DEF LoginInv, VerifiedFacts, SubjectFacts, MadeFor
<1> QED
  BY <1>3, <1>4, <1>5 DEF LoginInv

LEMMA RemovalKeeps ==
    ASSUME TypeOK, LoginInv, NEW a \in Addresses, UserRemoved(a)
    PROVE  TypeOK' /\ LoginInv'
<1>1. UNCHANGED <<storeVars, issued, live, login, tokens>> /\ users' = [users EXCEPT ![a] = {}]
  BY DEF UserRemoved
<1>2. TypeOK'
  BY <1>1 DEF TypeOK, StoreTypeOK, storeVars
<1>3. \A b \in Addresses : users'[b] \subseteq users[b]
  BY <1>1 DEF TypeOK
<1>4. SubjectFacts'
  BY <1>1, <1>3 DEF LoginInv, SubjectFacts, MadeFor
<1>5. NonceFacts' /\ VerifiedFacts'
  BY <1>1 DEF LoginInv, NonceFacts, Admitted, VerifiedFacts
<1> QED
  BY <1>2, <1>4, <1>5 DEF LoginInv

-----------------------------------------------------------------------------
(* Every step.                                                             *)

LEMMA LoginStepKeeps == ASSUME IInv, LoginStep PROVE IInv' /\ UNCHANGED storeVars
<1>1. LoginInv
  BY DEF IInv, LoginInv
<1>2. UNCHANGED storeVars
  BY DEF LoginStep, NonceIssued, NonceExpires, LoginPosted, NonceTaken, LoginRefused, UserLookedUp,
         LoginCommits, UserRemoved, LoginBecomes
<1>3. TypeOK' /\ LoginInv'
  BY <1>1, PostKeeps, TakeKeeps, RefuseKeeps, LookupKeeps, CommitKeeps, NoncesKeep, RemovalKeeps
     DEF IInv, LoginStep
<1>4. StoreInv'
  BY <1>2, StoreFramed DEF IInv
<1> QED
  BY <1>2, <1>3, <1>4 DEF IInv, LoginInv

LEMMA StoreStepKeeps == ASSUME IInv, StoreStep PROVE IInv' /\ profile' = profile
<1>1. LoginInv' /\ UNCHANGED loginVars
  BY LoginFramed DEF IInv, LoginInv, StoreStep
<1>2. StoreInv' /\ profile' = profile
  BY StoreKeeps DEF IInv, StoreStep, ProcStep, Starts, CreatesVersionTable, ReadsApplied, Executes, Commits,
     Serves, Crashes, ProcBecomes
<1>3. TypeOK'
  BY <1>1, <1>2 DEF IInv, TypeOK, StoreInv, loginVars
<1> QED
  BY <1>1, <1>2, <1>3 DEF IInv, LoginInv

LEMMA ProfileStepKeeps ==
    ASSUME IInv, ProfileStep
    PROVE  /\ IInv'
           /\ \A a \in Addresses : \A row \in profile[a] : \E new \in profile'[a] : new.id = row.id
<1>1. PICK p \in Procs, t \in tokens : Upserts(p, t.username, t.sub) /\ UNCHANGED loginVars
  BY DEF ProfileStep, ProfileRequested
<1>2. t.username \in Addresses /\ t.sub \in Subjects
  BY <1>1 DEF IInv, TypeOK
<1>3. StoreInv' /\ \A a \in Addresses : \A row \in profile[a] : \E new \in profile'[a] : new.id = row.id
  BY <1>1, <1>2, UpsertKeeps DEF IInv
<1>4. LoginInv'
  BY <1>1, LoginFramed DEF IInv, LoginInv
<1>5. TypeOK'
  BY <1>1, <1>3 DEF IInv, TypeOK, StoreInv, loginVars
<1> QED
  BY <1>3, <1>4, <1>5 DEF IInv, LoginInv

LEMMA StutterKeeps == ASSUME IInv, UNCHANGED vars PROVE IInv'
<1>1. StoreInv' /\ LoginInv'
  BY StoreFramed, LoginFramed DEF IInv, LoginInv, vars
<1>2. TypeOK'
  BY <1>1 DEF IInv, TypeOK, StoreInv, vars, loginVars
<1> QED
  BY <1>1, <1>2 DEF IInv, LoginInv

LEMMA Invariance == Spec => []IInv
<1>1. IInv /\ [Next]_vars => IInv'
  BY LoginStepKeeps, StoreStepKeeps, ProfileStepKeeps, StutterKeeps DEF Next
<1> QED
  BY InitInv, <1>1, PTL DEF Spec

-----------------------------------------------------------------------------
(* The theorems.                                                           *)

\* Every variable of the sign-in and of the store keeps its type.
THEOREM TypeCorrect == Spec => []TypeOK
<1>1. IInv => TypeOK
  BY DEF IInv
<1> QED
  BY Invariance, <1>1, PTL

\* SiweAuthenticator: a token stands for a message its wallet signed for this domain and chain with
\* a nonce no other login used; one username per wallet, one wallet per subject.
THEOREM TokensAreProven == Spec => []LoginProven
<1>1. IInv => LoginProven
  <2> SUFFICES ASSUME IInv, NEW t \in tokens, NEW u \in tokens
               PROVE  /\ t.msg.by = t.username[1] /\ t.msg.domain = Domain
                      /\ AllowedChains = {} \/ t.msg.chain \in AllowedChains
                      /\ t.msg.nonce \in issued
                      /\ u.login # t.login => u.msg.nonce # t.msg.nonce
                      /\ u.msg.by = t.msg.by => u.username = t.username
                      /\ u.sub = t.sub => u.username = t.username
    BY DEF LoginProven
  <2>1. ASSUME NEW x \in tokens
        PROVE  /\ x.login \in Logins /\ x.msg \in Messages /\ Admitted(x.login) /\ x.msg \in login[x.login].msg
               /\ Verifies(x.msg) /\ x.username = Username(x.msg) /\ MadeFor(x.sub, x.username)
    BY DEF IInv, TypeOK, SubjectFacts, VerifiedFacts, Admitted
  <2>2. t.msg.nonce \in issued /\ (u.login # t.login => u.msg.nonce # t.msg.nonce)
    BY <2>1 DEF IInv, NonceFacts
  <2>3. t.username[1] = t.msg.by /\ u.username[1] = u.msg.by /\ t.username = <<t.msg.by, "lower">> /\ u.username = <<u.msg.by, "lower">>
    BY <2>1 DEF Verifies, Username
  <2>4. u.sub = t.sub => u.username = t.username
    BY <2>1 DEF MadeFor
  <2> QED
    BY <2>1, <2>2, <2>3, <2>4 DEF Verifies
<1> QED
  BY Invariance, <1>1, PTL

\* Db.kt migrate: however many processes start, race and crash, schema_version tells the tables that
\* exist, without a gap, and a process that serves finds all of them.
THEOREM SchemaIsSound == Spec => []SchemaSound
<1>1. IInv => SchemaSound
  BY DEF IInv, StoreInv
<1> QED
  BY Invariance, <1>1, PTL

\* upsertAndGet: no login gives a wallet another profile than the one it has.
THEOREM ProfilesAreKept == Spec => ProfileKept
<1>1. IInv /\ [Next]_vars
        => [\A a \in Addresses : \A row \in profile[a] : \E new \in profile'[a] : new.id = row.id]_vars
  <2> SUFFICES ASSUME IInv, Next
               PROVE  \A a \in Addresses : \A row \in profile[a] : \E new \in profile'[a] : new.id = row.id
    OBVIOUS
  <2>1. CASE LoginStep
    BY <2>1, LoginStepKeeps DEF storeVars
  <2>2. CASE StoreStep
    BY <2>2, StoreStepKeeps
  <2>3. CASE ProfileStep
    BY <2>3, ProfileStepKeeps
  <2> QED
    BY <2>1, <2>2, <2>3 DEF Next
<1> QED
  BY Invariance, <1>1, PTL DEF Spec, ProfileKept
=============================================================================
