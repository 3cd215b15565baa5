----------------------------- MODULE UserStore ------------------------------
(***************************************************************************)
(* How the User-Service gets its schema and its profiles (Db.kt migrate,   *)
(* ProfileRepository.kt upsertAndGet).  Several processes may start at the *)
(* same time, fail and be started again; each one migrates before it       *)
(* installs its routes (Application.kt).  A migration and the record that  *)
(* it was applied are one transaction of Postgres.                         *)
(***************************************************************************)
EXTENDS Naturals, FiniteSets

CONSTANTS
    Procs,         \* processes of the service
    LastVersion,   \* number of migrations
    Wallets,       \* accounts that may sign in
    Subjects,      \* subjects Keycloak may issue
    MaxCrashes     \* bound on crashes and database errors

ASSUME StoreAssumption == LastVersion \in Nat \ {0} /\ MaxCrashes \in Nat

VARIABLES
    created,    \* the table schema_version exists
    recorded,   \* versions in schema_version
    tables,     \* versions whose statements are committed
    proc,       \* process -> [phase, saw, done]
    crashes,    \* crashes so far
    profile     \* app_user: address -> its row (none or one)

storeVars == <<created, recorded, tables, proc, crashes, profile>>

Versions == 1 .. LastVersion

\* An address as text: EIP-55 capitals or lower case.
Addresses == Wallets \X {"lower", "checksum"}

Down == [phase |-> "down", saw |-> {}, done |-> {}]

StoreInit ==
    /\ created = FALSE
    /\ recorded = {}
    /\ tables = {}
    /\ proc = [p \in Procs |-> Down]
    /\ crashes = 0
    /\ profile = [a \in Addresses |-> {}]

-----------------------------------------------------------------------------
(* migrate.                                                                *)

ProcBecomes(p, s) == proc' = [proc EXCEPT ![p] = s] /\ UNCHANGED <<crashes, profile>>

\* Started, or started again after a failure.
Starts(p) ==
    /\ proc[p].phase = "down"
    /\ ProcBecomes(p, [Down EXCEPT !.phase = IF created THEN "created" ELSE "creating"])
    /\ UNCHANGED <<created, recorded, tables>>

\* CREATE TABLE IF NOT EXISTS looked before another process created the table: its insert into the
\* catalog fails, and the process with it.
CreatesVersionTable(p) ==
    /\ proc[p].phase = "creating"
    /\ ProcBecomes(p, IF created THEN Down ELSE [Down EXCEPT !.phase = "created"])
    /\ created' = TRUE
    /\ UNCHANGED <<recorded, tables>>

\* The applied versions, read once.
ReadsApplied(p) ==
    /\ proc[p].phase = "created"
    /\ ProcBecomes(p, [proc[p] EXCEPT !.phase = "migrating", !.saw = recorded])
    /\ UNCHANGED <<created, recorded, tables>>

Pending(p) == Versions \ (proc[p].saw \union proc[p].done)
IsNext(p, v) == v \in Pending(p) /\ \A w \in Pending(p) : v <= w

\* Another transaction holds the names this migration creates: the statement waits for it.
Waits(p, v) == \E q \in Procs \ {p} : proc[q].phase = "executed" /\ IsNext(q, v)

\* The statements commit on their own, before the version is recorded.
ExecutesAutoCommit(p) ==
    /\ proc[p].phase = "migrating"
    /\ \E v \in Versions :
          /\ IsNext(p, v)
          /\ ~Waits(p, v)
          /\ tables' = tables \union {v}
          /\ ProcBecomes(p, IF v \in tables THEN Down ELSE [proc[p] EXCEPT !.phase = "executed"])
    /\ UNCHANGED <<created, recorded>>

\* A version that is recorded first, outside the transaction.
ExecutesRecordsFirst(p) ==
    /\ proc[p].phase = "migrating"
    /\ \E v \in Versions :
          /\ IsNext(p, v)
          /\ ~Waits(p, v)
          /\ recorded' = recorded \union {v}
          /\ ProcBecomes(p, IF v \in tables THEN Down ELSE [proc[p] EXCEPT !.phase = "executed"])
    /\ UNCHANGED <<created, tables>>

\* The statements of the next version, in an open transaction; they fail on tables that exist, and
\* the exception ends the process.
Executes(p) ==
    /\ proc[p].phase = "migrating"
    /\ \E v \in Versions :
          /\ IsNext(p, v)
          /\ ~Waits(p, v)
          /\ ProcBecomes(p, IF v \in tables THEN Down ELSE [proc[p] EXCEPT !.phase = "executed"])
    /\ UNCHANGED <<created, recorded, tables>>

\* The insert into schema_version and the commit.
Commits(p) ==
    /\ proc[p].phase = "executed"
    /\ \E v \in Versions :
          /\ IsNext(p, v)
          /\ recorded' = recorded \union {v}
          /\ tables' = tables \union {v}
          /\ ProcBecomes(p, [proc[p] EXCEPT !.phase = "migrating", !.done = @ \union {v}])
    /\ UNCHANGED created

\* Every version is applied: the routes are installed.
Serves(p) ==
    /\ proc[p].phase = "migrating"
    /\ Pending(p) = {}
    /\ ProcBecomes(p, [Down EXCEPT !.phase = "serving"])
    /\ UNCHANGED <<created, recorded, tables>>

\* The process dies, or the database fails and migrate throws: an open transaction is rolled back.
Crashes(p) ==
    /\ crashes < MaxCrashes
    /\ proc[p].phase # "down"
    /\ proc' = [proc EXCEPT ![p] = Down]
    /\ crashes' = crashes + 1
    /\ UNCHANGED <<created, recorded, tables, profile>>

\* What a process does by itself once it is started; the supervisor restarts one that ended.
ProcStep(p) ==
    Starts(p) \/ CreatesVersionTable(p) \/ ReadsApplied(p) \/ Executes(p) \/ Commits(p) \/ Serves(p)

-----------------------------------------------------------------------------
(* upsertAndGet.                                                           *)

\* An upsert that replaces the row of a wallet with a new subject.
UpsertReplaces(address, sub) ==
    IF \E row \in profile[address] : row.sub = sub THEN profile[address] ELSE {[id |-> sub, sub |-> sub]}

\* The row keeps its id and takes the caller's subject; a new row gets a fresh id, here the subject
\* that came first.
Upsert(address, sub) ==
    IF profile[address] = {}
    THEN {[id |-> sub, sub |-> sub]}
    ELSE {[row EXCEPT !.sub = sub] : row \in profile[address]}

\* One statement of Postgres: the CHECK on the address and the UNIQUE subject hold, or it fails.
Upserts(p, address, sub) ==
    /\ proc[p].phase = "serving"
    /\ address[2] = "lower"
    /\ \A a \in Addresses \ {address} : \A row \in profile[a] : row.sub # sub
    /\ profile' = [profile EXCEPT ![address] = Upsert(address, sub)]
    /\ UNCHANGED <<created, recorded, tables, proc, crashes>>

-----------------------------------------------------------------------------
(* Properties.                                                             *)

StoreTypeOK ==
    /\ created \in BOOLEAN
    /\ recorded \subseteq Versions
    /\ tables \subseteq Versions
    /\ proc \in [Procs -> [phase: {"down", "creating", "created", "migrating", "executed", "serving"},
                           saw: SUBSET Versions, done: SUBSET Versions]]
    /\ crashes \in 0 .. MaxCrashes
    /\ profile \in [Addresses -> SUBSET [id: Subjects, sub: Subjects]]

\* "records applied versions in schema_version and runs each new migration in its own transaction"
\* (Db.kt migrate): whoever crashed or raced, the recorded versions are the ones whose tables
\* exist, without a gap, and a process that serves finds them all.
SchemaSound ==
    /\ recorded = tables
    /\ \A v \in tables : \A w \in Versions : w < v => w \in tables
    /\ \A p \in Procs : proc[p].phase = "serving" => tables = Versions

\* Starting never gets stuck: after the last crash every process comes to serve, whatever the
\* others committed in between (Db.kt migrate under compose's restart policy).
EventuallyServes == \A p \in Procs : []<>(proc[p].phase = "serving")
=============================================================================
