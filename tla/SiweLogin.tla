----------------------------- MODULE SiweLogin ------------------------------
(***************************************************************************)
(* Sign-in with a wallet (SiweResourceProvider, SiweAuthenticator,         *)
(* SiweVerifier) next to the User-Service that turns the token into a      *)
(* profile.  Logins run concurrently: the nonce is removed, the message    *)
(* verified, the user looked up, and Keycloak's transaction committed, in  *)
(* steps.  The signature of a message is the key that made it; parsing and *)
(* the message's own time window are left out.                             *)
(***************************************************************************)
EXTENDS UserStore

CONSTANTS
    Nonces,          \* strings a message may carry as its nonce
    Messages,        \* signed messages: [address, by, nonce, domain, chain]
    Domain,          \* the configured domain
    AllowedChains    \* the configured chain ids, {} for any

\* A login that creates a user gives it a subject of its own.
Logins == Subjects

ASSUME LoginAssumption ==
    \A m \in Messages : m.address \in Addresses /\ m.by \in Wallets /\ m.nonce \in Nonces

VARIABLES
    issued,   \* nonces ever issued (history)
    live,     \* nonces Keycloak holds as single-use objects
    login,    \* login request -> [phase, msg, saw]
    users,    \* Keycloak: username -> its subject (none or one)
    tokens    \* tokens issued: [login, username, sub, msg]

loginVars == <<issued, live, login, users, tokens>>
vars == <<storeVars, loginVars>>

Init ==
    /\ StoreInit
    /\ issued = {}
    /\ live = {}
    /\ login = [r \in Logins |-> [phase |-> "idle", msg |-> {}, saw |-> {}]]
    /\ users = [a \in Addresses |-> {}]
    /\ tokens = {}

-----------------------------------------------------------------------------
(* The nonce endpoint.                                                     *)

\* 24 random characters: a nonce no one was given before.
NonceIssued(n) ==
    /\ n \notin issued
    /\ issued' = issued \union {n}
    /\ live' = live \union {n}
    /\ UNCHANGED <<storeVars, login, users, tokens>>

\* The entry's time to live is over.
NonceExpires(n) ==
    /\ n \in live
    /\ live' = live \ {n}
    /\ UNCHANGED <<storeVars, issued, login, users, tokens>>

-----------------------------------------------------------------------------
(* authenticate.                                                           *)

LoginBecomes(r, s) == login' = [login EXCEPT ![r] = s] /\ UNCHANGED <<storeVars, issued>>

\* Both parameters present and the message parsed; otherwise the login fails and nothing changes.
LoginPosted(r, m) ==
    /\ login[r].phase = "idle"
    /\ LoginBecomes(r, [login[r] EXCEPT !.phase = "posted", !.msg = {m}])
    /\ UNCHANGED <<live, users, tokens>>

\* A nonce that is looked up and left to expire.
NonceTakenKeeps(r) ==
    /\ login[r].phase = "posted"
    /\ \E m \in login[r].msg :
          LoginBecomes(r, [login[r] EXCEPT !.phase = IF m.nonce \in live THEN "taken" ELSE "failed"])
    /\ UNCHANGED <<live, users, tokens>>

\* singleUseObjects().remove: one atomic step, and the nonce is gone whatever follows.
NonceTaken(r) ==
    /\ login[r].phase = "posted"
    /\ \E m \in login[r].msg :
          /\ LoginBecomes(r, [login[r] EXCEPT !.phase = IF m.nonce \in live THEN "taken" ELSE "failed"])
          /\ live' = live \ {m.nonce}
    /\ UNCHANGED <<users, tokens>>

\* The domain and the recovered key as siwe-java checks them, then the chain.
Verifies(m) ==
    /\ m.domain = Domain
    /\ m.by = m.address[1]
    /\ AllowedChains = {} \/ m.chain \in AllowedChains

Username(m) == <<m.address[1], "lower">>

LoginRefused(r) ==
    /\ login[r].phase = "taken"
    /\ \E m \in login[r].msg : ~Verifies(m)
    /\ LoginBecomes(r, [login[r] EXCEPT !.phase = "failed"])
    /\ UNCHANGED <<live, users, tokens>>

\* verify and getUserByUsername: verify reads nothing that changes.
UserLookedUp(r) ==
    /\ login[r].phase = "taken"
    /\ \E m \in login[r].msg :
          /\ Verifies(m)
          /\ LoginBecomes(r, [login[r] EXCEPT !.phase = "found", !.saw = users[Username(m)]])
    /\ UNCHANGED <<live, users, tokens>>

\* The end of Keycloak's transaction: it fails when another login created the user first
\* (usernames are unique in a realm) or the user that was found is gone.
LoginCommits(r) ==
    /\ login[r].phase = "found"
    /\ \E m \in login[r].msg :
          LET u == Username(m)
              sub == IF login[r].saw = {} THEN {r} ELSE login[r].saw
          IN  IF users[u] = login[r].saw
              THEN /\ users' = [users EXCEPT ![u] = sub]
                   /\ tokens' = tokens \union {[login |-> r, username |-> u, sub |-> s, msg |-> m] : s \in sub}
                   /\ LoginBecomes(r, [login[r] EXCEPT !.phase = "done"])
              ELSE /\ LoginBecomes(r, [login[r] EXCEPT !.phase = "failed"])
                   /\ UNCHANGED <<users, tokens>>
    /\ UNCHANGED live

\* An administrator deletes the user: its tokens stay valid until they expire.
UserRemoved(a) ==
    /\ users[a] # {}
    /\ users' = [users EXCEPT ![a] = {}]
    /\ UNCHANGED <<storeVars, issued, live, login, tokens>>

-----------------------------------------------------------------------------
(* /v1/me and every other route: the token's username and subject.         *)

ProfileRequested(p, t) == Upserts(p, t.username, t.sub) /\ UNCHANGED loginVars

LoginStep ==
    \/ \E n \in Nonces : NonceIssued(n) \/ NonceExpires(n)
    \/ \E r \in Logins :
          \/ \E m \in Messages : LoginPosted(r, m)
          \/ NonceTaken(r) \/ LoginRefused(r) \/ UserLookedUp(r) \/ LoginCommits(r)
    \/ \E a \in Addresses : UserRemoved(a)

StoreStep == \E p \in Procs : (ProcStep(p) \/ Crashes(p)) /\ UNCHANGED loginVars
ProfileStep == \E p \in Procs : \E t \in tokens : ProfileRequested(p, t)

Next == LoginStep \/ StoreStep \/ ProfileStep

Spec == Init /\ [][Next]_vars

\* A process makes its steps, and one that ended is started again.
FairSpec == Spec /\ \A p \in Procs : WF_vars(ProcStep(p) /\ UNCHANGED loginVars)

-----------------------------------------------------------------------------
(* Properties.                                                             *)

TypeOK ==
    /\ StoreTypeOK
    /\ issued \subseteq Nonces
    /\ live \subseteq Nonces
    /\ login \in [Logins -> [phase: {"idle", "posted", "taken", "found", "done", "failed"},
                             msg: SUBSET Messages, saw: SUBSET Subjects]]
    /\ users \in [Addresses -> SUBSET Subjects]
    /\ tokens \subseteq [login: Logins, username: Addresses, sub: Subjects, msg: Messages]

\* "a message can authenticate at most once" and "the lowercase EVM address IS the platform
\* identity" (SiweAuthenticator): a token stands for a message that its wallet signed for this
\* domain and an allowed chain, with a nonce this realm issued and that admitted no other login;
\* a wallet has one username however it wrote its address, and a subject one wallet.
LoginProven ==
    \A t \in tokens :
        /\ t.msg.by = t.username[1]
        /\ t.msg.domain = Domain
        /\ AllowedChains = {} \/ t.msg.chain \in AllowedChains
        /\ t.msg.nonce \in issued
        /\ \A u \in tokens :
              /\ u.login # t.login => u.msg.nonce # t.msg.nonce
              /\ u.msg.by = t.msg.by => u.username = t.username
              /\ u.sub = t.sub => u.username = t.username

\* "Idempotently link the Keycloak subject to the wallet address on each sign-in" (upsertAndGet):
\* no login, first or repeated, racing or after the Keycloak user was deleted, gives a wallet
\* another profile than the one its sessions and schedules refer to.
ProfileKept ==
    [][\A a \in Addresses : \A row \in profile[a] : \E new \in profile'[a] : new.id = row.id]_vars
=============================================================================
