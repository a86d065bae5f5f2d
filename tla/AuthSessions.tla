---------------------------- MODULE AuthSessions ----------------------------
(***************************************************************************)
(* Authentication and access management (internal/core/service/auth.go,    *)
(* access.go and access_repository.go) over one PostgreSQL database.  A    *)
(* request runs on a thread, one step per SQL statement with the local     *)
(* checks that follow it; statements of other requests, a failed statement *)
(* and the expiry of a session come in between.                            *)
(*                                                                         *)
(* A request refused by its first statement changes nothing and is not a   *)
(* step.  A request that writes with one statement and whose reads cannot  *)
(* go stale (a row is never deleted, is_root_admin never changes) is one   *)
(* step: creating roles, users and service accounts, updating roles and    *)
(* service accounts.  A role either holds the one permission routes ask    *)
(* for or does not, and an allowlist is the set of addresses it matches.   *)
(* A definition named Op_Fault is Op with a plausible bug.                 *)
(***************************************************************************)
EXTENDS Naturals

CONSTANTS Threads,      \* requests served at once
          Users, Accounts,   \* ids of users and of service accounts
          Roles, Passwords, Sessions,
          Addresses,    \* client addresses
          Allowlists,   \* the allowlists in use
          MaxCalls,     \* bound on the number of requests
          None          \* no user, role, session or password

Principals == Users \cup Accounts

ASSUME AuthAssumption ==
    /\ Users \cap Accounts = {}
    /\ Principals \cap Sessions = {} /\ Principals \cap Roles = {}
    /\ Roles \cap Sessions = {}
    /\ None \notin Principals \cup Roles \cup Passwords \cup Sessions
    /\ Allowlists \subseteq SUBSET Addresses
    /\ {} \in Allowlists
    /\ MaxCalls \in Nat

VARIABLES
    rows,      \* durable: the users and service accounts that exist
    root,      \* durable: the users with is_root_admin
    enabled,   \* durable: the principals with active = true
    password,  \* durable: user -> password
    role,      \* durable: principal -> role_id
    allowed,   \* durable: principal -> allowed_cidrs
    roles,     \* durable: the roles that exist
    granting,  \* durable: the roles that hold the permission
    owner,     \* durable: session -> user, None without a row
    token,     \* durable: session -> the token whose hash it stores
    revoked,   \* durable: the sessions with revoked_at
    lapsed,    \* the sessions whose expires_at is past
    drawn,     \* refresh tokens 1..drawn were generated
    keyed,     \* the sessions and accounts with an access token issued
    calls,     \* requests begun so far
    pc,        \* where each request stands
    who, ses,  \* its principal and session
    presented, \* the refresh token it presents
    secret,    \* the password a login verified or UpdateMe is to write
    newAllowed, \* the allowlist UpdateMe is to write
    cutsOff,   \* whether UpdateMe was given a new password
    asked,     \* the role a request was granted the permission by
    barred,    \* history: what has been cut off ever since it began
    covered,   \* history: the sessions its change is to revoke
    exchanges, \* history: the refresh tokens exchanged, and for which
    proof      \* history: session -> the password its login verified

tableVars == <<rows, root, enabled, password, role, allowed, roles, granting>>
sessionVars == <<owner, token, revoked, drawn, keyed, exchanges, proof>>
localVars == <<who, ses, presented, secret, newAllowed, cutsOff, asked,
               covered>>
vars == <<tableVars, sessionVars, lapsed, calls, pc, localVars, barred>>

Steps == {"idle", "setupCreate", "loginCreate", "loginIssue", "loginUndo",
          "refreshUser", "refreshRotate", "userRow", "roleRow", "granted",
          "signedIn", "meWrite", "revokeAll", "changed"}

(* The last conjuncts are the foreign keys and CHECKs of the schema.       *)
TypeOK ==
    /\ rows \subseteq Principals /\ root \subseteq Users \cap rows
    /\ enabled \subseteq Principals
    /\ password \in [Users -> Passwords \cup {None}]
    /\ role \in [Principals -> Roles \cup {None}]
    /\ allowed \in [Principals -> Allowlists]
    /\ roles \subseteq Roles /\ granting \subseteq Roles
    /\ owner \in [Sessions -> Users \cup {None}]
    /\ token \in [Sessions -> Nat]
    /\ revoked \subseteq Sessions /\ lapsed \subseteq Sessions
    /\ drawn \in Nat /\ calls \in 0..MaxCalls
    /\ keyed \subseteq Sessions \cup Accounts
    /\ pc \in [Threads -> Steps]
    /\ who \in [Threads -> Principals \cup {None}]
    /\ ses \in [Threads -> Sessions \cup {None}]
    /\ presented \in [Threads -> Nat]
    /\ secret \in [Threads -> Passwords \cup {None}]
    /\ newAllowed \in [Threads -> Allowlists]
    /\ cutsOff \in [Threads -> BOOLEAN]
    /\ asked \in [Threads -> Roles \cup {None}]
    /\ barred \in [Threads -> SUBSET (Principals \cup Sessions \cup Roles)]
    /\ covered \in [Threads -> SUBSET Sessions]
    /\ exchanges \subseteq [session : Sessions, old : Nat, new : Nat]
    /\ proof \in [Sessions -> Passwords \cup {None}]
    /\ \A s \in Sessions : owner[s] # None => owner[s] \in rows
    /\ \A x \in Principals : role[x] # None <=> x \in rows \ root
    /\ \A x \in rows \ root : role[x] \in roles

(* An installation starts with an empty database, or is taken up after its *)
(* administrator set it up, created a role and gave it to one user.        *)
Installed(a, u, r, p) ==
    /\ rows = {a, u} /\ root = {a} /\ enabled = {a, u}
    /\ password = [x \in Users |-> IF x \in {a, u} THEN p ELSE None]
    /\ role = [x \in Principals |-> IF x = u THEN r ELSE None]
    /\ roles = {r} /\ granting = {r}

Init ==
    /\ \/ /\ rows = {} /\ root = {} /\ enabled = {}
          /\ password = [u \in Users |-> None]
          /\ role = [x \in Principals |-> None]
          /\ roles = {} /\ granting = {}
       \/ \E a, u \in Users, r \in Roles, p \in Passwords :
              a # u /\ Installed(a, u, r, p)
    /\ allowed = [x \in Principals |-> {}]
    /\ owner = [s \in Sessions |-> None]
    /\ token = [s \in Sessions |-> 0]
    /\ revoked = {} /\ lapsed = {}
    /\ drawn = 0 /\ calls = 0
    /\ keyed = {} /\ exchanges = {}
    /\ proof = [s \in Sessions |-> None]
    /\ pc = [t \in Threads |-> "idle"]
    /\ who = [t \in Threads |-> None] /\ ses = [t \in Threads |-> None]
    /\ presented = [t \in Threads |-> 0]
    /\ secret = [t \in Threads |-> None]
    /\ newAllowed = [t \in Threads |-> {}]
    /\ cutsOff = [t \in Threads |-> FALSE]
    /\ asked = [t \in Threads |-> None]
    /\ barred = [t \in Threads |-> {}]
    /\ covered = [t \in Threads |-> {}]
-----------------------------------------------------------------------------
(* Moving a request on, and ending it.                                     *)

Goto(t, step) == pc' = [pc EXCEPT ![t] = step]
Continue(t, step) == Goto(t, step) /\ UNCHANGED <<localVars, barred>>

Finish(t) ==
    /\ Goto(t, "idle")
    /\ who' = [who EXCEPT ![t] = None]
    /\ ses' = [ses EXCEPT ![t] = None]
    /\ presented' = [presented EXCEPT ![t] = 0]
    /\ secret' = [secret EXCEPT ![t] = None]
    /\ newAllowed' = [newAllowed EXCEPT ![t] = {}]
    /\ cutsOff' = [cutsOff EXCEPT ![t] = FALSE]
    /\ asked' = [asked EXCEPT ![t] = None]
    /\ covered' = [covered EXCEPT ![t] = {}]
    /\ barred' = [barred EXCEPT ![t] = {}]

(* What a request that begins now must not be served for.                  *)
CutOff == revoked \cup (rows \ enabled) \cup (roles \ granting)

Count == calls < MaxCalls /\ calls' = calls + 1

Begin(t, step, p, s, k) ==
    /\ pc[t] = "idle" /\ Count
    /\ Goto(t, step)
    /\ who' = [who EXCEPT ![t] = p]
    /\ ses' = [ses EXCEPT ![t] = s]
    /\ presented' = [presented EXCEPT ![t] = k]
    /\ barred' = [barred EXCEPT ![t] = CutOff]
    /\ UNCHANGED <<newAllowed, cutsOff, covered>>

SessionsOf(u) == {s \in Sessions : owner[s] = u}
Live(s) == owner[s] # None /\ s \notin revoked /\ s \notin lapsed

ipAllowed(address, allowlist) == allowlist = {} \/ address \in allowlist

(* What is checked of the row of a user or a service account once read.    *)
Admits_Fault(p, address) == ipAllowed(address, allowed[p])   \* active ignored
Admits(p, address) == p \in enabled /\ ipAllowed(address, allowed[p])

CheckRow(t, pass) ==
    \E a \in Addresses : IF Admits(who[t], a) THEN pass ELSE Finish(t)
-----------------------------------------------------------------------------
(* Setup: two statements, the second under the unique partial index.       *)

SetupCount(t) ==
    /\ root = {}
    /\ Begin(t, "setupCreate", None, None, 0)
    /\ UNCHANGED <<tableVars, sessionVars, lapsed, secret, asked>>

SetupCreate_Fault(t) ==   \* without the unique index on is_root_admin
    /\ pc[t] = "setupCreate"
    /\ \E u \in Users \ rows, p \in Passwords :
          /\ rows' = rows \cup {u} /\ root' = root \cup {u}
          /\ enabled' = enabled \cup {u}
          /\ password' = [password EXCEPT ![u] = p]
    /\ Finish(t)
    /\ UNCHANGED <<role, allowed, roles, granting, sessionVars, lapsed, calls>>

SetupCreate(t) ==
    /\ pc[t] = "setupCreate"
    /\ IF root = {}
       THEN \E u \in Users \ rows, p \in Passwords :
                /\ rows' = rows \cup {u} /\ root' = root \cup {u}
                /\ enabled' = enabled \cup {u}
                /\ password' = [password EXCEPT ![u] = p]
                /\ UNCHANGED <<role, allowed, roles, granting>>
       ELSE UNCHANGED tableVars
    /\ Finish(t)
    /\ UNCHANGED <<sessionVars, lapsed, calls>>
-----------------------------------------------------------------------------
(* Signing in, and staying signed in.                                      *)

LoginUser(t) ==
    /\ \E u \in Users \cap rows, a \in Addresses :
          /\ Admits(u, a)
          /\ Begin(t, "loginCreate", u, None, 0)
          /\ secret' = [secret EXCEPT ![t] = password[u]]
    /\ UNCHANGED <<tableVars, sessionVars, lapsed, asked>>

LoginCreate_Fault(t) ==   \* a session takes over the row of another
    /\ pc[t] = "loginCreate"
    /\ \E s \in Sessions :
          /\ owner' = [owner EXCEPT ![s] = who[t]]
          /\ token' = [token EXCEPT ![s] = drawn + 1]
          /\ proof' = [proof EXCEPT ![s] = secret[t]]
          /\ ses' = [ses EXCEPT ![t] = s]
    /\ drawn' = drawn + 1
    /\ Goto(t, "loginIssue")
    /\ UNCHANGED <<tableVars, revoked, keyed, exchanges, lapsed, calls, barred,
                   who, presented, secret, newAllowed, cutsOff, asked, covered>>

CreateSession(t, s) ==
    /\ owner[s] = None
    /\ owner' = [owner EXCEPT ![s] = who[t]]
    /\ token' = [token EXCEPT ![s] = drawn + 1]
    /\ proof' = [proof EXCEPT ![s] = secret[t]]
    /\ drawn' = drawn + 1

LoginCreate(t) ==
    /\ pc[t] = "loginCreate"
    /\ \E s \in Sessions : CreateSession(t, s) /\ ses' = [ses EXCEPT ![t] = s]
    /\ Goto(t, "loginIssue")
    /\ UNCHANGED <<tableVars, revoked, keyed, exchanges, lapsed, calls, barred,
                   who, presented, secret, newAllowed, cutsOff, asked, covered>>

LoginIssue(t) ==
    /\ pc[t] = "loginIssue"
    /\ \/ /\ keyed' = keyed \cup {ses[t]}
          /\ Continue(t, "signedIn")
       \/ /\ Continue(t, "loginUndo")
          /\ UNCHANGED keyed
    /\ UNCHANGED <<tableVars, owner, token, revoked, drawn, exchanges, proof,
                   lapsed, calls>>

LoginUndo(t) ==
    /\ pc[t] = "loginUndo"
    /\ revoked' = revoked \cup {ses[t]}
    /\ Finish(t)
    /\ UNCHANGED <<tableVars, owner, token, drawn, keyed, exchanges, proof,
                   lapsed, calls>>

ServiceToken(t) ==
    /\ \E p \in Accounts \cap rows, a \in Addresses :
          /\ Admits(p, a)
          /\ Begin(t, "signedIn", p, None, 0)
          /\ keyed' = keyed \cup {p}
    /\ UNCHANGED <<tableVars, owner, token, revoked, drawn, exchanges, proof,
                   lapsed, secret, asked>>

RefreshSession(t) ==
    /\ \E s \in Sessions :
          Live(s) /\ Begin(t, "refreshUser", owner[s], s, token[s])
    /\ UNCHANGED <<tableVars, sessionVars, lapsed, secret, asked>>

RefreshUser(t) ==
    /\ pc[t] = "refreshUser"
    /\ CheckRow(t, Continue(t, "refreshRotate"))
    /\ UNCHANGED <<tableVars, sessionVars, lapsed, calls>>

(* The WHERE clause of RotateSession.                                      *)
Rotatable_AnyToken(s, k) == s \notin revoked
Rotatable_AnyState(s, k) == token[s] = k
Rotatable(s, k) == token[s] = k /\ s \notin revoked

RotateSession(s, k) ==
    /\ drawn' = drawn + 1
    /\ token' = [token EXCEPT ![s] = drawn + 1]
    /\ exchanges' = exchanges \cup {[session |-> s, old |-> k, new |-> drawn + 1]}

RefreshRotate(t) ==
    /\ pc[t] = "refreshRotate"
    /\ IF Rotatable(ses[t], presented[t])
       THEN /\ RotateSession(ses[t], presented[t])
            /\ keyed' = keyed \cup {ses[t]}
            /\ Continue(t, "signedIn")
       ELSE Finish(t) /\ UNCHANGED <<drawn, token, keyed, exchanges>>
    /\ UNCHANGED <<tableVars, owner, revoked, proof, lapsed, calls>>
-----------------------------------------------------------------------------
(* Authorize, which the middleware runs before the handler of a route: the *)
(* session, the user and the role are read one after the other.            *)

AuthorizeUser(t) ==
    /\ \E s \in Sessions \cap keyed :
          Live(s) /\ Begin(t, "userRow", owner[s], s, 0)
    /\ UNCHANGED <<tableVars, sessionVars, lapsed, secret, asked>>

GrantOrReadRole(t, p) ==
    \/ /\ Goto(t, "granted")
       /\ UNCHANGED asked
    \/ /\ p \notin root
       /\ Goto(t, "roleRow")
       /\ asked' = [asked EXCEPT ![t] = role[p]]

UserRow(t) ==
    /\ pc[t] = "userRow"
    /\ CheckRow(t, /\ GrantOrReadRole(t, who[t])
                   /\ UNCHANGED <<who, ses, presented, secret, newAllowed,
                                  cutsOff, covered, barred>>)
    /\ UNCHANGED <<tableVars, sessionVars, lapsed, calls>>

AuthorizeService(t) ==
    /\ \E p \in Accounts \cap keyed, a \in Addresses :
          /\ Admits(p, a)
          /\ \/ /\ Begin(t, "granted", p, None, 0)
                /\ UNCHANGED asked
             \/ /\ Begin(t, "roleRow", p, None, 0)
                /\ asked' = [asked EXCEPT ![t] = role[p]]
    /\ UNCHANGED <<tableVars, sessionVars, lapsed, secret>>

RoleRow(t) ==
    /\ pc[t] = "roleRow"
    /\ IF asked[t] \in granting THEN Continue(t, "granted") ELSE Finish(t)
    /\ UNCHANGED <<tableVars, sessionVars, lapsed, calls>>

(* The response is sent; for a granted request its handler has run.        *)
Respond(t) ==
    /\ pc[t] \in {"granted", "signedIn", "changed"}
    /\ Finish(t)
    /\ UNCHANGED <<tableVars, sessionVars, lapsed, calls>>
-----------------------------------------------------------------------------
(* The handlers that follow an authorization without a permission.         *)

Logout(t) ==
    /\ pc[t] = "granted" /\ asked[t] = None /\ who[t] \in Users
    /\ revoked' = revoked \cup {ses[t]}
    /\ Finish(t)
    /\ UNCHANGED <<tableVars, owner, token, drawn, keyed, exchanges, proof,
                   lapsed, calls>>

(* GetUserByID and everything UpdateMe decides from the row it returns: a  *)
(* new password or the present one, a new allowlist for the root admin or  *)
(* the present one.  The current password given is right.                  *)
MeRead(t) ==
    /\ pc[t] = "granted" /\ asked[t] = None /\ who[t] \in Users
    /\ LET u == who[t] IN
       /\ \E p \in Passwords \cup {None} :
             /\ cutsOff' = [cutsOff EXCEPT ![t] = p # None]
             /\ secret' = [secret EXCEPT ![t] = IF p = None THEN password[u] ELSE p]
       /\ \E l \in {allowed[u]} \cup (IF u \in root THEN Allowlists ELSE {}) :
             newAllowed' = [newAllowed EXCEPT ![t] = l]
    /\ Goto(t, "meWrite")
    /\ UNCHANGED <<tableVars, sessionVars, lapsed, calls, barred,
                   who, ses, presented, asked, covered>>

UpdateUserCredentials(t) ==
    /\ password' = [password EXCEPT ![who[t]] = secret[t]]
    /\ allowed' = [allowed EXCEPT ![who[t]] = newAllowed[t]]
    /\ UNCHANGED <<rows, root, enabled, role, roles, granting>>

MeWrite(t) ==
    /\ pc[t] = "meWrite"
    /\ UpdateUserCredentials(t)
    /\ IF cutsOff[t]
       THEN /\ Goto(t, "revokeAll")
            /\ covered' = [covered EXCEPT ![t] = SessionsOf(who[t])]
            /\ UNCHANGED <<who, ses, presented, secret, newAllowed, cutsOff,
                           asked, barred>>
       ELSE Finish(t)
    /\ UNCHANGED <<sessionVars, lapsed, calls>>

(* RevokeUserSessions, the last statement of UpdateMe and of UpdateUser.   *)
RevokeAll_Fault(t) ==   \* the error of the statement is ignored
    /\ pc[t] = "revokeAll"
    /\ \/ revoked' = revoked \cup SessionsOf(who[t])
       \/ UNCHANGED revoked
    /\ Continue(t, "changed")
    /\ UNCHANGED <<tableVars, owner, token, drawn, keyed, exchanges, proof,
                   lapsed, calls>>

RevokeUserSessions(u) ==
    /\ revoked' = revoked \cup SessionsOf(u)
    /\ UNCHANGED <<tableVars, owner, token, drawn, keyed, exchanges, proof>>

RevokeAll(t) ==
    /\ pc[t] = "revokeAll"
    /\ RevokeUserSessions(who[t])
    /\ Continue(t, "changed")
    /\ UNCHANGED <<lapsed, calls>>
-----------------------------------------------------------------------------
(* Access management, by an administrator authorized to do it.  Whoever    *)
(* gets access back leaves the history of what was cut off.                *)

Restore(x, back) ==
    barred' = [t \in Threads |-> IF back THEN barred[t] \ {x} ELSE barred[t]]

CreateRole ==
    /\ root # {} /\ Count
    /\ \E r \in Roles \ roles, holds \in BOOLEAN :
          /\ roles' = roles \cup {r}
          /\ granting' = IF holds THEN granting \cup {r} ELSE granting
    /\ UNCHANGED <<rows, root, enabled, password, role, allowed, sessionVars,
                   lapsed, pc, localVars, barred>>

UpdateRole ==
    /\ Count
    /\ \E r \in roles, holds \in BOOLEAN :
          /\ granting' = IF holds THEN granting \cup {r} ELSE granting \ {r}
          /\ Restore(r, holds)
    /\ UNCHANGED <<rows, root, enabled, password, role, allowed, roles,
                   sessionVars, lapsed, pc, localVars>>

Insert(x, r, l) ==
    /\ rows' = rows \cup {x} /\ enabled' = enabled \cup {x}
    /\ role' = [role EXCEPT ![x] = r]
    /\ allowed' = [allowed EXCEPT ![x] = l]

CreateUser ==
    /\ Count
    /\ \E r \in roles, l \in Allowlists, u \in Users \ rows, p \in Passwords :
          Insert(u, r, l) /\ password' = [password EXCEPT ![u] = p]
    /\ UNCHANGED <<root, roles, granting, sessionVars, lapsed, pc, localVars,
                   barred>>

CreateServiceAccount ==
    /\ Count
    /\ \E r \in roles, l \in Allowlists, a \in Accounts \ rows : Insert(a, r, l)
    /\ UNCHANGED <<root, password, roles, granting, sessionVars, lapsed, pc,
                   localVars, barred>>

Update(x, r, active, l) ==
    /\ role' = [role EXCEPT ![x] = r]
    /\ enabled' = IF active THEN enabled \cup {x} ELSE enabled \ {x}
    /\ allowed' = [allowed EXCEPT ![x] = l]
    /\ Restore(x, active)

UpdateUser_Fault(t) ==   \* the root admin is not immutable
    /\ pc[t] = "idle" /\ Count
    /\ \E u \in Users \cap rows, r \in roles, active \in BOOLEAN,
          l \in Allowlists :
          /\ Update(u, r, active, l)
          /\ IF active
             THEN UNCHANGED <<pc, who, covered>>
             ELSE /\ Goto(t, "revokeAll")
                  /\ who' = [who EXCEPT ![t] = u]
                  /\ covered' = [covered EXCEPT ![t] = SessionsOf(u)]
    /\ UNCHANGED <<rows, root, password, roles, granting, sessionVars, lapsed,
                   ses, presented, secret, newAllowed, cutsOff, asked>>

UpdateUser(t) ==
    /\ pc[t] = "idle" /\ Count
    /\ \E u \in (Users \cap rows) \ root, r \in roles, active \in BOOLEAN,
          l \in Allowlists :
          /\ Update(u, r, active, l)
          /\ IF active
             THEN UNCHANGED <<pc, who, covered>>
             ELSE /\ Goto(t, "revokeAll")
                  /\ who' = [who EXCEPT ![t] = u]
                  /\ covered' = [covered EXCEPT ![t] = SessionsOf(u)]
    /\ UNCHANGED <<rows, root, password, roles, granting, sessionVars, lapsed,
                   ses, presented, secret, newAllowed, cutsOff, asked>>

UpdateServiceAccount ==
    /\ Count
    /\ \E a \in Accounts \cap rows, r \in roles, active \in BOOLEAN,
          l \in Allowlists : Update(a, r, active, l)
    /\ UNCHANGED <<rows, root, password, roles, granting, sessionVars, lapsed,
                   pc, localVars>>
-----------------------------------------------------------------------------
(* The environment: time passes, and a statement fails or the client of    *)
(* the request goes away before it (its context ends every statement).  A  *)
(* write may be committed all the same: the request then ends in an error, *)
(* and nobody learns the token it drew.                                    *)

Lapse ==
    /\ \E s \in Sessions \ lapsed : owner[s] # None /\ lapsed' = lapsed \cup {s}
    /\ UNCHANGED <<tableVars, sessionVars, calls, pc, localVars, barred>>

StatementFails(t) ==
    /\ pc[t] \in {"setupCreate", "loginCreate", "loginUndo", "refreshUser",
                  "refreshRotate", "userRow", "roleRow", "meWrite", "revokeAll"}
    /\ Finish(t)
    /\ UNCHANGED <<tableVars, sessionVars, lapsed, calls>>

CreateUnheard(t) ==
    /\ pc[t] = "loginCreate"
    /\ \E s \in Sessions : CreateSession(t, s)
    /\ Finish(t)
    /\ UNCHANGED <<tableVars, revoked, keyed, exchanges, lapsed, calls>>

RotateUnheard(t) ==
    /\ pc[t] = "refreshRotate" /\ Rotatable(ses[t], presented[t])
    /\ RotateSession(ses[t], presented[t])
    /\ Finish(t)
    /\ UNCHANGED <<tableVars, owner, revoked, keyed, proof, lapsed, calls>>

WriteUnheard(t) ==
    /\ pc[t] = "meWrite"
    /\ UpdateUserCredentials(t)
    /\ Finish(t)
    /\ UNCHANGED <<sessionVars, lapsed, calls>>

RevokeUnheard(t) ==
    /\ pc[t] = "revokeAll"
    /\ RevokeUserSessions(who[t])
    /\ Finish(t)
    /\ UNCHANGED <<lapsed, calls>>

StatementUnheard(t) ==
    CreateUnheard(t) \/ RotateUnheard(t) \/ WriteUnheard(t) \/ RevokeUnheard(t)

Thread(t) ==
    \/ SetupCount(t) \/ SetupCreate(t)
    \/ LoginUser(t) \/ LoginCreate(t) \/ LoginIssue(t) \/ LoginUndo(t)
    \/ ServiceToken(t)
    \/ RefreshSession(t) \/ RefreshUser(t) \/ RefreshRotate(t)
    \/ AuthorizeUser(t) \/ UserRow(t) \/ AuthorizeService(t) \/ RoleRow(t)
    \/ Respond(t)
    \/ Logout(t) \/ MeRead(t) \/ MeWrite(t) \/ RevokeAll(t)
    \/ UpdateUser(t)
    \/ StatementFails(t) \/ StatementUnheard(t)

Next ==
    \/ \E t \in Threads : Thread(t)
    \/ CreateRole \/ UpdateRole
    \/ CreateUser \/ CreateServiceAccount \/ UpdateServiceAccount
    \/ Lapse

Spec == Init /\ [][Next]_vars
-----------------------------------------------------------------------------
(* At most one root admin, however many Setup requests counted none before *)
(* any of them inserted its row (auth.go 71-103, the unique partial index  *)
(* of 20260902174153_auth_access.sql).                                     *)
OneRootAdmin == \A u, v \in root : u = v

(* A refresh token is exchanged at most once, and only for a token nobody  *)
(* was given before, however many requests present it at once (Refresh,    *)
(* auth.go 153-195, RotateSession).                                        *)
TokenExchangedOnce ==
    \A x, y \in exchanges : x.old = y.old \/ x.new = y.new => x = y

(* No request is served for a session, a user, a service account or a role *)
(* that was cut off (revoked, deactivated, stripped of the permission)     *)
(* when the request began and has been ever since: an answer is stale by   *)
(* no more than the request is long (Refresh, authorizeUser and            *)
(* authorizeService, auth.go 153-195 and 286-345).                         *)
CutOffNeverServed ==
    \A t \in Threads : pc[t] \in {"granted", "signedIn"} =>
        {who[t], ses[t], asked[t]} \cap barred[t] = {}

(* UpdateMe with a new password and UpdateUser that deactivates succeed    *)
(* only after every session the user had when the row was written has been *)
(* revoked, whatever was refreshed, opened or failed in between (auth.go   *)
(* 247-253, access.go 145-150).                                            *)
ChangeRevokesEarlier ==
    \A t \in Threads : pc[t] = "changed" => covered[t] \subseteq revoked

(* Revocation is final: a revoked session is never live again, and its     *)
(* token never replaced, by a refresh that read it before (RotateSession   *)
(* and RevokeSession, access_repository.go 231-250).                       *)
RevocationIsFinal ==
    [][\A s \in revoked : s \in revoked' /\ token'[s] = token[s]]_vars

(* The services implement the ledger of sessions.                          *)
Ledger == INSTANCE SessionLedger WITH NoUser <- None
ImplementsSessionLedger == Ledger!Spec

(* What authentication.md line 81 says: changing the password revokes all  *)
(* user sessions.  When UpdateMe has succeeded, whoever is still signed in *)
(* signed in with the new password (auth.go 109-128 and 247-253).          *)
PasswordChangeEndsSessions ==
    \A t \in Threads : pc[t] = "changed" /\ cutsOff[t] =>
        \A s \in SessionsOf(who[t]) \ revoked : proof[s] = secret[t]

(* What authentication.md line 83 says: only the root admin may change its *)
(* own allowed_cidrs through PATCH /v1/auth/me (auth.go 224-247).          *)
OnlyRootChangesOwnNetworks ==
    [][\A t \in Threads : pc[t] = "meWrite" /\ pc'[t] # "meWrite" =>
          allowed'[who[t]] = allowed[who[t]] \/ who[t] \in root]_vars
-----------------------------------------------------------------------------
(* The inductive invariant the proofs rest on (AuthSessionsProofs.tla).    *)

(* A request works on a session of its own user.                           *)
OwnSession(t) ==
    who[t] \in Users /\ ses[t] \in Sessions /\ owner[ses[t]] = who[t]

ThreadInv ==
    \A t \in Threads :
        /\ pc[t] = "loginCreate" => who[t] \in Users \cap rows
        /\ pc[t] \in {"loginIssue", "loginUndo", "refreshUser",
                      "refreshRotate", "userRow"} => OwnSession(t)
        /\ pc[t] \in {"roleRow", "granted", "signedIn"} =>
               who[t] \in Accounts \/ OwnSession(t)
        /\ pc[t] \in {"meWrite", "revokeAll", "changed"} => who[t] \in Users
        /\ pc[t] = "revokeAll" => covered[t] \subseteq SessionsOf(who[t])
        /\ pc[t] \notin {"roleRow", "granted"} => asked[t] = None

(* A token is current for one session, and never one that was exchanged.   *)
TokenInv ==
    /\ \A s \in Sessions : owner[s] = None => s \notin revoked \cup keyed
    /\ \A s \in Sessions : token[s] <= drawn
    /\ \A s \in Sessions : owner[s] # None => token[s] >= 1
    /\ \A s, z \in Sessions :
          owner[s] # None /\ owner[z] # None /\ token[s] = token[z] => s = z
    /\ \A x \in exchanges :
          /\ x.old <= drawn /\ x.new <= drawn
          /\ \A s \in Sessions : owner[s] # None => token[s] # x.old

(* What was cut off when a request began and is not any more is forgotten, *)
(* and a request moves on only past what it has found not cut off.         *)
BarredInv ==
    \A t \in Threads :
        /\ barred[t] \subseteq CutOff
        /\ pc[t] \in {"loginCreate", "loginIssue", "loginUndo",
                      "refreshRotate", "roleRow", "granted", "signedIn"} =>
               who[t] \notin barred[t]
        /\ pc[t] \in {"loginIssue", "loginUndo", "refreshUser",
                      "refreshRotate", "userRow", "roleRow", "granted",
                      "signedIn"} => ses[t] \notin barred[t]
        /\ pc[t] # "roleRow" => asked[t] \notin barred[t]

IInv ==
    /\ TypeOK
    /\ ThreadInv
    /\ OneRootAdmin
    /\ TokenInv
    /\ TokenExchangedOnce
    /\ ChangeRevokesEarlier
    /\ BarredInv
=============================================================================
