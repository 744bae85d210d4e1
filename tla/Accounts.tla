------------------------------- MODULE Accounts -------------------------------
(***************************************************************************)
(* The accounts of one business: their roles and permissions, the switches *)
(* that close them, and the sessions opened on them                        *)
(* (backend/app/routers/users.py, routers/auth.py, deps.py,                *)
(* services/permissions.py, services/jwt_tokens.py).                       *)
(*                                                                         *)
(* A request loads the account, and the caller's rights, and writes later: *)
(* other requests commit in between.  A session is what the two tokens     *)
(* carry: the user and the token version.  Expiry is left out: an expired  *)
(* token is one that is no longer used.                                    *)
(***************************************************************************)
EXTENDS Integers

CONSTANTS
    Users,
    Boss,               \* the user who owns the business at first
    Workers,            \* requests served at the same time
    Permissions,        \* PERMISSION_KEYS, those the model looks at
    RoleDefaults,       \* ROLE_DEFAULTS: the permissions of each role
    MaxRequests,        \* bound: requests that change accounts or sign in
    None

VARIABLES
    accounts,           \* users with their membership; None before they exist
    sessions,           \* user and version of every token pair handed out
    resets,             \* users with an unused link for a new password
    request,            \* the request each worker is serving
    requests,
    revoked,            \* history: sessions that were open when theirs were revoked
    granted             \* history: permissions given since the role was

vars == <<accounts, sessions, resets, request, requests, revoked, granted>>

Roles == DOMAIN RoleDefaults
Account == [active : BOOLEAN, blocked : BOOLEAN, deleted : BOOLEAN, version : Nat,
            role : Roles, permissions : SUBSET Permissions]
Session == [user : Users, version : Nat]

(* What may be asked for.  PATCH /users/{id} and POST /users/bulk share their *)
(* effects; one field is changed per request.                                 *)
Switches == {"activate", "deactivate", "block", "unblock", "delete", "reset_password"}
Changes == [kind : Switches] \union [kind : {"set_role"}, role : Roles]
              \union [kind : {"grant", "withdraw"}, permission : Permissions]
Requests == [change : Changes \union [kind : {"create"}, role : Roles]
                              \union [kind : {"login", "google", "reset"}],
             target : Users, loaded : Account \union {None}]

NewAccount(role) ==
    [active |-> TRUE, blocked |-> FALSE, deleted |-> FALSE, version |-> 0,
     role |-> role, permissions |-> RoleDefaults[role]]

Init ==
    /\ accounts = [u \in Users |-> IF u = Boss THEN NewAccount("owner") ELSE None]
    /\ sessions = {}
    /\ resets = {}
    /\ request = [w \in Workers |-> None]
    /\ requests = 0
    /\ revoked = {}
    /\ granted = {}

-----------------------------------------------------------------------------
(* The gates of login, refresh and get_current_user. *)
MayEnter(account) == account.active /\ ~account.blocked /\ ~account.deleted
Accepted(s) ==
    /\ accounts[s.user] # None
    /\ accounts[s.user].version = s.version
    /\ MayEnter(accounts[s.user])
SignedIn(u) == \E s \in sessions : s.user = u /\ Accepted(s)

(* require_role("owner", "admin") and _guard_actor_target. *)
MayManage(actor, target) ==
    /\ SignedIn(actor)
    /\ accounts[actor].role \in {"owner", "admin"}
    /\ accounts[actor].role = "admin" =>
          (accounts[target] # None => accounts[target].role # "owner")
MayAsk(actor, target, change) ==
    /\ MayManage(actor, target)
    /\ accounts[actor].role = "admin" /\ change.kind \in {"create", "set_role"} =>
          change.role # "owner"
    /\ change.kind = "delete" => actor # target

-----------------------------------------------------------------------------
(* The account as a request leaves it, from the copy it loaded.  Every way to *)
(* close an account revokes the tokens, and so does a new password set by an  *)
(* owner or admin.                                                            *)
RevokesOnBlockAndDelete(kind) == kind \in {"block", "delete", "reset_password"}
                                        \* mutation: deactivation keeps the tokens
Revokes(kind) == kind \in {"deactivate", "block", "delete", "reset_password"}

PermissionsKept(account, change) ==     \* mutation: a new role keeps what was granted
    CASE change.kind = "set_role" -> account.permissions \union RoleDefaults[change.role]
      [] change.kind = "grant" -> account.permissions \union {change.permission}
      [] change.kind = "withdraw" -> account.permissions \ {change.permission}
      [] OTHER -> account.permissions
PermissionsAfter(account, change) ==
    CASE change.kind = "set_role" -> RoleDefaults[change.role]
      [] change.kind = "grant" -> account.permissions \union {change.permission}
      [] change.kind = "withdraw" -> account.permissions \ {change.permission}
      [] OTHER -> account.permissions

Changed(account, change) ==
    [active      |-> CASE change.kind = "activate" -> TRUE
                       [] change.kind \in {"deactivate", "delete"} -> FALSE
                       [] OTHER -> account.active,
     blocked     |-> CASE change.kind = "block" -> TRUE
                       [] change.kind \in {"activate", "unblock"} -> FALSE
                       [] OTHER -> account.blocked,
     deleted     |-> CASE change.kind = "delete" -> TRUE
                       [] change.kind = "activate" -> FALSE
                       [] OTHER -> account.deleted,
     version     |-> IF Revokes(change.kind) THEN account.version + 1 ELSE account.version,
     role        |-> IF change.kind = "set_role" THEN change.role ELSE account.role,
     permissions |-> PermissionsAfter(account, change)]

(* The unit of work writes the columns that differ from the loaded copy. *)
WrittenWhole(current, loaded, new) == new   \* mutation: the whole row is written
Written(current, loaded, new) ==
    [column \in DOMAIN new |-> IF new[column] = loaded[column] THEN current[column]
                               ELSE new[column]]

-----------------------------------------------------------------------------
Ask(w, target, change) ==
    /\ requests < MaxRequests
    /\ request[w] = None
    /\ request' = [request EXCEPT ![w] =
                      [change |-> change, target |-> target, loaded |-> accounts[target]]]
    /\ requests' = requests + 1
    /\ UNCHANGED <<accounts, sessions, resets, revoked, granted>>

Answered(w) == request' = [request EXCEPT ![w] = None] /\ UNCHANGED requests

(* POST /users. *)
AskCreate(w, target, role) ==
    LET change == [kind |-> "create", role |-> role]
    IN /\ accounts[target] = None
       /\ \E actor \in Users : MayAsk(actor, target, change)
       /\ Ask(w, target, change)
CommitCreate(w) ==
    LET r == request[w]
    IN /\ r # None /\ r.change.kind = "create"
       /\ accounts' = IF accounts[r.target] = None
                      THEN [accounts EXCEPT ![r.target] = NewAccount(r.change.role)]
                      ELSE accounts     \* the e-mail address is taken meanwhile
       /\ Answered(w)
       /\ UNCHANGED <<sessions, resets, revoked, granted>>

(* PATCH and DELETE /users/{id}, POST /users/bulk, /users/{id}/reset-password *)
(* and PATCH /users/{id}/permissions find accounts that are not deleted.      *)
AskChange(w, target, change) ==
    /\ accounts[target] # None /\ ~accounts[target].deleted
    /\ \E actor \in Users : MayAsk(actor, target, change)
    /\ Ask(w, target, change)
CommitChange(w) ==
    LET r == request[w]
        c == r.change
        new == Changed(r.loaded, c)
    IN /\ r # None /\ c.kind \notin {"create", "login", "google", "reset"}
       /\ accounts' = [accounts EXCEPT ![r.target] = Written(@, r.loaded, new)]
       /\ revoked' = IF c.kind \in {"deactivate", "block", "delete", "reset_password"}
                     THEN revoked \union {s \in sessions : s.user = r.target} ELSE revoked
       /\ granted' = CASE c.kind = "grant" -> granted \union {<<r.target, c.permission>>}
                       [] c.kind = "set_role" -> {g \in granted : g[1] # r.target}
                       [] OTHER -> granted
       /\ Answered(w)
       /\ UNCHANGED <<sessions, resets>>

(* POST /auth/login checks the gates and /auth/google leaves them to the next *)
(* request; both make the tokens from the row they loaded.  POST /auth/refresh*)
(* makes tokens of the version it was given, and so opens no other session.   *)
AskSession(w, u, kind) ==
    /\ accounts[u] # None
    /\ kind = "login" => MayEnter(accounts[u])
    /\ Ask(w, u, [kind |-> kind])
CommitSession(w) ==
    LET r == request[w]
    IN /\ r # None /\ r.change.kind \in {"login", "google"}
       /\ sessions' = sessions \union {[user |-> r.target, version |-> r.loaded.version]}
       /\ Answered(w)
       /\ UNCHANGED <<accounts, resets, revoked, granted>>

(* POST /auth/forgot-password leaves one unused link. *)
Forgot(u) ==
    /\ accounts[u] # None
    /\ resets' = resets \union {u}
    /\ UNCHANGED <<accounts, sessions, request, requests, revoked, granted>>

(* POST /auth/reset-password spends the link and writes the password only: the *)
(* token version stays, and with it every session; no gate is looked at.       *)
AskReset(w, u) ==
    /\ u \in resets /\ accounts[u] # None
    /\ Ask(w, u, [kind |-> "reset"])
CommitReset(w) ==
    LET r == request[w]
    IN /\ r # None /\ r.change.kind = "reset"
       /\ resets' = resets \ {r.target}
       /\ Answered(w)
       /\ UNCHANGED <<accounts, sessions, revoked, granted>>

Next ==
    \/ \E u \in Users : Forgot(u)
    \/ \E w \in Workers :
          \/ CommitCreate(w)
          \/ CommitChange(w)
          \/ CommitSession(w)
          \/ CommitReset(w)
          \/ \E u \in Users :
                \/ \E role \in Roles : AskCreate(w, u, role)
                \/ \E change \in Changes : AskChange(w, u, change)
                \/ \E kind \in {"login", "google"} : AskSession(w, u, kind)
                \/ AskReset(w, u)

Spec == Init /\ [][Next]_vars

-----------------------------------------------------------------------------
TypeOK ==
    /\ accounts \in [Users -> Account \union {None}]
    /\ sessions \in SUBSET Session
    /\ resets \in SUBSET Users
    /\ request \in [Workers -> Requests \union {None}]
    /\ requests \in 0..MaxRequests
    /\ revoked \in SUBSET Session
    /\ granted \in SUBSET (Users \X Permissions)

(* When requests are served one at a time, a session that was open when its   *)
(* account was closed, or was given a new password by an owner or admin, is   *)
(* never accepted again, however often the account is closed and opened       *)
(* afterwards.  A password the user sets with a reset link closes no session. *)
RevokedStaysRevoked == \A s \in revoked : ~Accepted(s)

(* When requests are served one at a time, what a member may do is what their *)
(* role gives or what they were given in that role: a new role takes back     *)
(* what an earlier one, or a grant in it, had allowed.                        *)
PermissionsAreGranted ==
    \A u \in Users : accounts[u] # None =>
        \A p \in accounts[u].permissions :
            p \in RoleDefaults[accounts[u].role] \/ <<u, p>> \in granted

(* A deleted account never comes back, not even when a request that loaded it *)
(* before the deletion activates it afterwards, and never signs in again.     *)
DeletedStaysDeleted ==
    [][\A u \in Users : accounts[u] # None /\ accounts[u].deleted
           => accounts'[u].deleted]_vars
=============================================================================
