--------------------------- MODULE Accounts_proofs ---------------------------
(***************************************************************************)
(* Theorems about Accounts, for any users, permissions, roles and requests *)
(* whose constants make sense.                                             *)
(***************************************************************************)
EXTENDS Accounts, TLAPS

Sensible ==
    /\ Boss \in Users /\ MaxRequests \in Nat /\ "owner" \in Roles
    /\ \A r \in Roles : RoleDefaults[r] \subseteq Permissions
    /\ None \notin Account

(* Requests that leave every account as it is.                               *)
Calm == {"login", "google", "reset"}
Others == Calm \union {"create"}

LEMMA ChangeTypes ==
    \A c \in Changes : /\ c.kind \notin Others
                       /\ c.kind = "set_role" => c.role \in Roles
                       /\ c.kind = "grant" => c.permission \in Permissions
BY DEF Changes, Switches, Others, Calm

LEMMA RequestTypes ==
    ASSUME NEW r \in Requests
    PROVE  /\ r.target \in Users /\ r.loaded \in Account \union {None}
           /\ r.change.kind \notin Others => r.change \in Changes
           /\ r.change.kind = "create" => r.change.role \in Roles
<1>1. /\ r.target \in Users /\ r.loaded \in Account \union {None}
      /\ \/ r.change \in Changes
         \/ r.change \in [kind : {"create"}, role : Roles]
         \/ r.change \in [kind : Calm]
  BY DEF Requests, Calm
<1>2. CASE r.change \in Changes
  BY <1>1, <1>2, ChangeTypes DEF Others
<1>3. CASE r.change \in [kind : {"create"}, role : Roles]
  BY <1>1, <1>3 DEF Others
<1>4. CASE r.change \in [kind : Calm]
  BY <1>1, <1>4 DEF Others, Calm
<1> QED BY <1>1, <1>2, <1>3, <1>4

(* What a change makes of an account, and what of that is written.           *)
LEMMA ChangedType ==
    ASSUME Sensible, NEW a \in Account, NEW c \in Changes
    PROVE  Changed(a, c) \in Account
<1>1. PermissionsAfter(a, c) \in SUBSET Permissions
  BY ChangeTypes DEF PermissionsAfter, Account, Sensible
<1>2. a.active \in BOOLEAN /\ a.blocked \in BOOLEAN /\ a.deleted \in BOOLEAN
      /\ a.version \in Nat /\ a.role \in Roles
  BY DEF Account
<1>3. c.kind = "set_role" => c.role \in Roles
  BY ChangeTypes
<1> DEFINE new == Changed(a, c)
<1>4. new.active \in BOOLEAN /\ new.blocked \in BOOLEAN /\ new.deleted \in BOOLEAN
  BY <1>2 DEF Changed
<1>5. new.version \in Nat /\ new.role \in Roles /\ new.permissions \in SUBSET Permissions
  BY <1>1, <1>2, <1>3 DEF Changed
<1>6. new = [active |-> new.active, blocked |-> new.blocked, deleted |-> new.deleted,
             version |-> new.version, role |-> new.role, permissions |-> new.permissions]
  BY DEF Changed
<1> HIDE DEF new
<1>7. new \in Account
  BY <1>4, <1>5, <1>6 DEF Account
<1> QED BY <1>7 DEF new

Columns == {"active", "blocked", "deleted", "version", "role", "permissions"}

LEMMA WrittenIs ==
    ASSUME NEW a \in Account, NEW b \in Account, NEW n \in Account
    PROVE  /\ DOMAIN Written(a, b, n) = Columns
           /\ Written(a, b, n).active = IF n.active = b.active THEN a.active ELSE n.active
           /\ Written(a, b, n).blocked = IF n.blocked = b.blocked THEN a.blocked ELSE n.blocked
           /\ Written(a, b, n).deleted = IF n.deleted = b.deleted THEN a.deleted ELSE n.deleted
           /\ Written(a, b, n).version = IF n.version = b.version THEN a.version ELSE n.version
           /\ Written(a, b, n).role = IF n.role = b.role THEN a.role ELSE n.role
           /\ Written(a, b, n).permissions =
                 IF n.permissions = b.permissions THEN a.permissions ELSE n.permissions
<1>1. DOMAIN n = Columns
  BY DEF Account, Columns
<1>2. Written(a, b, n) = [x \in Columns |-> IF n[x] = b[x] THEN a[x] ELSE n[x]]
  BY <1>1 DEF Written
<1> QED BY <1>2 DEF Columns

LEMMA WrittenType ==
    ASSUME NEW a \in Account, NEW b \in Account, NEW n \in Account
    PROVE  Written(a, b, n) \in Account
<1> DEFINE written == Written(a, b, n)
<1>1. written = [x \in Columns |-> written[x]]
  BY WrittenIs DEF Written
<1>2. /\ written.active \in BOOLEAN /\ written.blocked \in BOOLEAN
      /\ written.deleted \in BOOLEAN /\ written.version \in Nat /\ written.role \in Roles
      /\ written.permissions \in SUBSET Permissions
  BY WrittenIs DEF Account
<1> HIDE DEF written
<1>3. written = [active |-> written.active, blocked |-> written.blocked,
                 deleted |-> written.deleted, version |-> written.version,
                 role |-> written.role, permissions |-> written.permissions]
  BY <1>1 DEF Columns
<1>4. written \in Account
  BY <1>2, <1>3 DEF Account
<1> QED BY <1>4 DEF written

(* Written over the copy it was made from, the whole change arrives.         *)
LEMMA WrittenFresh ==
    ASSUME NEW a \in Account, NEW n \in Account
    PROVE  /\ Written(a, a, n).version = n.version /\ Written(a, a, n).role = n.role
           /\ Written(a, a, n).permissions = n.permissions
BY WrittenIs

-----------------------------------------------------------------------------
(* A request that changes an account or opens a session loaded one; one that *)
(* changes it, one that was not deleted.  No account vanishes.               *)
LoadedInv ==
    \A w \in Workers : request[w] # None =>
        /\ request[w].change.kind # "create" =>
              request[w].loaded \in Account /\ accounts[request[w].target] \in Account
        /\ request[w].change.kind \notin Others => ~request[w].loaded.deleted
AccountInv == TypeOK /\ LoadedInv

(* What a step does to accounts and requests.                                *)
LEMMA AskEffect ==
    ASSUME AccountInv, NEW w \in Workers, NEW u \in Users, NEW c, Ask(w, u, c)
    PROVE  /\ request[w] = None
           /\ request' = [request EXCEPT ![w] =
                             [change |-> c, target |-> u, loaded |-> accounts[u]]]
           /\ accounts' = accounts /\ sessions' = sessions /\ resets' = resets
           /\ revoked' = revoked /\ granted' = granted
BY DEF Ask

LEMMA AskKeeps ==
    ASSUME Sensible, AccountInv, NEW w \in Workers, NEW u \in Users, NEW c, Ask(w, u, c),
           c \in Changes \union [kind : {"create"}, role : Roles] \union [kind : Calm],
           c.kind # "create" => accounts[u] \in Account,
           c.kind \notin Others => ~accounts[u].deleted
    PROVE  AccountInv'
<1> DEFINE r == [change |-> c, target |-> u, loaded |-> accounts[u]]
<1>1. /\ request' = [request EXCEPT ![w] = r]
      /\ accounts' = accounts /\ sessions' = sessions /\ resets' = resets
      /\ revoked' = revoked /\ granted' = granted
  BY AskEffect
<1>2. requests' \in 0..MaxRequests
  BY DEF Ask, AccountInv, TypeOK, Sensible
<1>3. r \in Requests
  BY DEF Requests, Calm, AccountInv, TypeOK
<1>4. request' \in [Workers -> Requests \union {None}]
  BY <1>1, <1>3 DEF AccountInv, TypeOK
<1>5. r.change = c /\ r.target = u /\ r.loaded = accounts[u]
  OBVIOUS
<1> HIDE DEF r
<1>6. \A v \in Workers : request'[v] = IF v = w THEN r ELSE request[v]
  BY <1>1 DEF AccountInv, TypeOK
<1>7. LoadedInv'
  BY <1>1, <1>5, <1>6 DEF AccountInv, LoadedInv
<1> QED BY <1>1, <1>2, <1>4, <1>7 DEF AccountInv, TypeOK

LEMMA AnsweredKeeps ==
    ASSUME TypeOK, NEW w \in Workers, Answered(w)
    PROVE  /\ requests' = requests /\ request' \in [Workers -> Requests \union {None}]
           /\ \A v \in Workers : request'[v] = IF v = w THEN None ELSE request[v]
BY DEF Answered, TypeOK

LEMMA CommitCreateKeeps ==
    ASSUME Sensible, AccountInv, NEW w \in Workers, CommitCreate(w)
    PROVE  AccountInv'
<1> DEFINE r == request[w]
<1>1. r \in Requests /\ r.target \in Users /\ r.change.role \in Roles
  BY RequestTypes DEF CommitCreate, AccountInv, TypeOK
<1>2. NewAccount(r.change.role) \in Account
  BY <1>1 DEF NewAccount, Account, Sensible
<1>3. /\ accounts' \in [Users -> Account \union {None}]
      /\ \A u \in Users : accounts[u] \in Account => accounts'[u] \in Account
  BY <1>1, <1>2 DEF CommitCreate, AccountInv, TypeOK
<1>4. /\ requests' = requests /\ request' \in [Workers -> Requests \union {None}]
      /\ \A v \in Workers : request'[v] = IF v = w THEN None ELSE request[v]
  BY AnsweredKeeps DEF CommitCreate, AccountInv
<1>5. LoadedInv'
  BY <1>3, <1>4, RequestTypes DEF AccountInv, LoadedInv, TypeOK
<1> QED BY <1>3, <1>4, <1>5 DEF CommitCreate, AccountInv, TypeOK

(* A change is of the copy it loaded, and written into the account there is. *)
LEMMA CommitChangeRow ==
    ASSUME Sensible, AccountInv, NEW w \in Workers, CommitChange(w)
    PROVE  LET r == request[w] IN
           /\ r \in Requests /\ r.target \in Users /\ r.change \in Changes
           /\ r.loaded \in Account /\ ~r.loaded.deleted /\ accounts[r.target] \in Account
           /\ Changed(r.loaded, r.change) \in Account
           /\ accounts' = [accounts EXCEPT ![r.target] =
                 Written(accounts[r.target], r.loaded, Changed(r.loaded, r.change))]
<1> DEFINE r == request[w]
<1>1. /\ r # None /\ r.change.kind \notin Others
      /\ accounts' = [accounts EXCEPT ![r.target] =
            Written(accounts[r.target], r.loaded, Changed(r.loaded, r.change))]
  BY DEF CommitChange, Others, Calm
<1>2. r \in Requests
  BY <1>1 DEF AccountInv, TypeOK
<1>3. r.target \in Users /\ r.change \in Changes
  BY <1>1, <1>2, RequestTypes
<1>4. r.loaded \in Account /\ ~r.loaded.deleted /\ accounts[r.target] \in Account
  BY <1>1 DEF AccountInv, LoadedInv, Others
<1> QED BY <1>1, <1>2, <1>3, <1>4, ChangedType

LEMMA CommitChangeKeeps ==
    ASSUME Sensible, AccountInv, NEW w \in Workers, CommitChange(w)
    PROVE  AccountInv'
<1> DEFINE r == request[w]
<1>1. /\ r.target \in Users /\ r.change \in Changes
      /\ accounts' \in [Users -> Account \union {None}]
      /\ \A u \in Users : accounts[u] \in Account => accounts'[u] \in Account
  BY CommitChangeRow, WrittenType DEF AccountInv, TypeOK
<1>2. /\ requests' = requests /\ request' \in [Workers -> Requests \union {None}]
      /\ \A v \in Workers : request'[v] = IF v = w THEN None ELSE request[v]
  BY AnsweredKeeps DEF CommitChange, AccountInv
<1>3. revoked' \in SUBSET Session /\ sessions' \in SUBSET Session /\ resets' \in SUBSET Users
  BY DEF CommitChange, AccountInv, TypeOK
<1>4. granted' \in SUBSET (Users \X Permissions)
  <2>1. granted \in SUBSET (Users \X Permissions)
    BY DEF AccountInv, TypeOK
  <2>2. r.change.kind = "grant" => <<r.target, r.change.permission>> \in Users \X Permissions
    BY <1>1, ChangeTypes
  <2> QED BY <2>1, <2>2 DEF CommitChange
<1>5. LoadedInv'
  BY <1>1, <1>2, RequestTypes DEF AccountInv, LoadedInv, TypeOK
<1>6. requests' \in 0..MaxRequests
  BY <1>2 DEF AccountInv, TypeOK
<1> QED BY <1>1, <1>2, <1>3, <1>4, <1>5, <1>6 DEF AccountInv, TypeOK

LEMMA CommitSessionKeeps ==
    ASSUME Sensible, AccountInv, NEW w \in Workers, CommitSession(w)
    PROVE  /\ AccountInv'
           /\ request[w].target \in Users /\ request[w].loaded \in Account
           /\ accounts[request[w].target] \in Account
<1> DEFINE r == request[w]
<1>1. r # None /\ r.change.kind \in Calm /\ r.change.kind # "create"
  BY DEF CommitSession, Calm
<1>2. r \in Requests /\ r.target \in Users /\ r.loaded \in Account
      /\ accounts[r.target] \in Account
  BY <1>1, RequestTypes DEF AccountInv, LoadedInv, TypeOK
<1>3. /\ requests' = requests /\ request' \in [Workers -> Requests \union {None}]
      /\ \A v \in Workers : request'[v] = IF v = w THEN None ELSE request[v]
  BY AnsweredKeeps DEF CommitSession, AccountInv
<1>4. sessions' \in SUBSET Session
  BY <1>2 DEF CommitSession, AccountInv, TypeOK, Session, Account
<1>5. LoadedInv'
  BY <1>3 DEF CommitSession, AccountInv, LoadedInv
<1> QED BY <1>2, <1>3, <1>4, <1>5 DEF CommitSession, AccountInv, TypeOK

(* A link for a new password is given, and spent: no account changes.        *)
LEMMA ForgotKeeps ==
    ASSUME AccountInv, NEW u \in Users, Forgot(u)
    PROVE  AccountInv' /\ accounts' = accounts
BY DEF Forgot, AccountInv, TypeOK, LoadedInv

LEMMA CommitResetKeeps ==
    ASSUME AccountInv, NEW w \in Workers, CommitReset(w)
    PROVE  AccountInv' /\ accounts' = accounts
<1>1. /\ requests' = requests /\ request' \in [Workers -> Requests \union {None}]
      /\ \A v \in Workers : request'[v] = IF v = w THEN None ELSE request[v]
  BY AnsweredKeeps DEF CommitReset, AccountInv
<1>2. LoadedInv'
  BY <1>1 DEF CommitReset, AccountInv, LoadedInv
<1> QED BY <1>1, <1>2 DEF CommitReset, AccountInv, TypeOK

(* The ways into a request.                                                  *)
MayBeAsked == Changes \union [kind : {"create"}, role : Roles] \union [kind : Calm]
AsksIn(w) == \E u \in Users, c \in MayBeAsked :
    /\ Ask(w, u, c)
    /\ c.kind # "create" => accounts[u] \in Account
    /\ c.kind \notin Others => ~accounts[u].deleted

AsksSome(w) ==
    \E u \in Users :
        \/ \E role \in Roles : AskCreate(w, u, role)
        \/ \E change \in Changes : AskChange(w, u, change)
        \/ \E kind \in {"login", "google"} : AskSession(w, u, kind)
        \/ AskReset(w, u)

LEMMA AskCases ==
    ASSUME AccountInv, NEW w \in Workers, AsksSome(w)
    PROVE  AsksIn(w)
<1>0. \A u \in Users : accounts[u] # None => accounts[u] \in Account
  BY DEF AccountInv, TypeOK
<1>1. ASSUME NEW u \in Users, NEW role \in Roles, AskCreate(w, u, role) PROVE AsksIn(w)
  <2> DEFINE c == [kind |-> "create", role |-> role]
  <2>1. Ask(w, u, c)
    BY <1>1 DEF AskCreate
  <2>2. c \in MayBeAsked /\ c.kind = "create" /\ c.kind \in Others
    BY DEF Others, MayBeAsked
  <2> HIDE DEF c
  <2> QED BY <2>1, <2>2 DEF AsksIn
<1>2. ASSUME NEW u \in Users, NEW change \in Changes, AskChange(w, u, change) PROVE AsksIn(w)
  BY <1>0, <1>2 DEF AskChange, AsksIn, MayBeAsked
<1>3. ASSUME NEW u \in Users, NEW kind \in {"login", "google"}, AskSession(w, u, kind)
      PROVE  AsksIn(w)
  <2> DEFINE c == [kind |-> kind]
  <2>1. Ask(w, u, c) /\ accounts[u] \in Account
    BY <1>0, <1>3 DEF AskSession
  <2>2. c \in MayBeAsked /\ c.kind \in Others
    BY DEF Others, MayBeAsked, Calm
  <2> HIDE DEF c
  <2> QED BY <2>1, <2>2 DEF AsksIn
<1>4. ASSUME NEW u \in Users, AskReset(w, u) PROVE AsksIn(w)
  <2> DEFINE c == [kind |-> "reset"]
  <2>1. Ask(w, u, c) /\ accounts[u] \in Account
    BY <1>0, <1>4 DEF AskReset
  <2>2. c \in MayBeAsked /\ c.kind \in Others
    BY DEF Others, MayBeAsked, Calm
  <2> HIDE DEF c
  <2> QED BY <2>1, <2>2 DEF AsksIn
<1> QED BY <1>1, <1>2, <1>3, <1>4 DEF AsksSome

LEMMA NextCases ==
    ASSUME AccountInv, Next
    PROVE  \/ \E u \in Users : Forgot(u)
           \/ \E w \in Workers : \/ AsksIn(w) \/ CommitCreate(w) \/ CommitChange(w)
                               \/ CommitSession(w) \/ CommitReset(w)
<1>1. CASE \E u \in Users : Forgot(u)
  BY <1>1
<1>2. CASE \E w \in Workers : \/ CommitCreate(w) \/ CommitChange(w) \/ CommitSession(w)
                            \/ CommitReset(w) \/ AsksSome(w)
  BY <1>2, AskCases
<1> QED BY <1>1, <1>2 DEF Next, AsksSome

LEMMA AccountInit == Sensible /\ Init => AccountInv
<1> SUFFICES ASSUME Sensible, Init PROVE AccountInv
  OBVIOUS
<1>1. NewAccount("owner") \in Account
  BY DEF NewAccount, Account, Sensible
<1> QED BY <1>1 DEF Init, AccountInv, TypeOK, LoadedInv, Sensible

LEMMA AccountNext == Sensible /\ AccountInv /\ [Next]_vars => AccountInv'
<1> SUFFICES ASSUME Sensible, AccountInv, [Next]_vars PROVE AccountInv'
  OBVIOUS
<1>1. ASSUME NEW w \in Workers, AsksIn(w) PROVE AccountInv'
  BY <1>1, AskKeeps DEF AsksIn, MayBeAsked
<1>2. CASE UNCHANGED vars
  BY <1>2 DEF vars, AccountInv, TypeOK, LoadedInv
<1> QED BY <1>1, <1>2, NextCases, CommitCreateKeeps, CommitChangeKeeps, CommitSessionKeeps,
          ForgotKeeps, CommitResetKeeps

(* Accounts, sessions and requests keep their types, and nobody is granted    *)
(* what is no permission, with any number of overlapping requests.           *)
THEOREM TypeCorrect == Sensible => (Spec => []TypeOK)
<1> SUFFICES ASSUME Sensible PROVE Spec => []TypeOK
  OBVIOUS
<1>1. Init => AccountInv
  BY AccountInit
<1>2. AccountInv /\ [Next]_vars => AccountInv'
  BY AccountNext
<1>3. AccountInv => TypeOK
  BY DEF AccountInv
<1> QED BY <1>1, <1>2, <1>3, PTL DEF Spec

-----------------------------------------------------------------------------
(* A change that loaded an account before its deletion writes "deleted" only  *)
(* if it is the deletion: the other columns are of no copy.                  *)
Staying == \A u \in Users : accounts[u] # None /\ accounts[u].deleted => accounts'[u].deleted

LEMMA DeletedStep == Sensible /\ AccountInv /\ [Next]_vars => Staying
<1> SUFFICES ASSUME Sensible, AccountInv, [Next]_vars PROVE Staying
  OBVIOUS
<1>1. CASE accounts' = accounts
  BY <1>1 DEF Staying
<1>2. ASSUME NEW w \in Workers, CommitCreate(w) PROVE Staying
  BY <1>2 DEF CommitCreate, Staying, AccountInv, TypeOK
<1>3. ASSUME NEW w \in Workers, CommitChange(w) PROVE Staying
  <2>1. PICK r, new, t :
           /\ r = request[w] /\ new = Changed(r.loaded, r.change) /\ t = r.target
           /\ t \in Users /\ r.loaded \in Account /\ ~r.loaded.deleted
           /\ accounts[t] \in Account /\ new \in Account
           /\ accounts' = [accounts EXCEPT ![t] = Written(accounts[t], r.loaded, new)]
    BY <1>3, CommitChangeRow
  <2>2. Written(accounts[t], r.loaded, new).deleted =
           IF new.deleted = r.loaded.deleted THEN accounts[t].deleted ELSE new.deleted
    BY <2>1, WrittenIs
  <2>3. new.deleted \in BOOLEAN /\ r.loaded.deleted \in BOOLEAN
    BY <2>1 DEF Account
  <2>4. accounts[t].deleted => Written(accounts[t], r.loaded, new).deleted
    BY <2>1, <2>2, <2>3
  <2>5. \A u \in Users : accounts'[u] =
           IF u = t THEN Written(accounts[t], r.loaded, new) ELSE accounts[u]
    BY <2>1 DEF AccountInv, TypeOK
  <2> QED BY <2>4, <2>5 DEF Staying
<1>4. ASSUME NEW w \in Workers, AsksIn(w) \/ CommitSession(w) \/ CommitReset(w)
      PROVE  accounts' = accounts
  BY <1>4 DEF AsksIn, Ask, CommitSession, CommitReset
<1> QED BY <1>1, <1>2, <1>3, <1>4, NextCases, ForgotKeeps DEF vars

(* A deleted account never comes back, whatever requests had loaded it before *)
(* its deletion and whatever they change.                                    *)
THEOREM DeletionIsFinal == Sensible => (Spec => DeletedStaysDeleted)
<1> SUFFICES ASSUME Sensible PROVE Spec => DeletedStaysDeleted
  OBVIOUS
<1>1. Init => AccountInv
  BY AccountInit
<1>2. AccountInv /\ [Next]_vars => AccountInv'
  BY AccountNext
<1>3. AccountInv /\ [Next]_vars => [Staying]_vars
  BY DeletedStep
<1> QED BY <1>1, <1>2, <1>3, PTL DEF Spec, DeletedStaysDeleted, Staying

-----------------------------------------------------------------------------
(* One request at a time: the copy a request loaded is the account still.    *)
Serial == \A v, w \in Workers : v = w

FreshInv ==
    \A w \in Workers : request[w] # None /\ request[w].change.kind # "create" =>
        request[w].loaded = accounts[request[w].target]

(* A session that was revoked has an older version than its account; others  *)
(* have no newer one.                                                        *)
VersionInv ==
    /\ \A s \in sessions : accounts[s.user] \in Account /\ s.version <= accounts[s.user].version
    /\ \A s \in revoked : /\ accounts[s.user] \in Account
                          /\ s.version < accounts[s.user].version

SerialInv == AccountInv /\ FreshInv /\ VersionInv /\ PermissionsAreGranted

LEMMA FreshAnswered ==
    ASSUME Serial, NEW w \in Workers,
           \A v \in Workers : request'[v] = IF v = w THEN None ELSE request[v]
    PROVE  FreshInv'
BY DEF Serial, FreshInv

(* The account after a change, when the change was made of it.               *)
LEMMA SerialChange ==
    ASSUME Sensible, SerialInv, NEW w \in Workers, CommitChange(w)
    PROVE  \E new \in Account, t \in Users, c \in Changes :
              /\ c = request[w].change /\ t = request[w].target
              /\ accounts[t] \in Account
              /\ new.version = IF Revokes(c.kind) THEN accounts[t].version + 1
                               ELSE accounts[t].version
              /\ new.role = IF c.kind = "set_role" THEN c.role ELSE accounts[t].role
              /\ new.permissions = PermissionsAfter(accounts[t], c)
              /\ accounts' = [accounts EXCEPT ![t] = new]
<1> DEFINE r == request[w]
<1>1. PICK t, c, a, made :
         /\ t = r.target /\ c = r.change /\ a = accounts[t] /\ made = Changed(a, c)
  OBVIOUS
<1>2. /\ t \in Users /\ c \in Changes /\ r.loaded \in Account /\ a \in Account
      /\ accounts' = [accounts EXCEPT ![t] =
            Written(a, r.loaded, Changed(r.loaded, c))]
  BY <1>1, CommitChangeRow DEF SerialInv
<1>3. r.loaded = a
  <2>1. r # None /\ c.kind # "create"
    BY <1>1 DEF CommitChange
  <2> QED BY <1>1, <2>1 DEF SerialInv, FreshInv
<1>4. made \in Account
  BY <1>1, <1>2, ChangedType
<1>5. /\ made.version = IF Revokes(c.kind) THEN a.version + 1 ELSE a.version
      /\ made.role = IF c.kind = "set_role" THEN c.role ELSE a.role
      /\ made.permissions = PermissionsAfter(a, c)
  BY <1>1 DEF Changed
<1>6. PICK new : new = Written(a, a, made)
  OBVIOUS
<1>7. /\ new \in Account /\ new.version = made.version /\ new.role = made.role
      /\ new.permissions = made.permissions
  BY <1>2, <1>4, <1>6, WrittenType, WrittenFresh
<1>8. accounts' = [accounts EXCEPT ![t] = new]
  BY <1>1, <1>2, <1>3, <1>6
<1>9. /\ c = request[w].change /\ t = request[w].target
      /\ accounts[t] \in Account
      /\ new.version = IF Revokes(c.kind) THEN accounts[t].version + 1
                       ELSE accounts[t].version
      /\ new.role = IF c.kind = "set_role" THEN c.role ELSE accounts[t].role
      /\ new.permissions = PermissionsAfter(accounts[t], c)
  BY <1>1, <1>2, <1>5, <1>7
<1>10. new \in Account /\ t \in Users /\ c \in Changes
  BY <1>2, <1>7
<1> QED BY <1>8, <1>9, <1>10, Zenon

LEMMA SerialChangeKeeps ==
    ASSUME Sensible, Serial, SerialInv, NEW w \in Workers, CommitChange(w)
    PROVE  FreshInv' /\ VersionInv' /\ PermissionsAreGranted'
<1>1. FreshInv'
  BY AnsweredKeeps, FreshAnswered DEF CommitChange, SerialInv, AccountInv
<1>2. PICK new \in Account, t \in Users, c \in Changes :
         /\ c = request[w].change /\ t = request[w].target
         /\ accounts[t] \in Account
         /\ new.version = IF Revokes(c.kind) THEN accounts[t].version + 1
                          ELSE accounts[t].version
         /\ new.role = IF c.kind = "set_role" THEN c.role ELSE accounts[t].role
         /\ new.permissions = PermissionsAfter(accounts[t], c)
         /\ accounts' = [accounts EXCEPT ![t] = new]
  BY SerialChange
<1>3. \A u \in Users : accounts'[u] = IF u = t THEN new ELSE accounts[u]
  BY <1>2 DEF SerialInv, AccountInv, TypeOK
<1>4. /\ sessions' = sessions
      /\ revoked' = IF Revokes(c.kind) THEN revoked \union {s \in sessions : s.user = t}
                    ELSE revoked
      /\ granted' = CASE c.kind = "grant" -> granted \union {<<t, c.permission>>}
                      [] c.kind = "set_role" -> {g \in granted : g[1] # t}
                      [] OTHER -> granted
  BY <1>2 DEF CommitChange, Revokes
<1>5. sessions \subseteq Session /\ revoked \subseteq Session
  BY DEF SerialInv, AccountInv, TypeOK
<1>6. VersionInv'
  <2>1. accounts[t].version \in Nat /\ new.version \in Nat /\ new.version >= accounts[t].version
    BY <1>2 DEF Account
  <2>2. Revokes(c.kind) => new.version > accounts[t].version
    BY <1>2, <2>1
  <2>3. \A u \in Users : accounts[u] \in Account => accounts'[u] \in Account
    BY <1>3
  <2>4. ASSUME NEW s \in sessions
        PROVE  /\ accounts'[s.user] \in Account /\ s.version <= accounts'[s.user].version
               /\ s.user = t /\ Revokes(c.kind) => s.version < accounts'[s.user].version
    <3>1. s.user \in Users /\ s.version \in Nat
      BY <1>5 DEF Session
    <3>2. accounts[s.user] \in Account /\ s.version <= accounts[s.user].version
      BY DEF SerialInv, VersionInv
    <3> QED BY <1>3, <2>1, <2>2, <2>3, <3>1, <3>2
  <2>5. ASSUME NEW s \in revoked
        PROVE  accounts'[s.user] \in Account /\ s.version < accounts'[s.user].version
    <3>1. s.user \in Users /\ s.version \in Nat
      BY <1>5 DEF Session
    <3>2. accounts[s.user] \in Account /\ s.version < accounts[s.user].version
      BY DEF SerialInv, VersionInv
    <3> QED BY <1>3, <2>1, <2>3, <3>1, <3>2
  <2> QED BY <1>4, <2>4, <2>5 DEF VersionInv
<1>7. PermissionsAreGranted'
  <2> SUFFICES ASSUME NEW u \in Users, accounts'[u] # None, NEW p \in accounts'[u].permissions
               PROVE  p \in RoleDefaults[accounts'[u].role] \/ <<u, p>> \in granted'
    BY DEF PermissionsAreGranted
  <2>1. \A q \in accounts[u].permissions : accounts[u] # None =>
           q \in RoleDefaults[accounts[u].role] \/ <<u, q>> \in granted
    BY DEF SerialInv, PermissionsAreGranted
  <2>2. CASE u # t
    <3>1. <<u, p>> \in granted => <<u, p>> \in granted'
      BY <1>4, <2>2
    <3> QED BY <1>3, <2>1, <2>2, <3>1
  <2>3. CASE u = t /\ c.kind = "set_role"
    BY <1>2, <1>3, <2>3 DEF PermissionsAfter
  <2>4. CASE u = t /\ c.kind # "set_role"
    <3>1. accounts[u] # None /\ new.role = accounts[u].role
      BY <1>2, <2>4 DEF Sensible
    <3>2. granted \subseteq granted'
      BY <1>4, <2>4
    <3>3. p \in accounts[u].permissions \/ (c.kind = "grant" /\ p = c.permission)
      BY <1>2, <1>3, <2>4 DEF PermissionsAfter
    <3>4. c.kind = "grant" => <<t, c.permission>> \in granted'
      BY <1>4
    <3> QED BY <1>3, <2>1, <2>4, <3>1, <3>2, <3>3, <3>4
  <2> QED BY <2>2, <2>3, <2>4
<1> QED BY <1>1, <1>6, <1>7

LEMMA SerialCreateKeeps ==
    ASSUME Sensible, Serial, SerialInv, NEW w \in Workers, CommitCreate(w)
    PROVE  FreshInv' /\ VersionInv' /\ PermissionsAreGranted'
<1>1. FreshInv'
  BY AnsweredKeeps, FreshAnswered DEF CommitCreate, SerialInv, AccountInv
<1>2. PICK t, role : /\ t = request[w].target /\ role = request[w].change.role
                     /\ t \in Users /\ role \in Roles
  BY RequestTypes DEF CommitCreate, SerialInv, AccountInv, TypeOK
<1>3. \A u \in Users : accounts'[u] = IF u = t /\ accounts[u] = None THEN NewAccount(role)
                                      ELSE accounts[u]
  BY <1>2 DEF CommitCreate, SerialInv, AccountInv, TypeOK
<1>4. \A u \in Users : accounts[u] \in Account => accounts'[u] = accounts[u]
  BY <1>3 DEF Sensible
<1>5. sessions' = sessions /\ revoked' = revoked /\ granted' = granted
  BY DEF CommitCreate
<1>6. sessions \subseteq Session /\ revoked \subseteq Session
  BY DEF SerialInv, AccountInv, TypeOK
<1>7. VersionInv'
  BY <1>4, <1>5, <1>6 DEF SerialInv, VersionInv, Session
<1>8. PermissionsAreGranted'
  BY <1>3, <1>5 DEF SerialInv, PermissionsAreGranted, NewAccount
<1> QED BY <1>1, <1>7, <1>8

LEMMA SerialSessionKeeps ==
    ASSUME Sensible, Serial, SerialInv, NEW w \in Workers, CommitSession(w)
    PROVE  FreshInv' /\ VersionInv' /\ PermissionsAreGranted'
<1>1. FreshInv'
  BY AnsweredKeeps, FreshAnswered DEF CommitSession, SerialInv, AccountInv
<1>2. PICK s : s = [user |-> request[w].target, version |-> request[w].loaded.version]
  OBVIOUS
<1>3. sessions' = sessions \union {s} /\ accounts' = accounts /\ revoked' = revoked
      /\ granted' = granted
  BY <1>2 DEF CommitSession
<1>4. accounts[s.user] \in Account /\ s.version = accounts[s.user].version
  <2>1. request[w] # None /\ request[w].change.kind # "create"
    BY DEF CommitSession
  <2> QED BY <1>2, <2>1, CommitSessionKeeps DEF SerialInv, FreshInv
<1>5. s.version <= accounts[s.user].version
  BY <1>4 DEF Account
<1>6. VersionInv'
  BY <1>3, <1>4, <1>5 DEF SerialInv, VersionInv
<1>7. PermissionsAreGranted'
  BY <1>3 DEF SerialInv, PermissionsAreGranted
<1> QED BY <1>1, <1>6, <1>7

(* Neither a link nor the password set with it touches a session.            *)
LEMMA SerialForgotKeeps ==
    ASSUME SerialInv, NEW u \in Users, Forgot(u)
    PROVE  FreshInv' /\ VersionInv' /\ PermissionsAreGranted'
BY DEF Forgot, SerialInv, FreshInv, VersionInv, PermissionsAreGranted

LEMMA SerialResetKeeps ==
    ASSUME Serial, SerialInv, NEW w \in Workers, CommitReset(w)
    PROVE  FreshInv' /\ VersionInv' /\ PermissionsAreGranted'
<1>1. FreshInv'
  BY AnsweredKeeps, FreshAnswered DEF CommitReset, SerialInv, AccountInv
<1>2. VersionInv' /\ PermissionsAreGranted'
  BY DEF CommitReset, SerialInv, VersionInv, PermissionsAreGranted
<1> QED BY <1>1, <1>2

LEMMA SerialNext == Sensible /\ Serial /\ SerialInv /\ [Next]_vars => SerialInv'
<1> SUFFICES ASSUME Sensible, Serial, SerialInv, [Next]_vars PROVE SerialInv'
  OBVIOUS
<1>1. AccountInv'
  BY AccountNext DEF SerialInv
<1>2. ASSUME NEW w \in Workers, AsksIn(w) PROVE FreshInv' /\ VersionInv' /\ PermissionsAreGranted'
  <2>1. PICK u \in Users, c \in MayBeAsked : Ask(w, u, c)
    BY <1>2 DEF AsksIn
  <2>2. /\ request' = [request EXCEPT ![w] =
                          [change |-> c, target |-> u, loaded |-> accounts[u]]]
        /\ accounts' = accounts /\ sessions' = sessions
        /\ revoked' = revoked /\ granted' = granted
    BY <2>1 DEF Ask
  <2>3. \A v \in Workers : v = w /\ request'[v] = [change |-> c, target |-> u,
                                                   loaded |-> accounts[u]]
    BY <2>2 DEF Serial, SerialInv, AccountInv, TypeOK
  <2>4. FreshInv'
    BY <2>2, <2>3 DEF FreshInv
  <2> QED BY <2>2, <2>4 DEF SerialInv, VersionInv, PermissionsAreGranted
<1>3. ASSUME UNCHANGED vars PROVE FreshInv' /\ VersionInv' /\ PermissionsAreGranted'
  BY <1>3 DEF vars, SerialInv, FreshInv, VersionInv, PermissionsAreGranted
<1>4. ASSUME Next PROVE FreshInv' /\ VersionInv' /\ PermissionsAreGranted'
  <2>1. AccountInv
    BY DEF SerialInv
  <2>2. CASE \E u \in Users : Forgot(u)
    BY <2>2, SerialForgotKeeps
  <2>3. ASSUME NEW w \in Workers, AsksIn(w)
        PROVE  FreshInv' /\ VersionInv' /\ PermissionsAreGranted'
    BY <1>2, <2>3
  <2>4. ASSUME NEW w \in Workers, CommitCreate(w) \/ CommitChange(w)
        PROVE  FreshInv' /\ VersionInv' /\ PermissionsAreGranted'
    BY <2>4, SerialCreateKeeps, SerialChangeKeeps
  <2>5. ASSUME NEW w \in Workers, CommitSession(w) \/ CommitReset(w)
        PROVE  FreshInv' /\ VersionInv' /\ PermissionsAreGranted'
    BY <2>5, SerialSessionKeeps, SerialResetKeeps
  <2> QED BY <1>4, <2>1, <2>2, <2>3, <2>4, <2>5, NextCases
<1> QED BY <1>1, <1>3, <1>4 DEF SerialInv

LEMMA SerialStart == Sensible /\ Init => SerialInv
<1> SUFFICES ASSUME Sensible, Init PROVE SerialInv
  OBVIOUS
<1>1. AccountInv
  BY AccountInit
<1>2. FreshInv /\ VersionInv
  BY DEF Init, FreshInv, VersionInv
<1>3. PermissionsAreGranted
  BY DEF Init, PermissionsAreGranted, NewAccount
<1> QED BY <1>1, <1>2, <1>3 DEF SerialInv

(* When requests are served one at a time, a session that was open when its   *)
(* account was closed, or was given a new password by an owner or admin, is   *)
(* never accepted again, whatever resets by link come between.               *)
THEOREM RevocationIsFinal == Sensible /\ Serial => (Spec => []RevokedStaysRevoked)
<1> SUFFICES ASSUME Sensible, Serial PROVE Spec => []RevokedStaysRevoked
  OBVIOUS
<1>1. Init => SerialInv
  BY SerialStart
<1>2. SerialInv /\ [Next]_vars => SerialInv'
  BY SerialNext
<1>3. SerialInv => RevokedStaysRevoked
  <2> SUFFICES ASSUME SerialInv, NEW s \in revoked PROVE ~Accepted(s)
    BY DEF RevokedStaysRevoked
  <2>1. s.version \in Nat /\ accounts[s.user] \in Account /\ s.version < accounts[s.user].version
    BY DEF SerialInv, VersionInv, AccountInv, TypeOK, Session
  <2> QED BY <2>1 DEF Accepted, Account
<1> QED BY <1>1, <1>2, <1>3, PTL DEF Spec

(* When requests are served one at a time, members have the permissions of    *)
(* their role and those given to them in it, and no others.                  *)
THEOREM PermissionsFollowRoles == Sensible /\ Serial => (Spec => []PermissionsAreGranted)
<1> SUFFICES ASSUME Sensible, Serial PROVE Spec => []PermissionsAreGranted
  OBVIOUS
<1>1. Init => SerialInv
  BY SerialStart
<1>2. SerialInv /\ [Next]_vars => SerialInv'
  BY SerialNext
<1>3. SerialInv => PermissionsAreGranted
  BY DEF SerialInv
<1> QED BY <1>1, <1>2, <1>3, PTL DEF Spec
=============================================================================
