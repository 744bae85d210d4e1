------------------------------- MODULE Seeding -------------------------------
(* The bootstrap of a workspace: a user without one gets one, and a workspace *)
(* without suppliers or without categories gets the default ones, looked up   *)
(* by name and inserted where missing in a transaction of its own.  Members   *)
(* add and remove entries meanwhile, and several of them may bootstrap at     *)
(* once.  Types, items and brokers are inserted as categories are.            *)
EXTENDS FiniteSets, Naturals, Sequences

CONSTANTS
    None,
    Users, Workspaces, Workers,
    Defaults, Mandatory,    \* <<kind, name>> of the seed files and of the code's own list
    MaxRequests

VARIABLES
    memberships,        \* the workspaces of each user, oldest first
    entries,            \* rows [workspace, entry, at]; at tells equal rows apart
    boot,               \* the bootstrap each worker is at, or None
    requests,
    overlapped          \* history: users and workspaces written by two at once
vars == <<memberships, entries, boot, requests, overlapped>>

SeedKinds == {"supplier", "category"}
Of(b) == {row \in entries : row.workspace = b}
Named(b) == {row.entry : row \in Of(b)}
Copies(b, e) == Cardinality({row \in Of(b) : row.entry = e})
RowsOf(b, names, at) == {[workspace |-> b, entry |-> e, at |-> at] : e \in names}

At(w, step) == boot[w] # None /\ boot[w].step = step
GoTo(w, step) == boot' = [boot EXCEPT ![w].step = step]
Done(w) == boot' = [boot EXCEPT ![w] = None]
Request == requests < MaxRequests /\ requests' = requests + 1

(* Who else is about to write for the same user, or to the same workspace.    *)
Joining(w, u) == {v \in Workers \ {w} : At(v, "join") /\ boot[v].user = u}
Writing(w, b) == {v \in Workers \ {w} : At(v, "insert") /\ boot[v].workspace = b}

-----------------------------------------------------------------------------
(* The oldest membership counts; who has none gets a workspace as its owner.  *)
Ask(w, u) ==
    /\ boot[w] = None /\ Request
    /\ boot' = [boot EXCEPT ![w] =
           [user |-> u, at |-> requests, left |-> {},
            workspace |-> IF memberships[u] = <<>> THEN None ELSE Head(memberships[u]),
            step |-> IF memberships[u] = <<>> THEN "join" ELSE "count"]]
    /\ UNCHANGED <<memberships, entries, overlapped>>

Join(w) ==
    LET u == boot[w].user IN
    /\ At(w, "join")
    /\ \E b \in Workspaces :
           /\ \A v \in Users : \A k \in 1..Len(memberships[v]) : memberships[v][k] # b
           /\ memberships' = [memberships EXCEPT ![u] = Append(@, b)]
           /\ boot' = [boot EXCEPT ![w].workspace = b, ![w].step = "count"]
    /\ overlapped' = IF Joining(w, u) = {} THEN overlapped ELSE overlapped \union {u}
    /\ UNCHANGED <<entries, requests>>

NeedsSeed(b) == \E kind \in SeedKinds : \A row \in Of(b) : row.entry[1] # kind

Count(w) ==
    /\ At(w, "count")
    /\ IF NeedsSeed(boot[w].workspace) THEN GoTo(w, "look") ELSE Done(w)
    /\ UNCHANGED <<memberships, entries, requests, overlapped>>

(* Without the seed files only the code's own list is inserted.  A name that  *)
(* is there twice ends the seed with an error.                                *)
MissingAll(b, wanted) == wanted
Missing(b, wanted) == wanted \ Named(b)

Look(w) ==
    LET b == boot[w].workspace IN
    /\ At(w, "look")
    /\ \E wanted \in {Defaults \union Mandatory, Mandatory} :
           IF \E e \in wanted : Copies(b, e) > 1 THEN Done(w)
           ELSE boot' = [boot EXCEPT ![w].step = "insert", ![w].left = Missing(b, wanted)]
    /\ UNCHANGED <<memberships, entries, requests, overlapped>>

(* The seed commits as a whole.                                               *)
Insert(w) ==
    LET b == boot[w].workspace IN
    /\ At(w, "insert")
    /\ entries' = entries \union RowsOf(b, boot[w].left, boot[w].at)
    /\ overlapped' = IF Writing(w, b) = {} THEN overlapped ELSE overlapped \union {b}
    /\ Done(w)
    /\ UNCHANGED <<memberships, requests>>

Fail(w) ==
    /\ boot[w] # None /\ Done(w)
    /\ UNCHANGED <<memberships, entries, requests, overlapped>>

-----------------------------------------------------------------------------
(* What members do to the entries: no name twice, and what is not in use may  *)
(* go.                                                                        *)
AddEntry(b, e) ==
    /\ Request /\ e \notin Named(b)
    /\ \E u \in Users : memberships[u] # <<>> /\ Head(memberships[u]) = b
    /\ entries' = entries \union RowsOf(b, {e}, requests)
    /\ overlapped' = IF \E w \in Workers : At(w, "insert") /\ boot[w].workspace = b
                     THEN overlapped \union {b} ELSE overlapped
    /\ UNCHANGED <<memberships, boot>>

RemoveEntry(row) ==
    /\ Request
    /\ entries' = entries \ {row}
    /\ UNCHANGED <<memberships, boot, overlapped>>

(* A registration makes the account with its workspace; older accounts have   *)
(* none.                                                                      *)
Init ==
    /\ \E b \in Workspaces, member \in SUBSET Users :
           memberships = [u \in Users |-> IF u \in member THEN <<b>> ELSE <<>>]
    /\ entries = {} /\ requests = 0 /\ overlapped = {}
    /\ boot = [w \in Workers |-> None]

Next ==
    \/ \E w \in Workers :
          \/ \E u \in Users : Ask(w, u)
          \/ Join(w) \/ Count(w) \/ Look(w) \/ Insert(w) \/ Fail(w)
    \/ \E b \in Workspaces, e \in Defaults \union Mandatory : AddEntry(b, e)
    \/ \E row \in entries : RemoveEntry(row)

Spec == Init /\ [][Next]_vars

(* The shape of the rows and the requests.                                    *)
TypeOK ==
    /\ \A u \in Users : \A k \in 1..Len(memberships[u]) : memberships[u][k] \in Workspaces
    /\ \A row \in entries : row.workspace \in Workspaces /\ row.entry[1] \in SeedKinds
    /\ \A w \in Workers : boot[w] # None => boot[w].user \in Users
    /\ requests \in 0..MaxRequests

(* "Idempotent: ensure a workspace + default catalog/suppliers": however      *)
(* often it is repeated, fails, finds its files or not, and whatever members  *)
(* remove and add in between, nobody gets a second workspace and no default   *)
(* is there twice, unless two requests wrote at once.                         *)
SeededOnce ==
    /\ \A u \in Users \ overlapped : Len(memberships[u]) <= 1
    /\ \A b \in Workspaces \ overlapped, e \in Defaults \union Mandatory : Copies(b, e) <= 1
=============================================================================
