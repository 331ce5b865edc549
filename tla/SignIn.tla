-------------------------------- MODULE SignIn --------------------------------
(***************************************************************************)
(* Accounts as the people behind them meet them: how an account comes by   *)
(* its name (created by a manager, seeded at start-up, made by the first   *)
(* Google sign-in, renamed), how a purge reserves a name for good, and how *)
(* a browser's session turns into pages served or not.                     *)
(*                                                                         *)
(* A name stands for the user name and the e-mail address alike: both are  *)
(* unique, checked first and then guarded by an index, and both can be     *)
(* reserved.  A handler reads and checks in one step and commits in        *)
(* another.  Locks are PostgreSQL's: the advisory lock of a name and the   *)
(* lock of the target's row last as long as the handler's transaction.     *)
(*                                                                         *)
(* A page request passes the gate and is then worked on: it asks for the   *)
(* workspace to filter by, as often as it likes, and reads or writes rows  *)
(* by what it was told.  The row of the account may stay as the gate read  *)
(* it (SQLAlchemy's identity map, until the handler commits), the          *)
(* membership is queried each time the workspace is asked for.  What       *)
(* managers and the portal decide about an account is the matter of Staff  *)
(* and OwnerLifecycle; here each of their decisions may come at any time.  *)
(* Workspaces are not deleted here.                                        *)
(***************************************************************************)
EXTENDS Naturals, FiniteSets

CONSTANTS
  Users,        \* accounts, those that may yet come into being included
  LocalUsers,   \* those that are there at the start, members of a workspace
  GoogleUsers,  \* Google identities, not yet known to the application
  Workspaces,
  Reach,        \* bound: the workspaces each account may become a member of
  FirstName,    \* the names of the local users at the start
  Names,
  Wants,        \* bound: the names each account may ask for
  SeedName,     \* the configured name of the default owner
  Seeded,       \* accounts that seeding may bring into being
  Decided,      \* bound: the accounts that others decide about, or reserve the name of
  Handlers,     \* requests, or workers that start, at the same time
  Browsers,
  None

ASSUME SignInConstants ==
  /\ LocalUsers \union GoogleUsers \union Seeded \union Decided \subseteq Users
  /\ FirstName \in [LocalUsers -> Names]
  /\ Reach \in [Users -> (SUBSET Workspaces) \ {{}}]
  /\ \A u, v \in LocalUsers : FirstName[u] = FirstName[v] => u = v
  /\ Wants \in [Users -> SUBSET Names]
  /\ SeedName \in Names
  /\ None \notin Users \union Names \union Workspaces

VARIABLES
  approval,  \* users.approval_status; "none" while there is no such account
  active,    \* users.is_active
  deleted,   \* users.deleted_at is set
  member,    \* the workspaces with an active membership
  name,      \* users.username, users.email
  reserved,  \* account_identity_reservations not released: name to target
  request,   \* what each handler has checked and will commit
  session,   \* the account and the workspace of a browser's session cookie
  page       \* the page request of a browser that passed the gate

accountVars == <<approval, active, deleted, member>>
nameVars == <<name, reserved, request>>
browserVars == <<session, page>>
vars == <<accountVars, nameVars, browserVars>>

Idle == [kind |-> "idle"]
SignedOut == [user |-> None, workspace |-> None]

\* A page: its account, the workspaces it was told to filter by (None when the
\* account had none to show), and those whose rows it has read or written.
Page == [user : Users \union {None}, scopes : SUBSET (Workspaces \union {None}),
         shown : SUBSET Workspaces]
NoPage == [user |-> None, scopes |-> {}, shown |-> {}]

TypeOK ==
  /\ approval \in [Users -> {"none", "pending", "active", "rejected", "disabled"}]
  /\ active \in [Users -> BOOLEAN]
  /\ deleted \in [Users -> BOOLEAN]
  /\ member \in [Users -> SUBSET Workspaces]
  /\ name \in [Users -> Names \union {None}]
  /\ reserved \in [Names -> Users \union {None}]
  /\ request \in [Handlers -> {Idle} \union
       [kind : {"create", "rename", "seed", "google", "snapshot", "reserve"},
        user : Users, name : Names]]
  /\ session \in [Browsers -> [user : Users \union {None}, workspace : Workspaces \union {None}]]
  /\ page \in [Browsers -> Page]
  /\ \A u \in Users : (approval[u] = "none") = (name[u] = None)

Init ==
  /\ approval = [u \in Users |-> IF u \in LocalUsers THEN "active" ELSE "none"]
  /\ active = [u \in Users |-> u \in LocalUsers]
  /\ deleted = [u \in Users |-> FALSE]
  /\ member = [u \in Users |-> IF u \in LocalUsers THEN Reach[u] ELSE {}]
  /\ name = [u \in Users |-> IF u \in LocalUsers THEN FirstName[u] ELSE None]
  /\ reserved = [n \in Names |-> None]
  /\ request = [h \in Handlers |-> Idle]
  /\ session = [b \in Browsers |-> SignedOut]
  /\ page = [b \in Browsers |-> NoPage]

-----------------------------------------------------------------------------
\* Names

Exists(u) == approval[u] # "none"
NameFree(n) == \A u \in Users : name[u] # n

\* The advisory lock of a name, and the lock of the row of a target.
NameLocked(n) ==
  \E h \in Handlers : request[h].kind \in {"create", "reserve"} /\ request[h].name = n
RowLocked(u) == \E h \in Handlers : request[h].kind = "reserve" /\ request[h].user = u

Begin(h, kind, u, n) ==
  /\ request[h] = Idle
  /\ request' = [request EXCEPT ![h] = [kind |-> kind, user |-> u, name |-> n]]
  /\ UNCHANGED <<accountVars, name, reserved, browserVars>>

End(h) == request' = [request EXCEPT ![h] = Idle]

\* Mutant: the new row gets no name.
InsertNameless(u, n, status, joined) ==
  /\ approval' = [approval EXCEPT ![u] = status]
  /\ active' = [active EXCEPT ![u] = (status = "active")]
  /\ member' = [member EXCEPT ![u] = joined]
  /\ UNCHANGED <<deleted, name>>

\* A new row: its account can be used at once, or waits for approval.
Insert(u, n, status, joined) ==
  /\ approval' = [approval EXCEPT ![u] = status]
  /\ active' = [active EXCEPT ![u] = (status = "active")]
  /\ member' = [member EXCEPT ![u] = joined]
  /\ name' = [name EXCEPT ![u] = n]
  /\ UNCHANGED deleted

\* create_user: assert_identity_available locks the name, and then the
\* account must not be there.
CreateRead(h, u, n) ==
  /\ ~Exists(u) /\ u \notin GoogleUsers
  /\ ~NameLocked(n)
  /\ reserved[n] = None
  /\ NameFree(n)
  /\ Begin(h, "create", u, n)

CreateCommit(h) ==
  /\ request[h].kind = "create"
  /\ ~Exists(request[h].user)
  /\ NameFree(request[h].name)
  /\ \E w \in Reach[request[h].user] :
       Insert(request[h].user, request[h].name, "active", {w})
  /\ End(h)
  /\ UNCHANGED <<reserved, browserVars>>

\* update_user and update_profile look for the name among the accounts; they
\* take no lock and ask for no reservation.
RenameRead(h, u, n) ==
  /\ Exists(u) /\ ~deleted[u]
  /\ NameFree(n)
  /\ Begin(h, "rename", u, n)

RenameCommit(h) ==
  /\ request[h].kind = "rename"
  /\ ~RowLocked(request[h].user)
  /\ NameFree(request[h].name)
  /\ name' = [name EXCEPT ![request[h].user] = request[h].name]
  /\ End(h)
  /\ UNCHANGED <<accountVars, reserved, browserVars>>

\* Each worker that starts looks for the default owner by its name.  The
\* workspace the owner founds at its first page (OwnerLifecycle) is there at
\* once here.
SeedRead(h, u) ==
  /\ u \in Seeded /\ ~Exists(u)
  /\ NameFree(SeedName)
  /\ Begin(h, "seed", u, SeedName)

SeedCommit(h) ==
  /\ request[h].kind = "seed"
  /\ ~Exists(request[h].user)
  /\ NameFree(SeedName)
  /\ \E w \in Reach[request[h].user] : Insert(request[h].user, SeedName, "active", {w})
  /\ End(h)
  /\ UNCHANGED <<reserved, browserVars>>

\* The callback of Google for an identity that no account is linked to: unless
\* its address is taken, a new account that waits for approval, in the session
\* of the browser that gets the answer.  No reservation is asked for.
GoogleRead(h, g, n) ==
  /\ g \in GoogleUsers /\ ~Exists(g)
  /\ NameFree(n)
  /\ Begin(h, "google", g, n)

GoogleCommit(h, b) ==
  /\ request[h].kind = "google"
  /\ ~Exists(request[h].user)
  /\ NameFree(request[h].name)
  /\ Insert(request[h].user, request[h].name, "pending", {})
  /\ page[b] = NoPage
  /\ session' = [session EXCEPT ![b].user = request[h].user]
  /\ End(h)
  /\ UNCHANGED <<reserved, page>>

\* The unique index refuses the row; a seeding worker takes the row of the
\* other for its own, the handlers of managers and members answer with a
\* conflict, and Google's callback fails with the session as it was.
Collides(h) ==
  /\ request[h].kind \in {"create", "rename", "seed", "google"}
  /\ ~NameFree(request[h].name) \/ (request[h].kind # "rename" /\ Exists(request[h].user))
  /\ End(h)
  /\ UNCHANGED <<accountVars, name, reserved, browserVars>>

\* reserve_target_identities_in_transaction first reads the target's name.
ReserveRead(h, u) ==
  /\ Exists(u) /\ u \in Decided
  /\ Begin(h, "snapshot", u, name[u])

\* Mutant: the reservation does not wait for who is creating that name.
ReserveLockUnserialized(h) ==
  LET r == request[h] IN
  /\ r.kind = "snapshot"
  /\ ~RowLocked(r.user)
  /\ name[r.user] = r.name
  /\ reserved[r.name] \in {None, r.user}
  /\ request' = [request EXCEPT ![h].kind = "reserve"]
  /\ UNCHANGED <<accountVars, name, reserved, browserVars>>

\* Mutant: the name is not read again under the lock.
ReserveLockStale(h) ==
  LET r == request[h] IN
  /\ r.kind = "snapshot"
  /\ ~NameLocked(r.name) /\ ~RowLocked(r.user)
  /\ reserved[r.name] \in {None, r.user}
  /\ request' = [request EXCEPT ![h].kind = "reserve"]
  /\ UNCHANGED <<accountVars, name, reserved, browserVars>>

\* Then it locks the name and the row, and compares.
ReserveLock(h) ==
  LET r == request[h] IN
  /\ r.kind = "snapshot"
  /\ ~NameLocked(r.name) /\ ~RowLocked(r.user)
  /\ name[r.user] = r.name
  /\ reserved[r.name] \in {None, r.user}
  /\ request' = [request EXCEPT ![h].kind = "reserve"]
  /\ UNCHANGED <<accountVars, name, reserved, browserVars>>

\* The snapshot is stale, or the name is reserved for another account.
ReserveRefused(h) ==
  LET r == request[h] IN
  /\ r.kind = "snapshot"
  /\ name[r.user] # r.name \/ reserved[r.name] \notin {None, r.user}
  /\ End(h)
  /\ UNCHANGED <<accountVars, name, reserved, browserVars>>

ReserveCommit(h) ==
  /\ request[h].kind = "reserve"
  /\ reserved' = [reserved EXCEPT ![request[h].name] = request[h].user]
  /\ End(h)
  /\ UNCHANGED <<accountVars, name, browserVars>>

-----------------------------------------------------------------------------
\* Sessions

CanAccessApp(u) == active[u] /\ approval[u] = "active" /\ ~deleted[u]

\* _session_user_is_blocked: accounts the portal has yet to approve, or has
\* rejected or disabled, keep a session that leads to a page saying so.
Blocked(u) == deleted[u] \/ (~active[u] /\ approval[u] = "active")

\* get_current_user, which clears a session whose account is blocked.
CurrentUser(b) ==
  IF session[b].user = None \/ Blocked(session[b].user) THEN None ELSE session[b].user

\* Mutant: the first membership is chosen whatever the session says.
SelectedAnew(u, w) == member[u]

\* ensure_current_workspace_session: the workspace of the session if u is a
\* member of it, else one of those u is a member of.
Selected(u, w) == IF w \in member[u] THEN {w} ELSE member[u]

SetSession(b, s) ==
  /\ session' = [session EXCEPT ![b] = s]
  /\ UNCHANGED <<accountVars, nameVars, page>>

\* What signing in as u leaves in the session: a workspace if u can use the
\* application and has one, nothing if it can and has none, and the account
\* alone, with whatever workspace was there, if it cannot.
SignsIn(b, u) ==
  \/ ~CanAccessApp(u) /\ SetSession(b, [session[b] EXCEPT !.user = u])
  \/ CanAccessApp(u) /\ member[u] = {} /\ SetSession(b, SignedOut)
  \/ /\ CanAccessApp(u)
     /\ \E w \in Selected(u, session[b].workspace) :
          SetSession(b, [user |-> u, workspace |-> w])

\* The right password of u; a browser that is signed in is sent to its pages.
Login(b, u) ==
  /\ page[b] = NoPage
  /\ Exists(u) /\ u \notin GoogleUsers
  /\ CurrentUser(b) = None
  /\ SignsIn(b, u)

\* The login page drops the account of a session that may not use the
\* application or has no workspace, and leaves the workspace in the cookie.
LoginPage(b) ==
  LET u == CurrentUser(b) IN
  /\ page[b] = NoPage
  /\ u # None
  /\ approval[u] # "pending"
  /\ ~CanAccessApp(u) \/ member[u] = {}
  /\ SetSession(b, [session[b] EXCEPT !.user = None])

\* The callback of Google for an identity that is linked to an account.
GoogleLogin(b, g) ==
  /\ page[b] = NoPage
  /\ g \in GoogleUsers /\ Exists(g)
  /\ SignsIn(b, g)

Logout(b) ==
  /\ page[b] = NoPage
  /\ session[b] # SignedOut
  /\ SetSession(b, SignedOut)

\* require_login, for a page of the application: the account must still have
\* access and a workspace, or the session ends here.
Gate(b) ==
  LET u == CurrentUser(b) IN
  /\ page[b] = NoPage
  /\ session[b].user # None
  /\ IF u # None /\ CanAccessApp(u) /\ member[u] # {}
       THEN /\ \E w \in Selected(u, session[b].workspace) :
                 session' = [session EXCEPT ![b].workspace = w]
            /\ page' = [page EXCEPT ![b] = [NoPage EXCEPT !.user = u]]
       ELSE /\ session' = [session EXCEPT ![b] =
                 IF u # None /\ ~CanAccessApp(u) THEN @ ELSE SignedOut]
            /\ UNCHANGED page
  /\ UNCHANGED <<accountVars, nameVars>>

\* get_current_workspace_id finds the membership: queries that come are
\* filtered by the workspace of the session.
ScopeRead(b) ==
  LET w == session[b].workspace IN
  /\ page[b].user # None
  /\ w \in member[page[b].user]
  /\ page' = [page EXCEPT ![b].scopes = @ \union {w}]
  /\ UNCHANGED <<accountVars, nameVars, session>>

\* Mutant: who has lost the workspace is given another, as at the gate.
ScopeLostReselecting(b) ==
  /\ page[b].user # None
  /\ session[b].workspace \notin member[page[b].user]
  /\ \E w \in member[page[b].user] :
       /\ session' = [session EXCEPT ![b].workspace = w]
       /\ page' = [page EXCEPT ![b].scopes = @ \union {w}]
  /\ UNCHANGED <<accountVars, nameVars>>

\* It finds none, or an account that may not use the application any more if
\* that was read afresh: the session loses the workspace, or ends, and queries
\* that come find nothing.
ScopeLost(b) ==
  LET u == page[b].user IN
  /\ u # None /\ session[b].workspace # None
  /\ \/ /\ session[b].workspace \notin member[u] \/ (~CanAccessApp(u) /\ ~Blocked(u))
        /\ session' = [session EXCEPT ![b].workspace = None]
     \/ /\ Blocked(u)
        /\ session' = [session EXCEPT ![b] = SignedOut]
  /\ page' = [page EXCEPT ![b].scopes = @ \union {None}]
  /\ UNCHANGED <<accountVars, nameVars>>

\* The page reads or writes rows by a filter it holds; nobody looks for the
\* membership again.
Rows(b, w) ==
  /\ w \in page[b].scopes \ {None}
  /\ w \notin page[b].shown
  /\ page' = [page EXCEPT ![b].shown = @ \union {w}]
  /\ UNCHANGED <<accountVars, nameVars, session>>

\* The statistics pages look for the workspace before anything else, and choose
\* another for an owner who has lost it (or found one: OwnerLifecycle).
Recheck(b) ==
  /\ page[b].user # None /\ page[b].scopes = {}
  /\ session[b].workspace \notin member[page[b].user] \union {None}
  /\ SetSession(b, [session[b] EXCEPT !.workspace = None])

Reselect(b) ==
  /\ page[b].user # None /\ page[b].scopes = {}
  /\ session[b].workspace = None
  /\ \E w \in member[page[b].user] : SetSession(b, [session[b] EXCEPT !.workspace = w])

\* The answer is on its way.
PageEnds(b) ==
  /\ page[b].user # None
  /\ page' = [page EXCEPT ![b] = NoPage]
  /\ UNCHANGED <<accountVars, nameVars, session>>

-----------------------------------------------------------------------------
\* What others decide about an account

Decide(u) ==
  /\ Exists(u)
  /\ ~RowLocked(u)
  /\ UNCHANGED <<nameVars, session, page>>

\* Approval makes all memberships active and founds a workspace for a Google
\* account that has none.
Approve(u) ==
  /\ Decide(u) /\ approval[u] # "active"
  /\ approval' = [approval EXCEPT ![u] = "active"]
  /\ active' = [active EXCEPT ![u] = TRUE]
  /\ \E ws \in (SUBSET Reach[u]) \ {{}} : member' = [member EXCEPT ![u] = ws]
  /\ UNCHANGED deleted

Withdraw(u) ==
  /\ Decide(u) /\ approval[u] \in {"pending", "active"}
  /\ approval' = [approval EXCEPT ![u] = IF @ = "pending" THEN "rejected" ELSE "disabled"]
  /\ active' = [active EXCEPT ![u] = FALSE]
  /\ member' = [member EXCEPT ![u] = {}]
  /\ UNCHANGED deleted

Toggle(u) ==
  /\ Decide(u) /\ member[u] # {}
  /\ active' = [active EXCEPT ![u] = ~@]
  /\ UNCHANGED <<approval, deleted, member>>

\* Removed from a workspace, or restored to it.
Move(u, w) ==
  /\ Decide(u) /\ approval[u] = "active" /\ w \in Reach[u]
  /\ member' = [member EXCEPT ![u] = (@ \ {w}) \union ({w} \ @)]
  /\ UNCHANGED <<approval, active, deleted>>

DeleteAccount(u) ==
  /\ Decide(u) /\ ~deleted[u]
  /\ deleted' = [deleted EXCEPT ![u] = TRUE]
  /\ active' = [active EXCEPT ![u] = FALSE]
  /\ UNCHANGED <<approval, member>>

RestoreAccount(u) ==
  /\ Decide(u) /\ deleted[u]
  /\ deleted' = [deleted EXCEPT ![u] = FALSE]
  /\ active' = [active EXCEPT ![u] = (approval[u] = "active")]
  /\ UNCHANGED <<approval, member>>

-----------------------------------------------------------------------------

Naming(h) ==
  \/ \E u \in Users :
       \/ SeedRead(h, u) \/ ReserveRead(h, u)
       \/ \E n \in Wants[u] : CreateRead(h, u, n) \/ RenameRead(h, u, n) \/ GoogleRead(h, u, n)
  \/ CreateCommit(h) \/ RenameCommit(h) \/ SeedCommit(h) \/ Collides(h)
  \/ \E b \in Browsers : GoogleCommit(h, b)
  \/ ReserveLock(h) \/ ReserveRefused(h) \/ ReserveCommit(h)

Browsing(b) ==
  \/ \E u \in Users : Login(b, u) \/ GoogleLogin(b, u)
  \/ LoginPage(b) \/ Logout(b) \/ Gate(b)
  \/ ScopeRead(b) \/ ScopeLost(b) \/ Recheck(b) \/ Reselect(b) \/ PageEnds(b)
  \/ \E w \in Workspaces : Rows(b, w)

Deciding(u) ==
  \/ Approve(u) \/ Withdraw(u) \/ Toggle(u)
  \/ DeleteAccount(u) \/ RestoreAccount(u)
  \/ \E w \in Workspaces : Move(u, w)

Next ==
  \/ \E h \in Handlers : Naming(h)
  \/ \E b \in Browsers : Browsing(b)
  \/ \E u \in Decided : Deciding(u)

Spec == Init /\ [][Next]_vars

-----------------------------------------------------------------------------

\* A request of that kind ends.
Ends(h, kind) == request[h].kind = kind /\ request'[h] = Idle

\* A name is reserved for the account that has it at that moment, although it
\* was read before the account's row was locked; and no manager creates an
\* account of a reserved name, although the reservation may be made after the
\* name was looked up and before the account is committed.
ReservationsHold ==
  [][\A h \in Handlers :
       /\ Ends(h, "reserve") => name[request[h].user] = request[h].name
       /\ Ends(h, "create") /\ name' # name => reserved[request[h].name] = None]_vars

\* A page reads and writes the rows of one workspace only, however often it
\* asks which and whatever memberships its account loses and gains meanwhile.
OneWorkspace ==
  \A b \in Browsers : \A v, w \in page[b].shown : v = w

\* Nobody finds themselves in another workspace than before, to enter there
\* what was meant for the first, unless they lost that first membership: an
\* account with several is not moved by one that it gains or loses elsewhere.
WorkspaceSticks ==
  [][\A b \in Browsers :
       LET w == session[b].workspace
           u == session'[b].user
       IN w # None /\ session'[b].workspace \notin {w, None} => w \notin member[u]]_vars
=============================================================================
