-------------------------------- MODULE Staff --------------------------------
(***************************************************************************)
(* The accounts of a workspace and the managers who look after them        *)
(* (UserService, routes/user.py).  Every account has a role of its own     *)
(* (users.role) and each membership has one (workspace_members.role); the  *)
(* two are written by different handlers, and the checks of a handler read *)
(* one, the other or both.                                                 *)
(*                                                                         *)
(* A manager's request reads and checks, hashes a password or renders, and *)
(* commits what it decided; between the two any other request may commit.  *)
(* `fresh' is a history field: no other request has committed since this   *)
(* one read.  The approval portal's handlers are one step each, their      *)
(* interleavings are the matter of OwnerLifecycle and AccountPurge.        *)
(*                                                                         *)
(* Roles of accounts and memberships carry the same names here: the code   *)
(* compares them after normalize_role_value.  Workspaces are not deleted.  *)
(***************************************************************************)
EXTENDS Naturals, FiniteSets

CONSTANTS
  Users,        \* accounts, those that may yet be created included
  Workspaces,
  InitialRole,  \* the role of each account at the start, or None
  Home,         \* the workspace each account is a member of, or None
  Legacy,       \* accounts that may be there from before there were memberships
  Creator,      \* who created the accounts that are there, or None
  PortalUsers,  \* bound: the accounts the approval portal touches
  Handlers,     \* requests of managers that may run at the same time
  None

Roles == {"OWNER", "ADMIN", "STAFF"}

ASSUME StaffConstants ==
  /\ None \notin Users \union Workspaces \union Roles
  /\ InitialRole \in [Users -> Roles \union {None}]
  /\ Home \in [Users -> Workspaces \union {None}]
  /\ Creator \in [Users -> Users \union {None}]
  /\ \A u \in Users : Home[u] # None => InitialRole[u] # None
  /\ Legacy \union PortalUsers \subseteq Users

VARIABLES
  role,        \* users.role; None while there is no such account
  active,      \* users.is_active
  approval,    \* users.approval_status
  deleted,     \* users.deleted_at is set
  standing,    \* workspace_members.status
  memberRole,  \* workspace_members.role
  creator,     \* the activity log's CREATE_USER rows: who created the account
  request      \* what each handler has checked and will commit

accountVars == <<role, active, approval, deleted, creator>>
memberVars == <<standing, memberRole>>
staffVars == <<role, active, approval, deleted, standing, memberRole, creator, request>>

Idle == [kind |-> "idle"]
Managers == {"OWNER", "ADMIN"}
Requests ==
  [kind : {"create", "edit", "toggle", "remove", "restore"}, actor : Users, user : Users,
   workspace : Workspaces, role : Roles, on : BOOLEAN, fresh : BOOLEAN]

\* The types of the variables; a membership has a role exactly while there is
\* one, and only accounts that exist are members.
TypeOK ==
  /\ role \in [Users -> Roles \union {None}]
  /\ active \in [Users -> BOOLEAN]
  /\ approval \in [Users -> {"active", "pending", "rejected", "disabled"}]
  /\ deleted \in [Users -> BOOLEAN]
  /\ standing \in [Workspaces -> [Users -> {"none", "active", "inactive", "removed"}]]
  /\ memberRole \in [Workspaces -> [Users -> Roles \union {None}]]
  /\ creator \in [Users -> Users \union {None}]
  /\ request \in [Handlers -> {Idle} \union Requests]
  /\ \A w \in Workspaces, u \in Users :
       /\ (standing[w][u] = "none") = (memberRole[w][u] = None)
       /\ role[u] = None => standing[w][u] = "none"

Init ==
  /\ \E old \in SUBSET Legacy :
       role = [u \in Users |-> IF u \in old THEN "STAFF" ELSE InitialRole[u]]
  /\ active = [u \in Users |-> role[u] # None]
  /\ approval = [u \in Users |-> "active"]
  /\ deleted = [u \in Users |-> FALSE]
  /\ standing = [w \in Workspaces |-> [u \in Users |-> IF Home[u] = w THEN "active" ELSE "none"]]
  /\ memberRole = [w \in Workspaces |-> [u \in Users |->
       IF Home[u] = w THEN InitialRole[u] ELSE None]]
  /\ creator = [u \in Users |-> IF role[u] = None THEN None ELSE Creator[u]]
  /\ request = [h \in Handlers |-> Idle]

-----------------------------------------------------------------------------
\* Who may do what

CanAccessApp(u) == role[u] # None /\ active[u] /\ approval[u] = "active" /\ ~deleted[u]

IsManager(u) == CanAccessApp(u) /\ role[u] \in Managers

Member(w, u) == standing[w][u] = "active"

\* The gate, the blueprint's own check and the current workspace: m has the
\* pages of user management in w.
HasPages(m, w) == IsManager(m) /\ Member(w, m)

AssignableBy(m) == IF role[m] = "OWNER" THEN {"ADMIN", "STAFF"} ELSE {"STAFF"}

\* _get_active_manager_count: of all workspaces, approved or not.
OtherManagers(u) == {v \in Users \ {u} : active[v] /\ role[v] \in Managers}

Agree(w, u) == memberRole[w][u] = role[u]

\* Mutant: an owner can be acted on like anybody else.
AuthorizedOverOwners(m, w, u, expected) ==
  /\ HasPages(m, w) /\ Agree(w, m) /\ u # m
  /\ standing[w][u] = expected
  /\ Agree(w, u)
  /\ role[m] = "OWNER" \/ role[u] # "ADMIN"

\* Mutant: the target's two roles are not compared.
AuthorizedUncompared(m, w, u, expected) ==
  /\ HasPages(m, w) /\ Agree(w, m) /\ u # m
  /\ standing[w][u] = expected
  /\ memberRole[w][u] # "OWNER"
  /\ role[m] = "OWNER" \/ memberRole[w][u] = "STAFF"

\* _authorize_workspace_user_action: the roles of both must agree with their
\* memberships, and the target must be of lower rank.
Authorized(m, w, u, expected) ==
  /\ HasPages(m, w) /\ Agree(w, m) /\ u # m
  /\ standing[w][u] = expected
  /\ Agree(w, u)
  /\ memberRole[w][u] \in (IF role[m] = "OWNER" THEN {"ADMIN", "STAFF"} ELSE {"STAFF"})

-----------------------------------------------------------------------------
\* The requests of a manager: a read that checks, and a commit

Read(h, r) ==
  /\ request[h] = Idle
  /\ request' = [request EXCEPT ![h] = r]
  /\ UNCHANGED <<accountVars, memberVars>>

Req(kind, m, u, w, r, on) ==
  [kind |-> kind, actor |-> m, user |-> u, workspace |-> w, role |-> r, on |-> on,
   fresh |-> TRUE]

\* Every other request in flight has now read something older.
Aged(g) == IF request[g] = Idle THEN Idle ELSE [request[g] EXCEPT !.fresh = FALSE]
AgeAll == request' = [g \in Handlers |-> Aged(g)]
Finish(h) == request' = [g \in Handlers |-> IF g = h THEN Idle ELSE Aged(g)]

CreateRead(h, m, w, u, r, on) ==
  /\ HasPages(m, w) /\ Agree(w, m)
  /\ role[u] = None
  /\ r \in AssignableBy(m)
  /\ Read(h, Req("create", m, u, w, r, on))

\* add_member_for_user
Join(w, u, r) ==
  /\ standing' = [standing EXCEPT ![w][u] = "active"]
  /\ memberRole' = [memberRole EXCEPT ![w][u] = r]

\* The account, its membership, its provenance and its log row commit as one.
CreateCommit(h) ==
  LET r == request[h] IN
  /\ r.kind = "create"
  /\ role[r.user] = None
  /\ role' = [role EXCEPT ![r.user] = r.role]
  /\ active' = [active EXCEPT ![r.user] = r.on]
  /\ creator' = [creator EXCEPT ![r.user] = r.actor]
  /\ Join(r.workspace, r.user, r.role)
  /\ Finish(h)
  /\ UNCHANGED <<approval, deleted>>

\* The unique index refuses the second account of a name.
CreateCollides(h) ==
  /\ request[h].kind = "create"
  /\ role[request[h].user] # None
  /\ request' = [request EXCEPT ![h] = Idle]
  /\ UNCHANGED <<accountVars, memberVars>>

\* Mutant: a manager may take the role of manager from itself.
DemotableByAnyone(m, u) == active[u] => OtherManagers(u) # {}

\* update_user: nobody demotes itself, nobody the last manager there is.
Demotable(m, u) ==
  /\ u # m
  /\ active[u] => OtherManagers(u) # {}

\* Of the membership only that it is active is asked, and nothing of the
\* actor's; the new role is the account's alone.
EditRead(h, m, w, u, r) ==
  /\ HasPages(m, w)
  /\ Member(w, u)
  /\ r # role[u]
  /\ r \in AssignableBy(m)
  /\ role[u] \in Managers /\ r = "STAFF" => Demotable(m, u)
  /\ Read(h, Req("edit", m, u, w, r, TRUE))

EditCommit(h) ==
  LET r == request[h] IN
  /\ r.kind = "edit"
  /\ role' = [role EXCEPT ![r.user] = r.role]
  /\ Finish(h)
  /\ UNCHANGED <<active, approval, deleted, creator, memberVars>>

ToggleRead(h, m, w, u, on) ==
  /\ Authorized(m, w, u, "active")
  /\ on # active[u]
  /\ ~on /\ role[u] \in Managers => OtherManagers(u) # {}
  /\ Read(h, Req("toggle", m, u, w, "STAFF", on))

ToggleCommit(h) ==
  LET r == request[h] IN
  /\ r.kind = "toggle"
  /\ active' = [active EXCEPT ![r.user] = r.on]
  /\ Finish(h)
  /\ UNCHANGED <<role, approval, deleted, creator, memberVars>>

RemoveRead(h, m, w, u) ==
  /\ Authorized(m, w, u, "active")
  /\ Read(h, Req("remove", m, u, w, "STAFF", FALSE))

RestoreRead(h, m, w, u) ==
  /\ Authorized(m, w, u, "removed")
  /\ Read(h, Req("restore", m, u, w, "STAFF", TRUE))

\* soft_delete_user and restore_user write the status they decided on,
\* whatever it has become.
MemberCommit(h) ==
  LET r == request[h] IN
  /\ r.kind \in {"remove", "restore"}
  /\ standing' = [standing EXCEPT ![r.workspace][r.user] =
                    IF r.kind = "remove" THEN "removed" ELSE "active"]
  /\ Finish(h)
  /\ UNCHANGED <<accountVars, memberRole>>

-----------------------------------------------------------------------------

\* Mutant: a membership that was removed does not count as one.
RepairableIgnoringRemoved(o, w, u) ==
  /\ creator[u] = o /\ role[u] \in {"ADMIN", "STAFF"}
  /\ active[u] /\ approval[u] = "active"
  /\ \A v \in Workspaces : standing[v][u] # "active"

\* Created by o and never a member: "An existing membership in the repair
\* workspace is explicit lifecycle state, including removed".
Repairable(o, w, u) ==
  /\ creator[u] = o /\ role[u] \in {"ADMIN", "STAFF"}
  /\ active[u] /\ approval[u] = "active"
  /\ standing[w][u] = "none"
  /\ \A v \in Workspaces : standing[v][u] # "active"

\* An owner opens the list of users: accounts it created that are members of
\* nothing become members of its workspace.
Repair(o, w) ==
  LET found == {u \in Users : Repairable(o, w, u)} IN
  /\ HasPages(o, w) /\ role[o] = "OWNER"
  /\ found # {}
  /\ standing' = [standing EXCEPT ![w] =
       [u \in Users |-> IF u \in found THEN "active" ELSE @[u]]]
  /\ memberRole' = [memberRole EXCEPT ![w] =
       [u \in Users |-> IF u \in found THEN role[u] ELSE @[u]]]
  /\ AgeAll
  /\ UNCHANGED accountVars

-----------------------------------------------------------------------------
\* The approval portal

Memberships(u, status) ==
  standing' = [w \in Workspaces |-> [v \in Users |->
    IF v = u /\ standing[w][v] # "none" THEN status ELSE standing[w][v]]]

\* approve_user, through approve_pending_user or enable_user: every membership
\* becomes active, a removed one too.
Approve(u) ==
  /\ role[u] # None
  /\ approval[u] # "active"
  /\ approval' = [approval EXCEPT ![u] = "active"]
  /\ active' = [active EXCEPT ![u] = TRUE]
  /\ Memberships(u, "active")
  /\ AgeAll
  /\ UNCHANGED <<role, deleted, creator, memberRole>>

Disable(u) ==
  /\ role[u] # None
  /\ approval[u] = "active"
  /\ approval' = [approval EXCEPT ![u] = "disabled"]
  /\ active' = [active EXCEPT ![u] = FALSE]
  /\ Memberships(u, "inactive")
  /\ AgeAll
  /\ UNCHANGED <<role, deleted, creator, memberRole>>

\* soft_delete_account; an owner is deleted with its workspace only.
DeleteAccount(u) ==
  /\ role[u] \in {"ADMIN", "STAFF"}
  /\ ~deleted[u]
  /\ deleted' = [deleted EXCEPT ![u] = TRUE]
  /\ active' = [active EXCEPT ![u] = FALSE]
  /\ AgeAll
  /\ UNCHANGED <<role, approval, creator, memberVars>>

RestoreAccount(u) ==
  /\ role[u] \in {"ADMIN", "STAFF"}
  /\ deleted[u]
  /\ deleted' = [deleted EXCEPT ![u] = FALSE]
  /\ active' = [active EXCEPT ![u] = (approval[u] = "active")]
  /\ AgeAll
  /\ UNCHANGED <<role, approval, creator, memberVars>>

-----------------------------------------------------------------------------

Reads(h) == \E m \in Users, u \in Users, w \in Workspaces :
  \/ \E r \in Roles, on \in BOOLEAN : CreateRead(h, m, w, u, r, on)
  \/ \E r \in Roles : EditRead(h, m, w, u, r)
  \/ \E on \in BOOLEAN : ToggleRead(h, m, w, u, on)
  \/ RemoveRead(h, m, w, u)
  \/ RestoreRead(h, m, w, u)

Commits(h) ==
  \/ CreateCommit(h)
  \/ CreateCollides(h)
  \/ EditCommit(h)
  \/ ToggleCommit(h)
  \/ MemberCommit(h)

Portal(u) == Approve(u) \/ Disable(u) \/ DeleteAccount(u) \/ RestoreAccount(u)

Next ==
  \/ \E h \in Handlers : Reads(h) \/ Commits(h)
  \/ \E o \in Users, w \in Workspaces : Repair(o, w)
  \/ \E u \in PortalUsers : Portal(u)

Spec == Init /\ [][Next]_staffVars

-----------------------------------------------------------------------------

\* The portal's doing, as against a manager's.
PortalStep == approval' # approval \/ deleted' # deleted

\* A request of that kind about u commits.
Committed(kinds, u) == \E h \in Handlers :
  request[h] # Idle /\ request[h].kind \in kinds /\ request[h].user = u /\ request'[h] = Idle

\* A request commits on reads that another commit has overtaken.
StaleCommit == \E h \in Handlers :
  request[h] # Idle /\ ~request[h].fresh /\ request'[h] = Idle

HasManager(w) == \E m \in Users : HasPages(m, w)

\* A request made in another workspace commits.
FromElsewhere(w) == \E h \in Handlers :
  request[h] # Idle /\ request[h].workspace # w /\ request'[h] = Idle

\* "The last owner or admin cannot be demoted" or deactivated: whatever the
\* managers of a workspace do to one another, one of them keeps its pages, so
\* long as each acts on what is true when it commits.  The count that guards
\* it is of all workspaces, so those of another can take away the last one of
\* this, if it is theirs too; that nobody acts on itself is what saves it.
LastManagerKept ==
  [][\A w \in Workspaces : HasManager(w) /\ ~HasManager(w)' =>
       PortalStep \/ StaleCommit \/ FromElsewhere(w)]_staffVars

\* The memberships of u have all come apart from its role.
ApartEverywhere(u) ==
  /\ \E w \in Workspaces : standing[w][u] # "none"
  /\ \A w \in Workspaces : standing[w][u] # "none" => ~Agree(w, u)

\* An account whose two roles have come apart is out of its managers' reach:
\* an edit can change the role of the account, and from then on neither a
\* membership of another role changes nor, once none agrees, the account's
\* activity, but through the portal.
MismatchFreezes ==
  [][\A u \in Users :
       \/ /\ \A w \in Workspaces : standing[w][u] # "none" /\ ~Agree(w, u) =>
                standing'[w][u] = standing[w][u]
          /\ ApartEverywhere(u) => active'[u] = active[u]
       \/ PortalStep \/ StaleCommit]_staffVars

\* Removal from a workspace is lifted by a manager's restore or by the portal
\* enabling the account, and by nothing that repairs memberships.
RemovalLifted ==
  [][\A w \in Workspaces, u \in Users :
       standing[w][u] = "removed" /\ standing'[w][u] # "removed" =>
         Committed({"restore"}, u) \/ approval'[u] # approval[u]]_staffVars

\* The founder of a workspace is never removed from it nor deactivated by its
\* managers, also after one of them has changed the role of its account.
FounderStays ==
  \A w \in Workspaces, u \in Users : memberRole[w][u] = "OWNER" =>
    /\ standing[w][u] # "removed"
    /\ active[u] \/ approval[u] # "active" \/ deleted[u]
=============================================================================
