---------------------------- MODULE OwnerLifecycle ----------------------------
(***************************************************************************)
(* Owners, the workspaces they own, and the approval portal that deletes   *)
(* and restores the two together (soft_delete_owner_workspace,             *)
(* restore_owner_workspace).  An owner's deletion takes the workspaces     *)
(* that no other valid owner holds; a restore brings back the workspaces   *)
(* that carry the very stamp of the owner's deletion.                      *)
(*                                                                         *)
(* A handler is a request inside a transaction at READ COMMITTED.  What it *)
(* has read may be out of date when it commits; the long handlers are cut  *)
(* where that matters.  Approving, disabling and rejecting are one action  *)
(* each and take a handler for that moment, so with a single handler every *)
(* request runs alone.                                                     *)
(*                                                                         *)
(* The pair (deleted_at, deleted_by_id) is the number of the deletion that *)
(* wrote it.  users.is_active of an owner is left out: wherever it is read *)
(* deleted_at and approval_status are read with it, and these handlers     *)
(* keep it TRUE for an owner that is approved and not deleted.  The purge  *)
(* itself is the matter of PurgeWorkflow: here any deleted workspace may   *)
(* be purged.                                                              *)
(***************************************************************************)
EXTENDS Naturals, Sequences, FiniteSets

CONSTANTS
  Owners,         \* users with the role OWNER
  Workspaces,     \* workspaces, those that may yet be founded included
  GoogleOwners,   \* owners that registered with Google
  InitialOwners,  \* the owners each workspace has at the start
  Slugs,          \* for each owner, the slugs tried in turn when one is founded
  Handlers,       \* requests that may run at the same time
  MaxDeletions    \* bound: deletions of owners

ASSUME OwnerConstants ==
  /\ GoogleOwners \subseteq Owners
  /\ InitialOwners \in [Workspaces -> SUBSET Owners]
  /\ Slugs \in [Owners -> Seq(Workspaces)]
  /\ MaxDeletions \in Nat

VARIABLES
  deletion,     \* users.deleted_at, deleted_by_id
  approval,     \* users.approval_status
  state,        \* whether the workspace row exists, and whether it was purged
  wsDeletion,   \* workspaces.deleted_at, deleted_by_id
  member,       \* workspace_members.status, role "owner"
  handler,      \* what each handler has read and is about to do
  deletions,    \* history: whom each deletion deleted
  raced         \* history: a commit rested on reads another had overtaken

vars == <<deletion, approval, state, wsDeletion, member, handler, deletions, raced>>

NotDeleted == 0
Deletion == 1..MaxDeletions
Idle == [step |-> "idle"]

TypeOK ==
  /\ deletion \in [Owners -> {NotDeleted} \union Deletion]
  /\ approval \in [Owners -> {"pending", "active", "disabled", "rejected"}]
  /\ state \in [Workspaces -> {"unused", "exists", "purged"}]
  /\ wsDeletion \in [Workspaces -> {NotDeleted} \union Deletion]
  /\ member \in [Workspaces -> [Owners -> {"none", "active", "inactive"}]]
  /\ handler \in [Handlers -> {Idle} \union
       [step : {"delete", "deleting", "restore", "found", "insert"}, user : Owners,
        stamp : {NotDeleted} \union Deletion, chosen : SUBSET Workspaces, fresh : BOOLEAN]]
  /\ deletions \in Seq(Owners)
  /\ raced \in BOOLEAN
  /\ \A w \in Workspaces : state[w] = "unused" =>
       wsDeletion[w] = NotDeleted /\ \A u \in Owners : member[w][u] = "none"

Init ==
  /\ deletion = [u \in Owners |-> NotDeleted]
  /\ approval = [u \in Owners |->
       IF \E w \in Workspaces : u \in InitialOwners[w] THEN "active" ELSE "pending"]
  /\ state = [w \in Workspaces |-> IF InitialOwners[w] = {} THEN "unused" ELSE "exists"]
  /\ wsDeletion = [w \in Workspaces |-> NotDeleted]
  /\ member = [w \in Workspaces |-> [u \in Owners |->
       IF u \in InitialOwners[w] THEN "active" ELSE "none"]]
  /\ handler = [h \in Handlers |-> Idle]
  /\ deletions = <<>>
  /\ raced = FALSE

-----------------------------------------------------------------------------

At(h, step) == handler[h].step = step

Read(h, step, u, stamp, chosen) ==
  /\ handler[h] = Idle
  /\ handler' = [handler EXCEPT ![h] =
       [step |-> step, user |-> u, stamp |-> stamp, chosen |-> chosen, fresh |-> TRUE]]

\* What the handlers in flight have read is now older than a commit.
Aged(g) == IF handler[g] = Idle THEN Idle ELSE [handler[g] EXCEPT !.fresh = FALSE]

\* The transaction of h ends, with its commit or without.
Done(h) ==
  /\ handler' = [g \in Handlers |-> IF g = h THEN Idle ELSE Aged(g)]
  /\ raced' = (raced \/ ~handler[h].fresh)
GivesUp(h) == handler' = [handler EXCEPT ![h] = Idle]

\* A deletion has written the user's row and not committed; writers wait.
RowLocked(u) == \E h \in Handlers : At(h, "deleting") /\ handler[h].user = u

ValidOwner(w, v) ==
  member[w][v] = "active" /\ deletion[v] = NotDeleted /\ approval[v] = "active"

\* Mutant: a deleted co-owner still counts as a valid one.
OnlyOwnedEvenDeleted(u) ==
  {w \in Workspaces : /\ member[w][u] = "active"
                      /\ wsDeletion[w] = NotDeleted
                      /\ ~ \E v \in Owners \ {u} :
                           member[w][v] = "active" /\ approval[v] = "active"}

\* The workspaces that go with u: u owns them and no other valid owner does.
OnlyOwnedBy(u) ==
  {w \in Workspaces : /\ member[w][u] = "active"
                      /\ wsDeletion[w] = NotDeleted
                      /\ ~ \E v \in Owners \ {u} : ValidOwner(w, v)}

DeleteRead(h, u) ==
  /\ deletion[u] = NotDeleted
  /\ Read(h, "delete", u, NotDeleted, {})
  /\ UNCHANGED <<deletion, approval, state, wsDeletion, member, deletions, raced>>

\* The first query flushes the update of the user's row; the workspaces are
\* then looked at one by one, as they are committed.
DeleteFlush(h) ==
  /\ At(h, "delete")
  /\ ~RowLocked(handler[h].user)
  /\ Len(deletions) < MaxDeletions
  /\ LET u == handler[h].user IN
       /\ deletions' = Append(deletions, u)
       /\ handler' = [handler EXCEPT ![h].step = "deleting",
                                     ![h].stamp = Len(deletions) + 1,
                                     ![h].chosen = OnlyOwnedBy(u)]
  /\ UNCHANGED <<deletion, approval, state, wsDeletion, member, raced>>

DeleteCommit(h) ==
  /\ At(h, "deleting")
  /\ LET d == handler[h] IN
       /\ deletion' = [deletion EXCEPT ![d.user] = d.stamp]
       /\ wsDeletion' = [w \in Workspaces |->
            IF w \in d.chosen THEN d.stamp ELSE wsDeletion[w]]
  /\ Done(h)
  /\ UNCHANGED <<approval, state, member, deletions>>

-----------------------------------------------------------------------------

\* Mutant: only memberships that are still active bring a workspace back.
CandidatesActiveOnly(u) ==
  {w \in Workspaces : /\ member[w][u] = "active"
                      /\ wsDeletion[w] # NotDeleted
                      /\ wsDeletion[w] = deletion[u]}

Candidates(u) ==
  {w \in Workspaces : /\ member[w][u] # "none"
                      /\ wsDeletion[w] # NotDeleted
                      /\ wsDeletion[w] = deletion[u]}

RestoreRead(h, u) ==
  /\ deletion[u] # NotDeleted
  /\ Read(h, "restore", u, deletion[u], Candidates(u))
  /\ UNCHANGED <<deletion, approval, state, wsDeletion, member, deletions, raced>>

\* Mutant: the locked workspace is not compared again with the stamp.
RestorableUnchecked(r) == r.chosen

\* Of the candidates, now locked, those that still carry the stamp.
Restorable(r) == {w \in r.chosen : wsDeletion[w] = r.stamp}

\* Mutant: the terminal marker is not looked at.
NonePurgedUnchecked(ws) == TRUE

NonePurged(ws) == \A w \in ws : state[w] # "purged"

\* The user's row is written whatever it says by now.
RestoreCommit(h) ==
  /\ At(h, "restore")
  /\ ~RowLocked(handler[h].user)
  /\ NonePurged(handler[h].chosen)
  /\ deletion' = [deletion EXCEPT ![handler[h].user] = NotDeleted]
  /\ wsDeletion' = [w \in Workspaces |->
       IF w \in Restorable(handler[h]) THEN NotDeleted ELSE wsDeletion[w]]
  /\ Done(h)
  /\ UNCHANGED <<approval, state, member, deletions>>

\* One candidate that was purged, or has a purge request that runs or may have
\* run, refuses the whole restore.
RestoreRefused(h) ==
  /\ At(h, "restore")
  /\ handler[h].chosen # {}
  /\ GivesUp(h)
  /\ UNCHANGED <<deletion, approval, state, wsDeletion, member, deletions, raced>>

-----------------------------------------------------------------------------

\* Mutant: an owner of nothing but deleted workspaces founds another.
NoMembershipInUse(u) ==
  \A w \in Workspaces : member[w][u] = "none" \/ wsDeletion[w] # NotDeleted

NoMembership(u) == \A w \in Workspaces : member[w][u] = "none"

\* generate_unique_slug: the first slug of u no committed workspace has.  It
\* never runs out of them; here the workspaces bound the slugs.
HasFreeSlug(u) == \E i \in DOMAIN Slugs[u] : state[Slugs[u][i]] = "unused"
FreeSlug(u) ==
  LET i == CHOOSE i \in DOMAIN Slugs[u] :
             /\ state[Slugs[u][i]] = "unused"
             /\ \A j \in 1..(i - 1) : state[Slugs[u][j]] # "unused"
  IN Slugs[u][i]

\* A workspace and its owner's membership come into being together.
Create(w, u) ==
  /\ state' = [state EXCEPT ![w] = "exists"]
  /\ member' = [member EXCEPT ![w][u] = "active"]

\* An approved owner opens a page and has no membership at all.
FoundRead(h, u) ==
  /\ deletion[u] = NotDeleted
  /\ approval[u] = "active"
  /\ NoMembership(u)
  /\ Read(h, "found", u, NotDeleted, {})
  /\ UNCHANGED <<deletion, approval, state, wsDeletion, member, deletions, raced>>

FoundSlug(h) ==
  /\ At(h, "found")
  /\ HasFreeSlug(handler[h].user)
  /\ handler' = [handler EXCEPT ![h].step = "insert",
                                ![h].chosen = {FreeSlug(handler[h].user)}]
  /\ UNCHANGED <<deletion, approval, state, wsDeletion, member, deletions, raced>>

FoundInsert(h) ==
  /\ At(h, "insert")
  /\ \E w \in handler[h].chosen : state[w] = "unused" /\ Create(w, handler[h].user)
  /\ Done(h)
  /\ UNCHANGED <<deletion, approval, wsDeletion, deletions>>

\* The unique index on the slug refuses the row: the request fails.
FoundCollides(h) ==
  /\ At(h, "insert")
  /\ \A w \in handler[h].chosen : state[w] # "unused"
  /\ GivesUp(h)
  /\ UNCHANGED <<deletion, approval, state, wsDeletion, member, deletions, raced>>

-----------------------------------------------------------------------------

Memberships(u, status) ==
  member' = [w \in Workspaces |-> [v \in Owners |->
    IF v = u /\ member[w][v] # "none" THEN status ELSE member[w][v]]]

\* The short handlers run in one of the handlers' places.
Short(u) ==
  /\ \E h \in Handlers : handler[h] = Idle
  /\ ~RowLocked(u)
  /\ handler' = [g \in Handlers |-> Aged(g)]
  /\ UNCHANGED <<deletions, raced>>

\* approve_pending_user and enable_user.  Whether u is deleted is not asked.
Approve(u) ==
  /\ Short(u)
  /\ approval[u] # "active"
  /\ approval' = [approval EXCEPT ![u] = "active"]
  /\ IF u \in GoogleOwners /\ NoMembership(u)
       THEN HasFreeSlug(u) /\ Create(FreeSlug(u), u)
       ELSE Memberships(u, "active") /\ UNCHANGED state
  /\ UNCHANGED <<deletion, wsDeletion>>

Reject(u) ==
  /\ Short(u)
  /\ approval[u] = "pending"
  /\ approval' = [approval EXCEPT ![u] = "rejected"]
  /\ UNCHANGED <<deletion, state, wsDeletion, member>>

Disable(u) ==
  /\ Short(u)
  /\ approval[u] = "active"
  /\ approval' = [approval EXCEPT ![u] = "disabled"]
  /\ Memberships(u, "inactive")
  /\ UNCHANGED <<deletion, state, wsDeletion>>

\* The purge of a deleted workspace: the row stays, its memberships go.
Purge(w) ==
  /\ \E h \in Handlers : handler[h] = Idle
  /\ state[w] = "exists"
  /\ wsDeletion[w] # NotDeleted
  /\ state' = [state EXCEPT ![w] = "purged"]
  /\ member' = [member EXCEPT ![w] = [u \in Owners |-> "none"]]
  /\ handler' = [g \in Handlers |-> Aged(g)]
  /\ UNCHANGED <<deletion, approval, wsDeletion, deletions, raced>>

\* The portal asks for the deletion or the restore of an owner.
Asked(h, u) == DeleteRead(h, u) \/ RestoreRead(h, u)

Step(h) ==
  \/ \E u \in Owners : Asked(h, u) \/ FoundRead(h, u)
  \/ DeleteFlush(h)
  \/ DeleteCommit(h)
  \/ RestoreCommit(h)
  \/ RestoreRefused(h)
  \/ FoundSlug(h)
  \/ FoundInsert(h)
  \/ FoundCollides(h)

Next ==
  \/ \E h \in Handlers : Step(h)
  \/ \E u \in Owners : Approve(u) \/ Reject(u) \/ Disable(u)
  \/ \E w \in Workspaces : Purge(w)

Spec == Init /\ [][Next]_vars

-----------------------------------------------------------------------------

\* A handler commits on reads that another commit has overtaken.
StaleCommit == raced' /\ \E h \in Handlers :
  handler[h] # Idle /\ ~handler[h].fresh /\ handler'[h] = Idle

\* "Account and workspace share deleted_at and deleted_by_id": a workspace in
\* the bin has an owner deleted by the same deletion, so restoring that owner
\* brings it back; none is stranded, unless handlers overtook one another.
SharedProvenance ==
  ~raced => \A w \in Workspaces : state[w] = "exists" /\ wsDeletion[w] # NotDeleted =>
    \E u \in Owners : member[w][u] # "none" /\ deletion[u] = wsDeletion[w]

\* Deleting an owner takes along each workspace of which it was the last
\* valid owner: one that stays active still has another, if the deletion
\* judged by what is true when it commits.
LastOwnerTakesWorkspace ==
  [][\A u \in Owners : deletion[u] = NotDeleted /\ deletion'[u] # NotDeleted =>
       \A w \in Workspaces : member[w][u] = "active" /\ wsDeletion[w] = NotDeleted =>
         \/ wsDeletion'[w] = deletion'[u]
         \/ \E v \in Owners \ {u} : ValidOwner(w, v)
         \/ StaleCommit]_vars

\* A workspace comes back only when the owner whose deletion took it is
\* restored, also when the restore worked from what it had read before.
RestoresOwnDeletion ==
  [][\A w \in Workspaces : wsDeletion[w] # NotDeleted /\ wsDeletion'[w] = NotDeleted =>
       deletion'[deletions[wsDeletion[w]]] = NotDeleted]_vars

\* A purged workspace is never brought back, by a restore that had chosen it
\* before the purge either.
PurgedStaysDeleted ==
  \A w \in Workspaces : state[w] = "purged" => wsDeletion[w] # NotDeleted

\* "This operation is idempotent": a workspace is founded for an owner only
\* while the owner is a member of none, unless two requests overlap.
FoundedOnce ==
  [][\A u \in Owners : \A w \in Workspaces :
       member[w][u] = "none" /\ member'[w][u] # "none" =>
         (\A v \in Workspaces : member[v][u] = "none") \/ StaleCommit]_vars
=============================================================================
