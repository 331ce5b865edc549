--------------------------- MODULE PurgeWorkflow ---------------------------
(***************************************************************************)
(* The permanent purge of one tenant workspace: soft deletion and restore, *)
(* the two-step purge request, legal holds, the re-authentication that     *)
(* precedes execution, and the request handlers that execute a purge.      *)
(*                                                                         *)
(* Each action is one database transaction.  The code serialises them on   *)
(* row locks taken in the order request, workspace, terminal marker, and   *)
(* the conflicting parts of a transaction (an authorization row, a hold)   *)
(* are locked rows too, so a transaction takes effect at its commit.       *)
(* Between its transactions a handler holds nothing: every other handler   *)
(* may run there, and the handler may die there.                           *)
(*                                                                         *)
(* A soft deletion is identified by its ordinal: it stands for the pair    *)
(* (deleted_at, deleted_by_id) the code compares as provenance.            *)
(***************************************************************************)
EXTENDS Naturals

CONSTANTS
  Owners,           \* approval owners: the only actors of the workflow
  LocalOwners,      \* those with a local password, who may execute
  Workers,          \* request handlers that can run at the same time
  Holds,            \* legal-hold records that may be placed
  Rows,             \* rows of the workspace: what a purge destroys
  Logo,             \* the row that holds the workspace's logo reference
  NoUser,           \* the null user id
  MaxDeletions,     \* bound: soft deletions of the workspace
  MaxGenerations,   \* bound: authorizations issued for one request
  CrashAllowed      \* whether a handler may die between two transactions

ASSUME PurgeConstants ==
  /\ LocalOwners \subseteq Owners
  /\ NoUser \notin Owners
  /\ MaxDeletions \in Nat \ {0}
  /\ MaxGenerations \in Nat \ {0}
  /\ CrashAllowed \in BOOLEAN

VARIABLES
  workspace,   \* its deletions, its deletion flag and its terminal marker
  rows,        \* the rows the workspace has now
  writing,     \* a tenant handler has checked the workspace, not yet written
  elapsed,     \* the retention period of the present deletion is over
  hold,        \* the legal holds
  request,     \* the purge request of each deletion
  auth,        \* the execution authorization of each request
  worker,      \* the handlers executing a purge
  revoked      \* history: the generations that were ever revoked

vars == <<workspace, rows, writing, elapsed, hold, request, auth, worker, revoked>>

Lives == 1..MaxDeletions
Generations == 0..MaxGenerations   \* 0: not issued yet

PreApproval == {"PENDING_RETENTION", "PENDING_APPROVAL"}
Invalidatable == PreApproval \union {"APPROVED"}
Terminal == {"COMPLETED", "FAILED", "REJECTED", "CANCELLED"}
RequestStatus == {"NONE"} \union Invalidatable \union Terminal

AuthorizationState ==
  {"NONE", "ACTIVE", "CLAIMED", "CONSUMED_SUCCESS", "REVOKED", "CLAIMED_UNRESOLVED"}
Revocable == {"ACTIVE", "CLAIMED"}
Busy == {"CLAIMED", "CLAIMED_UNRESOLVED"}

WorkerStep == {"claimed", "revoke", "unresolved", "failure", "reconcile"}

Workspace ==
  [life : 0..MaxDeletions, deleted : BOOLEAN, purgeRequest : 0..MaxDeletions]
Request ==
  [status : RequestStatus, requester : Owners \union {NoUser},
   approver : Owners \union {NoUser}, invalidated : BOOLEAN, unknown : BOOLEAN,
   clear : BOOLEAN, manifest : SUBSET Rows, doneBy : Generations]
Authorization ==
  [state : AuthorizationState, gen : Generations,
   actor : Owners \union {NoUser}, fresh : BOOLEAN]
Idle == [step |-> "idle", user |-> NoUser, life |-> 0, gen |-> 0]
Worker ==
  {Idle} \union [step : WorkerStep, user : Owners, life : Lives, gen : Generations]

NoRequest ==
  [status |-> "NONE", requester |-> NoUser, approver |-> NoUser,
   invalidated |-> FALSE, unknown |-> FALSE, clear |-> FALSE,
   manifest |-> {}, doneBy |-> 0]
NoAuthorization ==
  [state |-> "NONE", gen |-> 0, actor |-> NoUser, fresh |-> FALSE]

TypeOK ==
  /\ workspace \in Workspace
  /\ rows \in SUBSET Rows
  /\ writing \in BOOLEAN
  /\ elapsed \in BOOLEAN
  /\ hold \in [Holds -> {"NONE", "ACTIVE", "RELEASED"}]
  /\ request \in [Lives -> Request]
  /\ auth \in [Lives -> Authorization]
  /\ worker \in [Workers -> Worker]
  /\ revoked \in SUBSET (Lives \X Generations)

\* A live workspace, whatever rows it starts with, and no purge ever asked for.
Init ==
  /\ workspace = [life |-> 0, deleted |-> FALSE, purgeRequest |-> 0]
  /\ rows = {}
  /\ writing = FALSE
  /\ elapsed = FALSE
  /\ hold = [h \in Holds |-> "NONE"]
  /\ request = [l \in Lives |-> NoRequest]
  /\ auth = [l \in Lives |-> NoAuthorization]
  /\ worker = [w \in Workers |-> Idle]
  /\ revoked = {}

-----------------------------------------------------------------------------
(* Guards shared by the transactions.                                      *)

Purged == workspace.purgeRequest # 0
\* Mutant: the retention date is not compared.
RetentionIgnored == TRUE
ActiveHold == \E h \in Holds : hold[h] = "ACTIVE"
RetentionReached == elapsed

\* The request was made for the deletion the workspace is in now.
ProvenanceMatches(l) == workspace.deleted /\ workspace.life = l
ManifestMatches(l) == request[l].manifest = rows
LogoPresent == Logo \in rows

\* PurgeReauthService._validate_request
ReauthEligible(l) ==
  /\ request[l].status = "APPROVED"
  /\ ~request[l].invalidated
  /\ ~request[l].unknown

\* Mutant: the execution trusts the hold snapshot taken with the approval.
PreflightOnSnapshot(l) ==
  /\ ReauthEligible(l)
  /\ request[l].approver # NoUser
  /\ ~Purged
  /\ ProvenanceMatches(l)
  /\ RetentionReached
  /\ request[l].clear
  /\ ManifestMatches(l)
  /\ ~LogoPresent

\* Every check of execute_workspace_purge before it marks the request EXECUTING.
PreflightPasses(l) ==
  /\ ~request[l].invalidated
  /\ ~request[l].unknown
  /\ request[l].status = "APPROVED"
  /\ request[l].approver # NoUser
  /\ ~Purged
  /\ ProvenanceMatches(l)
  /\ RetentionReached
  /\ request[l].clear
  /\ ~ActiveHold
  /\ ManifestMatches(l)
  /\ ~LogoPresent

\* Mutant: the state of the row is not compared.
ClaimGenerationStands(w) ==
  LET a == auth[worker[w].life] IN
    a.gen = worker[w].gen /\ a.actor = worker[w].user

\* mark_service_started: the row still carries this claim.
ClaimStands(w) ==
  LET a == auth[worker[w].life] IN
    /\ a.state = "CLAIMED"
    /\ a.gen = worker[w].gen
    /\ a.actor = worker[w].user

\* _completed_state_is_consistent with the attempt's own execution time.
CompletedByAttempt(w) ==
  LET l == worker[w].life IN
    /\ request[l].status = "COMPLETED"
    /\ workspace.purgeRequest = l
    /\ ProvenanceMatches(l)
    /\ request[l].doneBy = worker[w].gen

-----------------------------------------------------------------------------
(* The workspace and its tenant handlers.                                  *)

\* The last owner's account is soft-deleted and takes the workspace with it.
SoftDelete ==
  /\ ~workspace.deleted
  /\ workspace.life < MaxDeletions
  /\ workspace' = [workspace EXCEPT !.life = @ + 1, !.deleted = TRUE]
  /\ elapsed' = FALSE
  /\ UNCHANGED <<rows, writing, hold, request, auth, worker, revoked>>

\* Mutants: a restore that looks at the frozen outcome alone, or not at all.
RestorableUnlessFrozen == ~request[workspace.life].unknown
RestorableUnlessPurged == ~Purged /\ request[workspace.life].status # "COMPLETED"

\* The purge workflow lets the present deletion be undone.
Restorable ==
  /\ ~Purged
  /\ LET r == request[workspace.life] IN
       /\ ~r.unknown
       /\ r.status # "COMPLETED"

\* Mutant: an approved request survives the restore.
InvalidatePending(l) ==
  IF request[l].status \in PreApproval /\ ~request[l].unknown
    THEN request' = [request EXCEPT ![l].invalidated = TRUE]
    ELSE UNCHANGED request

\* invalidate_requests_for_workspace_restore, for the deletion being undone.
InvalidateRequest(l) ==
  IF request[l].status \in Invalidatable /\ ~request[l].unknown
    THEN request' = [request EXCEPT ![l].invalidated = TRUE]
    ELSE UNCHANGED request

\* The owner is restored, the workspace with it, and its request is voided.
Restore ==
  /\ workspace.deleted
  /\ Restorable
  /\ workspace' = [workspace EXCEPT !.deleted = FALSE]
  /\ InvalidateRequest(workspace.life)
  /\ UNCHANGED <<rows, writing, elapsed, hold, auth, worker, revoked>>

\* A tenant handler finds its workspace alive ...
WriteBegin ==
  /\ ~workspace.deleted
  /\ ~writing
  /\ writing' = TRUE
  /\ UNCHANGED <<workspace, rows, elapsed, hold, request, auth, worker, revoked>>

\* ... and commits its insert or delete later, without looking again.
WriteLand ==
  /\ writing
  /\ writing' = FALSE
  /\ \E r \in Rows : rows' \in {rows \union {r}, rows \ {r}}
  /\ UNCHANGED <<workspace, elapsed, hold, request, auth, worker, revoked>>

\* The retention period (30 days) ends.  No tenant request lives that long.
RetentionElapses ==
  /\ workspace.deleted
  /\ ~elapsed
  /\ ~writing
  /\ elapsed' = TRUE
  /\ UNCHANGED <<workspace, rows, writing, hold, request, auth, worker, revoked>>

-----------------------------------------------------------------------------
(* Legal holds.  Both transactions lock the workspace and its marker.      *)

PlaceHold(h) ==
  /\ ~Purged
  /\ hold[h] = "NONE"
  /\ hold' = [hold EXCEPT ![h] = "ACTIVE"]
  /\ UNCHANGED <<workspace, rows, writing, elapsed, request, auth, worker, revoked>>

ReleaseHold(h) ==
  /\ ~Purged
  /\ hold[h] = "ACTIVE"
  /\ hold' = [hold EXCEPT ![h] = "RELEASED"]
  /\ UNCHANGED <<workspace, rows, writing, elapsed, request, auth, worker, revoked>>

-----------------------------------------------------------------------------
(* The request: create, approve, reject, cancel.                           *)

\* The request as it is created: what it would destroy is the manifest.
NewRequest(u) ==
  [status |-> IF RetentionReached THEN "PENDING_APPROVAL" ELSE "PENDING_RETENTION",
   requester |-> u, approver |-> NoUser, invalidated |-> FALSE, unknown |-> FALSE,
   clear |-> ~ActiveHold, manifest |-> rows, doneBy |-> 0]

CreateRequest(u) ==
  LET l == workspace.life IN
    /\ workspace.deleted
    /\ ~Purged
    /\ ~LogoPresent
    /\ request[l].status = "NONE"
    /\ request' = [request EXCEPT ![l] = NewRequest(u)]
    /\ UNCHANGED <<workspace, rows, writing, elapsed, hold, auth, worker, revoked>>

\* Mutant: only the completion of a request is final.
UndecidedUntilCompleted(l) ==
  /\ request[l].status \notin {"NONE", "COMPLETED"}
  /\ ~request[l].invalidated
  /\ ~request[l].unknown

\* The request can still be decided.
Undecided(l) ==
  /\ request[l].status \in PreApproval
  /\ ~request[l].invalidated
  /\ ~request[l].unknown

Approve(u, l) ==
  /\ Undecided(l)
  /\ RetentionReached
  /\ ~Purged
  /\ ProvenanceMatches(l)
  /\ ~LogoPresent
  /\ ~ActiveHold
  /\ ManifestMatches(l)
  /\ request' = [request EXCEPT ![l].status = "APPROVED", ![l].approver = u,
                                ![l].clear = TRUE]
  /\ UNCHANGED <<workspace, rows, writing, elapsed, hold, auth, worker, revoked>>

Reject(u, l) ==
  /\ Undecided(l)
  /\ request[l].requester # u
  /\ request' = [request EXCEPT ![l].status = "REJECTED"]
  /\ UNCHANGED <<workspace, rows, writing, elapsed, hold, auth, worker, revoked>>

Cancel(u, l) ==
  /\ Undecided(l)
  /\ request[l].requester = u
  /\ request' = [request EXCEPT ![l].status = "CANCELLED"]
  /\ UNCHANGED <<workspace, rows, writing, elapsed, hold, auth, worker, revoked>>

-----------------------------------------------------------------------------
(* Re-authentication.  One authorization row per request; a new password   *)
(* check rotates its generation.                                           *)

\* The password check succeeded and the row may be (re)issued.
MayIssue(u, l) ==
  /\ u \in LocalOwners
  /\ ReauthEligible(l)
  /\ auth[l].state \notin Busy \union {"CONSUMED_SUCCESS"}
  /\ auth[l].gen < MaxGenerations

IssuedRow(u, l) ==
  [state |-> "ACTIVE", gen |-> auth[l].gen + 1, actor |-> u, fresh |-> TRUE]

Issue(u, l) ==
  /\ MayIssue(u, l)
  /\ auth' = [auth EXCEPT ![l] = IssuedRow(u, l)]
  /\ UNCHANGED <<workspace, rows, writing, elapsed, hold, request, worker, revoked>>

\* The row is issued but the nonce cannot be stored in the browser session:
\* the handler goes on to revoke what it issued.
IssueUndelivered(w, u, l) ==
  /\ worker[w].step = "idle"
  /\ MayIssue(u, l)
  /\ auth' = [auth EXCEPT ![l] = IssuedRow(u, l)]
  /\ worker' = [worker EXCEPT ![w] =
                  [step |-> "revoke", user |-> u, life |-> l, gen |-> auth'[l].gen]]
  /\ UNCHANGED <<workspace, rows, writing, elapsed, hold, request, revoked>>

\* Five minutes pass.
Expire(l) ==
  /\ auth[l].state = "ACTIVE"
  /\ auth[l].fresh
  /\ auth' = [auth EXCEPT ![l].fresh = FALSE]
  /\ UNCHANGED <<workspace, rows, writing, elapsed, hold, request, worker, revoked>>

\* Mutant: a claimed authorization can be claimed again.
ClaimableTwice(u, l) ==
  ReauthEligible(l) /\ auth[l].actor = u /\ auth[l].state \in Revocable /\ auth[l].fresh

\* The checks of claim_for_execution.
Claimable(u, l) ==
  /\ ReauthEligible(l)
  /\ auth[l].actor = u
  /\ auth[l].state = "ACTIVE"
  /\ auth[l].fresh

\* A handler presents the nonce of the present generation and commits its claim.
Claim(w, u, l) ==
  /\ worker[w].step = "idle"
  /\ Claimable(u, l)
  /\ auth' = [auth EXCEPT ![l].state = "CLAIMED"]
  /\ worker' = [worker EXCEPT ![w] =
                  [step |-> "claimed", user |-> u, life |-> l, gen |-> auth[l].gen]]
  /\ UNCHANGED <<workspace, rows, writing, elapsed, hold, request, revoked>>

\* _revoke_rows over the given requests: ACTIVE and CLAIMED rows become REVOKED.
RevokeRows(ls) ==
  /\ auth' = [l \in Lives |->
       IF l \in ls /\ auth[l].state \in Revocable
         THEN [auth[l] EXCEPT !.state = "REVOKED"] ELSE auth[l]]
  /\ revoked' = revoked \union
       {<<l, auth[l].gen>> : l \in {k \in ls : auth[k].state \in Revocable}}

\* Logout, password change and password reset revoke all the actor holds.
RevokeActor(u) ==
  /\ \E l \in Lives : auth[l].actor = u /\ auth[l].state \in Revocable
  /\ RevokeRows({l \in Lives : auth[l].actor = u})
  /\ UNCHANGED <<workspace, rows, writing, elapsed, hold, request, worker>>

-----------------------------------------------------------------------------
(* The executing handler, after its claim.                                 *)

\* The destructive transaction, as it commits: the service has started, the
\* rows of the manifest are gone, the marker is set, the claim is consumed.
PurgeEffect(w) ==
  LET l == worker[w].life IN
    /\ PreflightPasses(l)
    /\ ClaimStands(w)
    /\ rows' = rows \ request[l].manifest
    /\ workspace' = [workspace EXCEPT !.purgeRequest = l]
    /\ request' = [request EXCEPT ![l].status = "COMPLETED",
                                  ![l].doneBy = worker[w].gen]
    /\ auth' = [auth EXCEPT ![l].state = "CONSUMED_SUCCESS"]

Goto(w, step) == worker' = [worker EXCEPT ![w].step = step]
Finish(w) == worker' = [worker EXCEPT ![w] = Idle]

PurgeCommit(w) ==
  /\ worker[w].step = "claimed"
  /\ PurgeEffect(w)
  /\ Finish(w)
  /\ UNCHANGED <<writing, elapsed, hold, revoked>>

\* The commit took effect, but the handler sees an error instead of the answer.
PurgeCommitUnanswered(w) ==
  /\ worker[w].step = "claimed"
  /\ PurgeEffect(w)
  /\ Goto(w, "reconcile")
  /\ UNCHANGED <<writing, elapsed, hold, revoked>>

\* The commit failed and left no trace; the handler sees the same error.
PurgeCommitLost(w) ==
  /\ worker[w].step = "claimed"
  /\ PreflightPasses(worker[w].life)
  /\ ClaimStands(w)
  /\ Goto(w, "reconcile")
  /\ UNCHANGED <<workspace, rows, writing, elapsed, hold, request, auth, revoked>>

\* A statement failed after the service had started: everything rolls back,
\* and the failure is to be recorded by a transaction of its own.
FailAfterStart(w) ==
  /\ worker[w].step = "claimed"
  /\ PreflightPasses(worker[w].life)
  /\ ClaimStands(w)
  /\ Goto(w, "failure")
  /\ UNCHANGED <<workspace, rows, writing, elapsed, hold, request, auth, revoked>>

\* A check rejected the request: the authorization is to be revoked.
PreflightReject(w) ==
  /\ worker[w].step = "claimed"
  /\ ~PreflightPasses(worker[w].life)
  /\ Goto(w, "revoke")
  /\ UNCHANGED <<workspace, rows, writing, elapsed, hold, request, auth, revoked>>

\* Anything else went wrong before the start, a claim that no longer stands
\* included: the claim is to be parked for manual reconciliation.
FailBeforeStart(w) ==
  /\ worker[w].step = "claimed"
  /\ Goto(w, "unresolved")
  /\ UNCHANGED <<workspace, rows, writing, elapsed, hold, request, auth, revoked>>

\* revoke_authorization_for_request: by request, whatever its generation.
RevokeForRequest(w) ==
  /\ worker[w].step = "revoke"
  /\ RevokeRows({worker[w].life})
  /\ Finish(w)
  /\ UNCHANGED <<workspace, rows, writing, elapsed, hold, request>>

\* mark_claim_unresolved: by authorization id, whatever its generation.
MarkClaimUnresolved(w) ==
  LET l == worker[w].life IN
    /\ worker[w].step = "unresolved"
    /\ IF auth[l].state = "CLAIMED"
         THEN auth' = [auth EXCEPT ![l].state = "CLAIMED_UNRESOLVED"]
         ELSE UNCHANGED auth
    /\ Finish(w)
    /\ UNCHANGED <<workspace, rows, writing, elapsed, hold, request, revoked>>

\* Mutant: the failure is expected on a request that is still EXECUTING.
FailureRecordableWhileExecuting(l) ==
  request[l].status = "EXECUTING" /\ ~request[l].invalidated /\ ~Purged

\* The failure may be recorded: nothing else has happened to the request.
FailureRecordable(l) ==
  /\ request[l].status = "APPROVED"
  /\ ~request[l].invalidated
  /\ ~request[l].unknown
  /\ ~Purged

RecordFailure(w) ==
  LET l == worker[w].life IN
    /\ worker[w].step = "failure"
    /\ IF FailureRecordable(l)
         THEN request' = [request EXCEPT ![l].status = "FAILED"]
         ELSE UNCHANGED request
    /\ Finish(w)
    /\ UNCHANGED <<workspace, rows, writing, elapsed, hold, auth, revoked>>

\* Mutant: the unknown outcome is written as a status of its own.
ReconcileByStatus(w) ==
  /\ worker[w].step = "reconcile"
  /\ IF CompletedByAttempt(w)
       THEN UNCHANGED request
       ELSE request' = [request EXCEPT ![worker[w].life].status = "OUTCOME_UNKNOWN"]
  /\ Finish(w)
  /\ UNCHANGED <<workspace, rows, writing, elapsed, hold, auth, revoked>>

\* The outcome of a commit is looked up; when it is not this attempt's
\* success, the request is frozen for manual reconciliation.
ReconcileCommit(w) ==
  /\ worker[w].step = "reconcile"
  /\ IF CompletedByAttempt(w)
       THEN UNCHANGED request
       ELSE request' = [request EXCEPT ![worker[w].life].unknown = TRUE]
  /\ Finish(w)
  /\ UNCHANGED <<workspace, rows, writing, elapsed, hold, auth, revoked>>

\* The handler's process dies, or the follow-up transaction itself fails.
Crash(w) ==
  /\ CrashAllowed
  /\ worker[w].step # "idle"
  /\ Finish(w)
  /\ UNCHANGED <<workspace, rows, writing, elapsed, hold, request, auth, revoked>>

-----------------------------------------------------------------------------

\* The steps a handler owes once it has claimed: code that runs by itself.
Execute(w) ==
  \/ PurgeCommit(w) \/ PurgeCommitUnanswered(w) \/ PurgeCommitLost(w)
  \/ FailAfterStart(w) \/ PreflightReject(w) \/ FailBeforeStart(w)
  \/ RevokeForRequest(w) \/ MarkClaimUnresolved(w)
  \/ RecordFailure(w) \/ ReconcileCommit(w)

WorkspaceStep == SoftDelete \/ Restore \/ WriteBegin \/ WriteLand \/ RetentionElapses
HoldStep == \E h \in Holds : PlaceHold(h) \/ ReleaseHold(h)
RequestStep ==
  \E u \in Owners :
    \/ CreateRequest(u)
    \/ \E l \in Lives : Approve(u, l) \/ Reject(u, l) \/ Cancel(u, l)
ReauthStep ==
  \/ \E l \in Lives : Expire(l)
  \/ \E u \in Owners :
       \/ RevokeActor(u)
       \/ \E l \in Lives :
            \/ Issue(u, l)
            \/ \E w \in Workers : IssueUndelivered(w, u, l) \/ Claim(w, u, l)
WorkerStepTaken == \E w \in Workers : Execute(w) \/ Crash(w)

Next == WorkspaceStep \/ HoldStep \/ RequestStep \/ ReauthStep \/ WorkerStepTaken

Spec == Init /\ [][Next]_vars

\* A handler that has started runs to its end: Flask runs it synchronously.
FairSpec == Spec /\ \A w \in Workers : WF_vars(Execute(w))

-----------------------------------------------------------------------------
(* What the workflow promises.                                             *)

CompletedIffMarked ==
  \A l \in Lives : (request[l].status = "COMPLETED") <=> (workspace.purgeRequest = l)

\* The workspace is destroyed at most once, by the request of the deletion it
\* is still in, and is never brought back: the marker, the completed request,
\* the present deletion and the consumed claim always tell the same story
\* (execute_workspace_purge against restore_owner_workspace).
SingleDestruction ==
  /\ CompletedIffMarked
  /\ Purged =>
       LET l == workspace.purgeRequest IN
         /\ ProvenanceMatches(l)
         /\ ~request[l].invalidated
         /\ request[l].approver # NoUser
         /\ auth[l].state = "CONSUMED_SUCCESS"
         /\ auth[l].gen = request[l].doneBy

\* Logging out, changing the password, or any other revocation is final: no
\* purge ever commits under an authorization that was revoked, even when the
\* handler had claimed it before (mark_service_started re-reads the row).
RevokedNeverCompletes ==
  \A l \in Lives :
    request[l].status = "COMPLETED" => <<l, request[l].doneBy>> \notin revoked

\* One authorization is claimed by one handler: two browsers that present the
\* same nonce at the same time do not both get past claim_for_execution.
SingleClaimant ==
  \A v, w \in Workers :
    /\ worker[v].step = "claimed"
    /\ worker[w].step = "claimed"
    /\ worker[v].life = worker[w].life
    /\ worker[v].gen = worker[w].gen
    => v = w

\* A purged workspace has no row left, and none appears later: not even the
\* insert of a tenant handler that passed its check before the soft deletion.
PurgedWorkspaceEmpty == Purged => rows = {} /\ ~writing

\* A decided request stays as it was decided: no late handler reopens or
\* overwrites a completed, failed, rejected or cancelled request.
TerminalAbsorbing ==
  [][\A l \in Lives : request[l].status \in Terminal =>
       request'[l].status = request[l].status]_vars

\* Once an outcome is recorded as unknown nothing moves until an operator
\* looks: the request keeps its status and its deletion is not undone.
OutcomeUnknownFreezes ==
  [][\A l \in Lives : request[l].unknown =>
       /\ request'[l].status = request[l].status
       /\ request'[l].unknown
       /\ workspace.life = l /\ workspace.deleted => workspace'.deleted]_vars

\* While nobody dies, a claimed authorization does not stay claimed with the
\* request still executable: the claim is consumed, revoked or parked, or the
\* request is failed, voided or frozen, so an operator never has to guess.
ClaimResolves ==
  \A l \in Lives :
    (auth[l].state = "CLAIMED") ~> (auth[l].state # "CLAIMED" \/ ~ReauthEligible(l))

\* An approval is good only for the deletion and the rows it was given for:
\* as long as a request is executable, the workspace is still in that deletion
\* and its rows are still those of the manifest (approve_request against
\* restores, later deletions and tenant handlers in flight).
ApprovalIsCurrent ==
  \A l \in Lives : ReauthEligible(l) =>
    ProvenanceMatches(l) /\ RetentionReached /\ ManifestMatches(l)

\* Once the retention of the present deletion is over no tenant handler is left
\* that could still write, and a purged workspace is in that situation.
QuietRetention ==
  /\ workspace.deleted => workspace.life \in Lives
  /\ workspace.deleted /\ RetentionReached => ~writing
  /\ Purged => RetentionReached

\* The inductive strengthening of SingleDestruction, PurgedWorkspaceEmpty and
\* ApprovalIsCurrent.
DestructionInv ==
  /\ QuietRetention
  /\ SingleDestruction
  /\ ApprovalIsCurrent
  /\ PurgedWorkspaceEmpty

\* A revoked generation is behind the authorization for good.
RevokedIsPast ==
  \A l \in Lives, g \in Generations : <<l, g>> \in revoked =>
    \/ g < auth[l].gen
    \/ g = auth[l].gen /\ auth[l].state = "REVOKED"

\* A generation that a handler holds a claim on cannot be claimed again.
ClaimIsPast ==
  \A w \in Workers : worker[w].step = "claimed" =>
    LET a == auth[worker[w].life] IN
      \/ worker[w].gen < a.gen
      \/ worker[w].gen = a.gen /\ a.state \notin {"NONE", "ACTIVE"}

\* The inductive strengthening of RevokedNeverCompletes and SingleClaimant.
AuthorizationInv ==
  /\ RevokedIsPast
  /\ RevokedNeverCompletes
  /\ ClaimIsPast
  /\ SingleClaimant

\* The workflow implements PurgePromise.
Promise == INSTANCE PurgePromise WITH
  Content <- SUBSET Rows,
  phase <- IF Purged THEN "destroyed" ELSE IF workspace.deleted THEN "trashed" ELSE "live",
  content <- rows,
  approved <- \E l \in Lives : ReauthEligible(l),
  held <- ActiveHold

KeepsPromise == Promise!Spec
=============================================================================
