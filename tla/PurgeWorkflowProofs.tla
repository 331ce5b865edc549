------------------------ MODULE PurgeWorkflowProofs ------------------------
(***************************************************************************)
(* Proofs about PurgeWorkflow, for any number of owners, handlers, holds,  *)
(* rows, deletions and authorizations.                                     *)
(***************************************************************************)
EXTENDS PurgeWorkflow, TLAPS

USE PurgeConstants DEF Lives, Generations

(***************************************************************************)
(* Type correctness.                                                       *)
(***************************************************************************)
LEMMA TypeInit == Init => TypeOK
<1> SUFFICES ASSUME Init PROVE TypeOK
  OBVIOUS
<1>1. NoRequest \in Request /\ NoAuthorization \in Authorization /\ Idle \in Worker
  BY DEF NoRequest, Request, RequestStatus, NoAuthorization, Authorization,
         AuthorizationState, Idle, Worker, WorkerStep
<1>2. workspace \in Workspace
  BY DEF Init, Workspace
<1> QED
  BY <1>1, <1>2 DEF Init, TypeOK

\* Every update of a request or an authorization that the actions make.
LEMMA RequestUpdates ==
  ASSUME NEW r \in Request
  PROVE  /\ [r EXCEPT !.invalidated = TRUE] \in Request
         /\ [r EXCEPT !.unknown = TRUE] \in Request
         /\ \A st \in RequestStatus : [r EXCEPT !.status = st] \in Request
         /\ \A u \in Owners :
              [r EXCEPT !.status = "APPROVED", !.approver = u, !.clear = TRUE] \in Request
         /\ \A g \in Generations :
              [r EXCEPT !.status = "COMPLETED", !.doneBy = g] \in Request
<1>1. "APPROVED" \in RequestStatus /\ "COMPLETED" \in RequestStatus
  BY DEF RequestStatus, Invalidatable, Terminal
<1>2. [r EXCEPT !.invalidated = TRUE] \in Request
  BY Zenon DEF Request
<1>3. [r EXCEPT !.unknown = TRUE] \in Request
  BY Zenon DEF Request
<1>4. \A st \in RequestStatus : [r EXCEPT !.status = st] \in Request
  BY Zenon DEF Request
<1>5. ASSUME NEW u \in Owners
      PROVE  [r EXCEPT !.status = "APPROVED", !.approver = u, !.clear = TRUE] \in Request
  BY <1>1, ZenonT(60) DEF Request
<1>6. ASSUME NEW g \in Generations
      PROVE  [r EXCEPT !.status = "COMPLETED", !.doneBy = g] \in Request
  BY <1>1, ZenonT(60) DEF Request
<1> QED
  BY <1>2, <1>3, <1>4, <1>5, <1>6

LEMMA AuthUpdates ==
  ASSUME NEW a \in Authorization
  PROVE  /\ [a EXCEPT !.fresh = FALSE] \in Authorization
         /\ \A st \in AuthorizationState : [a EXCEPT !.state = st] \in Authorization
<1>1. [a EXCEPT !.fresh = FALSE] \in Authorization
  BY Zenon DEF Authorization
<1>2. \A st \in AuthorizationState : [a EXCEPT !.state = st] \in Authorization
  BY Zenon DEF Authorization
<1> QED
  BY <1>1, <1>2

\* A well-typed entry keeps the table of requests well-typed.
LEMMA RequestEntry ==
  ASSUME TypeOK, NEW l, NEW r \in Request, request' = [request EXCEPT ![l] = r]
  PROVE  request' \in [Lives -> Request]
  BY DEF TypeOK

LEMMA AuthEntry ==
  ASSUME TypeOK, NEW l, NEW a \in Authorization, auth' = [auth EXCEPT ![l] = a]
  PROVE  auth' \in [Lives -> Authorization]
  BY DEF TypeOK

LEMMA TypeWorkspaceStep == TypeOK /\ WorkspaceStep => TypeOK'
<1> SUFFICES ASSUME TypeOK, WorkspaceStep PROVE TypeOK'
  OBVIOUS
<1> USE DEF TypeOK
<1>1. CASE SoftDelete
  <2>1. workspace.life \in 0..MaxDeletions /\ workspace.life < MaxDeletions
    BY <1>1 DEF SoftDelete, Workspace
  <2>2. workspace.life + 1 \in 0..MaxDeletions
    BY <2>1
  <2>3. workspace' \in Workspace
    BY <1>1, <2>2 DEF SoftDelete, Workspace
  <2> QED
    BY <1>1, <2>3 DEF SoftDelete
<1>2. CASE Restore
  <2>1. workspace' \in Workspace
    BY <1>2 DEF Restore, Workspace
  <2>2. request' \in [Lives -> Request]
    <3> DEFINE l == workspace.life
    <3>1. l \in Lives => [request[l] EXCEPT !.invalidated = TRUE] \in Request
      BY RequestUpdates
    <3>2. CASE l \in Lives
      BY <1>2, <3>1, <3>2 DEF Restore, InvalidateRequest
    <3>3. CASE l \notin Lives
      BY <1>2, <3>3 DEF Restore, InvalidateRequest
    <3> QED
      BY <3>2, <3>3
  <2> QED
    BY <1>2, <2>1, <2>2 DEF Restore
<1>3. CASE WriteBegin
  BY <1>3 DEF WriteBegin
<1>4. CASE WriteLand
  BY <1>4 DEF WriteLand
<1>5. CASE RetentionElapses
  BY <1>5 DEF RetentionElapses
<1> QED
  BY <1>1, <1>2, <1>3, <1>4, <1>5 DEF WorkspaceStep

LEMMA TypeHoldStep == TypeOK /\ HoldStep => TypeOK'
  BY DEF TypeOK, HoldStep, PlaceHold, ReleaseHold

LEMMA TypeRequestStep == TypeOK /\ RequestStep => TypeOK'
<1> SUFFICES ASSUME TypeOK, RequestStep PROVE TypeOK'
  OBVIOUS
<1>1. PICK u \in Owners :
        \/ CreateRequest(u)
        \/ \E l \in Lives : Approve(u, l) \/ Reject(u, l) \/ Cancel(u, l)
  BY DEF RequestStep
<1> SUFFICES request' \in [Lives -> Request]
  BY <1>1 DEF TypeOK, CreateRequest, Approve, Reject, Cancel
<1>2. CASE CreateRequest(u)
  <2>1. NewRequest(u).status \in RequestStatus
    BY DEF NewRequest, RequestStatus, Invalidatable, PreApproval
  <2>2. (~ActiveHold) \in BOOLEAN
    BY Zenon
  <2>3. NewRequest(u) \in Request
    BY <2>1, <2>2 DEF NewRequest, Request, TypeOK
  <2>4. request' = [request EXCEPT ![workspace.life] = NewRequest(u)]
    BY <1>2 DEF CreateRequest
  <2> QED
    BY <2>3, <2>4, RequestEntry
<1>3. ASSUME NEW l \in Lives, Approve(u, l) \/ Reject(u, l) \/ Cancel(u, l)
      PROVE  request' \in [Lives -> Request]
  <2>1. \A st \in Terminal \union {"APPROVED"} :
          [request[l] EXCEPT !.status = st] \in Request
    BY RequestUpdates DEF TypeOK, RequestStatus, Invalidatable
  <2>2. CASE Approve(u, l)
    <3> DEFINE r == [request[l] EXCEPT !.status = "APPROVED", !.approver = u, !.clear = TRUE]
    <3>1. r \in Request
      BY RequestUpdates DEF TypeOK
    <3>2. request' = [request EXCEPT ![l] = r]
      BY <2>2 DEF Approve, TypeOK
    <3> QED
      BY <3>1, <3>2, RequestEntry
  <2>3. CASE Reject(u, l) \/ Cancel(u, l)
    <3>1. PICK st \in Terminal : request' = [request EXCEPT ![l] = [request[l] EXCEPT !.status = st]]
      BY <2>3 DEF Reject, Cancel, Terminal
    <3> QED
      BY <2>1, <3>1, RequestEntry
  <2> QED
    BY <1>3, <2>2, <2>3
<1> QED
  BY <1>1, <1>2, <1>3

LEMMA TypeRevoke ==
  ASSUME TypeOK, NEW ls \in SUBSET Lives, RevokeRows(ls)
  PROVE  auth' \in [Lives -> Authorization] /\ revoked' \in SUBSET (Lives \X Generations)
<1> USE DEF TypeOK
<1>1. \A l \in Lives : [auth[l] EXCEPT !.state = "REVOKED"] \in Authorization
  BY AuthUpdates DEF AuthorizationState
<1>2. \A l \in Lives : auth[l].gen \in Generations
  BY DEF Authorization
<1>3. auth' \in [Lives -> Authorization]
  BY <1>1 DEF RevokeRows
<1>4. \A l \in Lives : <<l, auth[l].gen>> \in Lives \X Generations
  BY <1>2
<1> HIDE DEF Lives, Generations
<1>5. revoked' \subseteq Lives \X Generations
  BY <1>4 DEF RevokeRows
<1> QED
  BY <1>3, <1>5

LEMMA TypeReauthStep == TypeOK /\ ReauthStep => TypeOK'
<1> SUFFICES ASSUME TypeOK, ReauthStep PROVE TypeOK'
  OBVIOUS
<1> USE DEF TypeOK
<1>1. ASSUME NEW l \in Lives, Expire(l) PROVE TypeOK'
  <2>1. auth' = [auth EXCEPT ![l] = [auth[l] EXCEPT !.fresh = FALSE]]
    BY <1>1 DEF Expire
  <2>2. auth' \in [Lives -> Authorization]
    BY <2>1, AuthUpdates, AuthEntry
  <2> QED
    BY <1>1, <2>2 DEF Expire
<1>2. ASSUME NEW u \in Owners, RevokeActor(u) PROVE TypeOK'
  <2>1. {l \in Lives : auth[l].actor = u} \in SUBSET Lives
    OBVIOUS
  <2> QED
    BY <1>2, <2>1, TypeRevoke DEF RevokeActor
<1>3. ASSUME NEW u \in Owners, NEW l \in Lives, MayIssue(u, l) PROVE IssuedRow(u, l) \in Authorization
  <2>1. auth[l].gen + 1 \in Generations
    BY <1>3 DEF MayIssue, Authorization
  <2> QED
    BY <2>1 DEF IssuedRow, Authorization, AuthorizationState
<1>4. ASSUME NEW u \in Owners, NEW l \in Lives, Issue(u, l) PROVE TypeOK'
  <2>1. auth' \in [Lives -> Authorization]
    BY <1>3, <1>4, AuthEntry DEF Issue
  <2> QED
    BY <1>4, <2>1 DEF Issue
<1>5. ASSUME NEW u \in Owners, NEW l \in Lives, NEW w \in Workers, IssueUndelivered(w, u, l)
      PROVE  TypeOK'
  <2>1. auth' \in [Lives -> Authorization]
    BY <1>3, <1>5, AuthEntry DEF IssueUndelivered
  <2>2. auth'[l].gen \in Generations
    BY <2>1 DEF Authorization
  <2>3. [step |-> "revoke", user |-> u, life |-> l, gen |-> auth'[l].gen] \in Worker
    BY <2>2 DEF Worker, WorkerStep
  <2>4. worker' \in [Workers -> Worker]
    BY <1>5, <2>3 DEF IssueUndelivered
  <2> QED
    BY <1>5, <2>1, <2>4 DEF IssueUndelivered
<1>6. ASSUME NEW u \in Owners, NEW l \in Lives, NEW w \in Workers, Claim(w, u, l)
      PROVE  TypeOK'
  <2>1. auth' = [auth EXCEPT ![l] = [auth[l] EXCEPT !.state = "CLAIMED"]]
    BY <1>6 DEF Claim
  <2>2. [auth[l] EXCEPT !.state = "CLAIMED"] \in Authorization
    BY AuthUpdates DEF AuthorizationState
  <2>3. auth' \in [Lives -> Authorization]
    BY <2>1, <2>2, AuthEntry
  <2>4. [step |-> "claimed", user |-> u, life |-> l, gen |-> auth[l].gen] \in Worker
    BY DEF Worker, WorkerStep, Authorization
  <2>5. worker' \in [Workers -> Worker]
    BY <1>6, <2>4 DEF Claim
  <2> QED
    BY <1>6, <2>3, <2>5 DEF Claim
<1> QED
  BY <1>1, <1>2, <1>4, <1>5, <1>6 DEF ReauthStep

LEMMA TypeWorkerStep == TypeOK /\ WorkerStepTaken => TypeOK'
<1> SUFFICES ASSUME TypeOK, NEW w \in Workers, Execute(w) \/ Crash(w) PROVE TypeOK'
  BY DEF WorkerStepTaken
<1> USE DEF TypeOK
<1> DEFINE l == worker[w].life
<1>a. /\ worker[w] \in [step : WorkerStep, user : Owners, life : Lives, gen : Generations]
      /\ l \in Lives
  <2>1. worker[w].step # "idle"
    BY DEF Execute, Crash, PurgeCommit, PurgeCommitUnanswered, PurgeCommitLost,
           FailAfterStart, PreflightReject, FailBeforeStart, RevokeForRequest,
           MarkClaimUnresolved, RecordFailure, ReconcileCommit
  <2> QED
    BY <2>1 DEF Worker, Idle
<1>1. Idle \in Worker
  BY DEF Worker
<1>2. Finish(w) => worker' \in [Workers -> Worker]
  BY <1>1 DEF Finish
<1>3. ASSUME NEW s \in WorkerStep, Goto(w, s) PROVE worker' \in [Workers -> Worker]
  <2>1. [worker[w] EXCEPT !.step = s] \in Worker
    BY <1>a DEF Worker
  <2> QED
    BY <1>3, <2>1 DEF Goto
<1>4. {"revoke", "unresolved", "failure", "reconcile"} \subseteq WorkerStep
  BY DEF WorkerStep
<1>5. ASSUME PurgeEffect(w)
      PROVE  /\ workspace' \in Workspace
             /\ rows' \in SUBSET Rows
             /\ request' \in [Lives -> Request]
             /\ auth' \in [Lives -> Authorization]
  <2>1. l \in Lives
    BY <1>a
  <2>2. rows' \in SUBSET Rows
    BY <1>5 DEF PurgeEffect
  <2>3. workspace' \in Workspace
    <3>1. workspace' = [workspace EXCEPT !.purgeRequest = l]
      BY <1>5 DEF PurgeEffect
    <3>2. l \in 0..MaxDeletions
      BY <2>1
    <3> HIDE DEF l
    <3> QED
      BY <3>1, <3>2 DEF Workspace
  <2>4. request' = [request EXCEPT ![l] = [request[l] EXCEPT !.status = "COMPLETED",
                                                             !.doneBy = worker[w].gen]]
    BY <1>5, <2>1 DEF PurgeEffect
  <2>5. worker[w].gen \in Generations
    BY <1>a
  <2>6. request' \in [Lives -> Request]
    <3>1. [request[l] EXCEPT !.status = "COMPLETED", !.doneBy = worker[w].gen] \in Request
      BY <2>1, <2>5, RequestUpdates
    <3> QED
      BY <2>4, <3>1, RequestEntry
  <2>7. auth' = [auth EXCEPT ![l] = [auth[l] EXCEPT !.state = "CONSUMED_SUCCESS"]]
    BY <1>5 DEF PurgeEffect
  <2>8. [auth[l] EXCEPT !.state = "CONSUMED_SUCCESS"] \in Authorization
    BY <2>1, AuthUpdates DEF AuthorizationState
  <2> QED
    BY <2>2, <2>3, <2>6, <2>7, <2>8, AuthEntry
<1>6. CASE PurgeCommit(w)
  BY <1>2, <1>5, <1>6 DEF PurgeCommit
<1>7. CASE PurgeCommitUnanswered(w)
  BY <1>3, <1>4, <1>5, <1>7 DEF PurgeCommitUnanswered
<1>8. CASE PurgeCommitLost(w) \/ FailAfterStart(w) \/ PreflightReject(w) \/ FailBeforeStart(w)
  BY <1>3, <1>4, <1>8 DEF PurgeCommitLost, FailAfterStart, PreflightReject, FailBeforeStart
<1>9. CASE RevokeForRequest(w)
  <2>1. {l} \in SUBSET Lives
    BY <1>a
  <2> QED
    BY <1>2, <1>9, <2>1, TypeRevoke DEF RevokeForRequest
<1>10. CASE MarkClaimUnresolved(w)
  <2>1. [auth[l] EXCEPT !.state = "CLAIMED_UNRESOLVED"] \in Authorization
    BY <1>a, AuthUpdates DEF AuthorizationState
  <2>2. auth' \in [Lives -> Authorization]
    BY <1>10, <2>1 DEF MarkClaimUnresolved
  <2> QED
    BY <1>2, <1>10, <2>2 DEF MarkClaimUnresolved
<1>11. CASE RecordFailure(w)
  <2>1. [request[l] EXCEPT !.status = "FAILED"] \in Request
    BY <1>a, RequestUpdates DEF RequestStatus, Terminal
  <2>2. request' \in [Lives -> Request]
    BY <1>11, <2>1 DEF RecordFailure
  <2> QED
    BY <1>2, <1>11, <2>2 DEF RecordFailure
<1>12. CASE ReconcileCommit(w)
  <2>1. [request[l] EXCEPT !.unknown = TRUE] \in Request
    BY <1>a, RequestUpdates
  <2>2. request' \in [Lives -> Request]
    BY <1>12, <2>1 DEF ReconcileCommit
  <2> QED
    BY <1>2, <1>12, <2>2 DEF ReconcileCommit
<1>13. CASE Crash(w)
  BY <1>2, <1>13 DEF Crash
<1> QED
  BY <1>6, <1>7, <1>8, <1>9, <1>10, <1>11, <1>12, <1>13 DEF Execute

\* Every variable keeps its type (TypeOK).
THEOREM TypeCorrect == Spec => []TypeOK
<1>1. TypeOK /\ [Next]_vars => TypeOK'
  <2> SUFFICES ASSUME TypeOK, [Next]_vars PROVE TypeOK'
    OBVIOUS
  <2>1. CASE Next
    BY <2>1, TypeWorkspaceStep, TypeHoldStep, TypeRequestStep, TypeReauthStep, TypeWorkerStep
       DEF Next
  <2>2. CASE UNCHANGED vars
    BY <2>2 DEF vars, TypeOK
  <2> QED
    BY <2>1, <2>2
<1> QED
  BY TypeInit, <1>1, PTL DEF Spec

-----------------------------------------------------------------------------
(***************************************************************************)
(* The destruction.  The deletion, the marker, the rows and the requests   *)
(* are related by DestructionInv; the two lemmas that follow reduce every  *)
(* action that leaves the workspace alone to what it does to one entry.    *)
(***************************************************************************)
LEMMA DestructionInit == Init => DestructionInv
  BY DEF Init, DestructionInv, QuietRetention, SingleDestruction, CompletedIffMarked,
         ApprovalIsCurrent, PurgedWorkspaceEmpty, Purged, ReauthEligible, NoRequest

LEMMA RequestChange ==
  ASSUME DestructionInv,
         UNCHANGED <<workspace, rows, writing, elapsed, auth>>,
         \A l \in Lives :
           /\ (request'[l].status = "COMPLETED") <=> (request[l].status = "COMPLETED")
           /\ request[l].status = "COMPLETED" =>
                /\ request'[l].invalidated = request[l].invalidated
                /\ request'[l].approver = request[l].approver
                /\ request'[l].doneBy = request[l].doneBy
           /\ ReauthEligible(l)' =>
                /\ ProvenanceMatches(l)
                /\ RetentionReached
                /\ request'[l].manifest = rows
  PROVE  DestructionInv'
<1>1. QuietRetention'
  BY DEF DestructionInv, QuietRetention, RetentionReached, Purged
<1>2. CompletedIffMarked'
  BY DEF DestructionInv, SingleDestruction, CompletedIffMarked
<1>3. SingleDestruction'
  BY <1>2 DEF DestructionInv, SingleDestruction, CompletedIffMarked, Purged,
              ProvenanceMatches, QuietRetention
<1>4. ApprovalIsCurrent'
  BY DEF ApprovalIsCurrent, ProvenanceMatches, RetentionReached, ManifestMatches
<1>5. PurgedWorkspaceEmpty'
  BY DEF DestructionInv, PurgedWorkspaceEmpty, Purged
<1> QED
  BY <1>1, <1>3, <1>4, <1>5 DEF DestructionInv

LEMMA AuthChange ==
  ASSUME DestructionInv,
         UNCHANGED <<workspace, rows, writing, elapsed, request>>,
         \A l \in Lives : auth[l].state = "CONSUMED_SUCCESS" => auth'[l] = auth[l]
  PROVE  DestructionInv'
<1>1. SingleDestruction'
  BY DEF DestructionInv, SingleDestruction, CompletedIffMarked, Purged,
         ProvenanceMatches, QuietRetention
<1> QED
  BY <1>1 DEF DestructionInv, QuietRetention, ApprovalIsCurrent, PurgedWorkspaceEmpty,
              RetentionReached, Purged, ReauthEligible, ProvenanceMatches, ManifestMatches

LEMMA DestructionWorkspaceStep ==
  TypeOK /\ DestructionInv /\ WorkspaceStep => DestructionInv'
<1> SUFFICES ASSUME TypeOK, DestructionInv, WorkspaceStep PROVE DestructionInv'
  OBVIOUS
<1> USE DEF DestructionInv, QuietRetention, SingleDestruction, CompletedIffMarked,
            ApprovalIsCurrent, PurgedWorkspaceEmpty, Purged, RetentionReached,
            ProvenanceMatches, ManifestMatches, ReauthEligible
<1>1. workspace \in Workspace /\ request \in [Lives -> Request]
  BY DEF TypeOK
<1>2. CASE SoftDelete
  \* A live workspace is neither purged nor approved for purge.
  <2>1. ~Purged /\ ~Purged' /\ \A l \in Lives : ~ReauthEligible(l)
    BY <1>1, <1>2 DEF SoftDelete, Workspace
  <2>2. workspace'.life \in Lives /\ elapsed' = FALSE
    BY <1>1, <1>2 DEF SoftDelete, Workspace
  <2> QED
    BY <1>1, <1>2, <2>1, <2>2 DEF SoftDelete, Workspace
<1>3. CASE Restore
  <2> DEFINE k == workspace.life
  <2>1. k \in Lives /\ ~Purged /\ workspace'.purgeRequest = workspace.purgeRequest
    BY <1>1, <1>3 DEF Restore, Restorable, Workspace
  <2>2. ~workspace'.deleted
    BY <1>1, <1>3 DEF Restore, Workspace
  <2>3. \A l \in Lives : l # k => request'[l] = request[l]
    BY <1>1, <1>3 DEF Restore, InvalidateRequest
  <2>4. CASE request[k].status \in Invalidatable /\ ~request[k].unknown
    <3>1. request' = [request EXCEPT ![k].invalidated = TRUE]
      BY <1>3, <2>4 DEF Restore, InvalidateRequest
    <3>2. request'[k].invalidated /\ request'[k].status = request[k].status
      BY <1>1, <2>1, <3>1 DEF Request
    <3> QED
      BY <1>1, <1>3, <2>1, <2>3, <2>2, <3>2 DEF Restore
  <2>5. CASE ~(request[k].status \in Invalidatable /\ ~request[k].unknown)
    <3>1. request' = request
      BY <1>3, <2>5 DEF Restore, InvalidateRequest
    <3>2. ~ReauthEligible(k)
      BY <2>5 DEF Invalidatable
    <3> QED
      BY <1>1, <1>3, <2>1, <2>2, <3>1, <3>2 DEF Restore
  <2> QED
    BY <2>4, <2>5
<1>4. CASE WriteBegin
  BY <1>1, <1>4 DEF WriteBegin
<1>5. CASE WriteLand
  <2>1. ~Purged /\ \A l \in Lives : ~ReauthEligible(l)
    BY <1>1, <1>5 DEF WriteLand
  <2> QED
    BY <1>1, <1>5, <2>1 DEF WriteLand
<1>6. CASE RetentionElapses
  BY <1>1, <1>6 DEF RetentionElapses
<1> QED
  BY <1>2, <1>3, <1>4, <1>5, <1>6 DEF WorkspaceStep

LEMMA DestructionHoldStep == TypeOK /\ DestructionInv /\ HoldStep => DestructionInv'
<1> SUFFICES ASSUME TypeOK, DestructionInv, HoldStep PROVE DestructionInv'
  OBVIOUS
<1>1. UNCHANGED <<workspace, rows, writing, elapsed, request, auth>>
  BY DEF HoldStep, PlaceHold, ReleaseHold
<1> QED
  BY <1>1, AuthChange

LEMMA DestructionRequestStep == TypeOK /\ DestructionInv /\ RequestStep => DestructionInv'
<1> SUFFICES ASSUME TypeOK, DestructionInv, RequestStep PROVE DestructionInv'
  OBVIOUS
<1>1. PICK u \in Owners :
        \/ CreateRequest(u)
        \/ \E l \in Lives : Approve(u, l) \/ Reject(u, l) \/ Cancel(u, l)
  BY DEF RequestStep
<1>2. UNCHANGED <<workspace, rows, writing, elapsed, auth>>
  BY <1>1 DEF CreateRequest, Approve, Reject, Cancel
<1>3. request \in [Lives -> Request]
  BY DEF TypeOK
<1>4. \A l \in Lives : ReauthEligible(l) =>
        ProvenanceMatches(l) /\ RetentionReached /\ request[l].manifest = rows
  BY DEF DestructionInv, ApprovalIsCurrent, ManifestMatches
<1>5. CASE CreateRequest(u)
  <2> DEFINE k == workspace.life
  <2>1. request' = [request EXCEPT ![k] = NewRequest(u)] /\ request[k].status = "NONE"
    BY <1>5 DEF CreateRequest
  <2>2. NewRequest(u).status \in PreApproval
    BY DEF NewRequest, PreApproval
  <2> QED
    BY <1>2, <1>3, <1>4, <2>1, <2>2, RequestChange DEF PreApproval, ReauthEligible
<1>6. ASSUME NEW k \in Lives, Approve(u, k) PROVE DestructionInv'
  <2>1. /\ request[k].status # "COMPLETED"
        /\ request'[k].status = "APPROVED"
        /\ request'[k].manifest = request[k].manifest
        /\ \A l \in Lives : l # k => request'[l] = request[l]
    BY <1>3, <1>6 DEF Approve, Undecided, PreApproval, Request
  <2>2. ProvenanceMatches(k) /\ RetentionReached /\ request[k].manifest = rows
    BY <1>6 DEF Approve, ManifestMatches
  <2> QED
    BY <1>2, <1>4, <2>1, <2>2, RequestChange DEF ReauthEligible
<1>7. ASSUME NEW k \in Lives, Reject(u, k) \/ Cancel(u, k) PROVE DestructionInv'
  <2>1. /\ request[k].status # "COMPLETED"
        /\ request'[k].status \notin {"APPROVED", "COMPLETED"}
        /\ \A l \in Lives : l # k => request'[l] = request[l]
    BY <1>3, <1>7 DEF Reject, Cancel, Undecided, PreApproval, Request
  <2> QED
    BY <1>2, <1>4, <2>1, RequestChange DEF ReauthEligible
<1> QED
  BY <1>1, <1>5, <1>6, <1>7

LEMMA DestructionReauthStep == TypeOK /\ DestructionInv /\ ReauthStep => DestructionInv'
<1> SUFFICES ASSUME TypeOK, DestructionInv, ReauthStep PROVE DestructionInv'
  OBVIOUS
<1>1. UNCHANGED <<workspace, rows, writing, elapsed, request>>
  BY DEF ReauthStep, Expire, RevokeActor, Issue, IssueUndelivered, Claim
<1>2. auth \in [Lives -> Authorization]
  BY DEF TypeOK
<1>3. \A l \in Lives : auth[l].state = "CONSUMED_SUCCESS" => auth'[l] = auth[l]
  <2>1. ASSUME NEW l \in Lives, Expire(l)
        PROVE  \A k \in Lives : auth[k].state = "CONSUMED_SUCCESS" => auth'[k] = auth[k]
    BY <1>2, <2>1 DEF Expire
  <2>2. ASSUME NEW u \in Owners, RevokeActor(u)
        PROVE  \A k \in Lives : auth[k].state = "CONSUMED_SUCCESS" => auth'[k] = auth[k]
    BY <2>2 DEF RevokeActor, RevokeRows, Revocable
  <2>3. ASSUME NEW u \in Owners, NEW l \in Lives, NEW w \in Workers,
               Issue(u, l) \/ IssueUndelivered(w, u, l) \/ Claim(w, u, l)
        PROVE  \A k \in Lives : auth[k].state = "CONSUMED_SUCCESS" => auth'[k] = auth[k]
    BY <1>2, <2>3 DEF Issue, IssueUndelivered, Claim, MayIssue, Claimable
  <2>4. ASSUME NEW u \in Owners, NEW l \in Lives, Issue(u, l)
        PROVE  \A k \in Lives : auth[k].state = "CONSUMED_SUCCESS" => auth'[k] = auth[k]
    BY <1>2, <2>4 DEF Issue, MayIssue
  <2> QED
    BY <2>1, <2>2, <2>3, <2>4 DEF ReauthStep
<1> QED
  BY <1>1, <1>3, AuthChange

LEMMA DestructionWorkerStep ==
  ASSUME TypeOK, DestructionInv, NEW w \in Workers, Execute(w) \/ Crash(w)
  PROVE  DestructionInv'
<1> DEFINE k == worker[w].life
<1>1. request \in [Lives -> Request] /\ auth \in [Lives -> Authorization] /\ workspace \in Workspace
  BY DEF TypeOK
<1>2. k \in Lives
  <2>1. worker[w].step # "idle"
    BY DEF Execute, Crash, PurgeCommit, PurgeCommitUnanswered, PurgeCommitLost,
           FailAfterStart, PreflightReject, FailBeforeStart, RevokeForRequest,
           MarkClaimUnresolved, RecordFailure, ReconcileCommit
  <2> QED
    BY <2>1 DEF TypeOK, Worker, Idle
<1>3. \A l \in Lives : ReauthEligible(l) =>
        ProvenanceMatches(l) /\ RetentionReached /\ request[l].manifest = rows
  BY DEF DestructionInv, ApprovalIsCurrent, ManifestMatches
<1>4. ASSUME PurgeEffect(w), UNCHANGED <<writing, elapsed>> PROVE DestructionInv'
  <2>1. /\ ~Purged
        /\ ReauthEligible(k)
        /\ ProvenanceMatches(k)
        /\ RetentionReached
        /\ request[k].manifest = rows
        /\ request[k].approver # NoUser
        /\ auth[k].gen = worker[w].gen
    BY <1>4 DEF PurgeEffect, PreflightPasses, ReauthEligible, ManifestMatches, ClaimStands
  <2>2. /\ rows' = {}
        /\ workspace' = [workspace EXCEPT !.purgeRequest = k]
        /\ UNCHANGED <<writing, elapsed>>
    BY <1>4, <2>1 DEF PurgeEffect
  <2>3. /\ request'[k].status = "COMPLETED"
        /\ request'[k].doneBy = worker[w].gen
        /\ request'[k].invalidated = request[k].invalidated
        /\ request'[k].approver = request[k].approver
        /\ \A l \in Lives : l # k => request'[l] = request[l]
    BY <1>1, <1>2, <1>4 DEF PurgeEffect, Request
  <2>4. auth'[k].state = "CONSUMED_SUCCESS" /\ auth'[k].gen = auth[k].gen
    BY <1>1, <1>2, <1>4 DEF PurgeEffect, Authorization
  <2>5. /\ workspace'.purgeRequest = k /\ workspace'.life = workspace.life
        /\ workspace'.deleted = workspace.deleted
    BY <1>1, <2>2 DEF Workspace
  \* No request is completed yet, and only this one is executable.
  <2>6. \A l \in Lives : request[l].status # "COMPLETED" /\ (ReauthEligible(l) => l = k)
    BY <1>2, <1>3, <2>1 DEF DestructionInv, SingleDestruction, CompletedIffMarked, Purged,
                            ProvenanceMatches
  <2>7. QuietRetention'
    BY <2>1, <2>2, <2>5 DEF DestructionInv, QuietRetention, RetentionReached, Purged
  <2>8. SingleDestruction'
    <3>1. CompletedIffMarked'
      BY <2>3, <2>5, <2>6 DEF CompletedIffMarked
    <3>2. workspace'.deleted /\ workspace'.life = k /\ ~request'[k].invalidated
      BY <2>1, <2>3, <2>5 DEF ProvenanceMatches, ReauthEligible
    <3> QED
      BY <2>1, <2>3, <2>4, <2>5, <3>1, <3>2 DEF SingleDestruction, ProvenanceMatches
  <2>9. ApprovalIsCurrent'
    BY <2>3, <2>6 DEF ApprovalIsCurrent, ReauthEligible
  <2>10. PurgedWorkspaceEmpty'
    BY <2>1, <2>2 DEF DestructionInv, QuietRetention, PurgedWorkspaceEmpty, ProvenanceMatches
  <2> QED
    BY <2>7, <2>8, <2>9, <2>10 DEF DestructionInv
<1>5. CASE PurgeCommit(w) \/ PurgeCommitUnanswered(w)
  BY <1>4, <1>5 DEF PurgeCommit, PurgeCommitUnanswered
<1>6. CASE \/ PurgeCommitLost(w) \/ FailAfterStart(w) \/ PreflightReject(w)
           \/ FailBeforeStart(w) \/ Crash(w)
  BY <1>6, AuthChange
     DEF PurgeCommitLost, FailAfterStart, PreflightReject, FailBeforeStart, Crash
<1>7. CASE RevokeForRequest(w) \/ MarkClaimUnresolved(w)
  <2>1. UNCHANGED <<workspace, rows, writing, elapsed, request>>
    BY <1>7 DEF RevokeForRequest, MarkClaimUnresolved
  <2>2. \A l \in Lives : auth[l].state = "CONSUMED_SUCCESS" => auth'[l] = auth[l]
    BY <1>1, <1>7 DEF RevokeForRequest, MarkClaimUnresolved, RevokeRows, Revocable
  <2> QED
    BY <2>1, <2>2, AuthChange
<1>8. CASE RecordFailure(w)
  <2>1. CASE FailureRecordable(k)
    <3>1. /\ request[k].status = "APPROVED"
          /\ request'[k].status = "FAILED"
          /\ \A l \in Lives : l # k => request'[l] = request[l]
      BY <1>1, <1>2, <1>8, <2>1 DEF RecordFailure, FailureRecordable, Request
    <3> QED
      BY <1>3, <1>8, <3>1, RequestChange DEF RecordFailure, ReauthEligible
  <2>2. CASE ~FailureRecordable(k)
    BY <1>8, <2>2, AuthChange DEF RecordFailure
  <2> QED
    BY <2>1, <2>2
<1>9. CASE ReconcileCommit(w)
  <2>1. CASE CompletedByAttempt(w)
    BY <1>9, <2>1, AuthChange DEF ReconcileCommit
  <2>2. CASE ~CompletedByAttempt(w)
    <3>1. /\ request'[k].unknown
          /\ request'[k].status = request[k].status
          /\ request'[k].invalidated = request[k].invalidated
          /\ request'[k].approver = request[k].approver
          /\ request'[k].doneBy = request[k].doneBy
          /\ \A l \in Lives : l # k => request'[l] = request[l]
      BY <1>1, <1>2, <1>9, <2>2 DEF ReconcileCommit, Request
    <3> QED
      BY <1>3, <1>9, <3>1, RequestChange DEF ReconcileCommit, ReauthEligible
  <2> QED
    BY <2>1, <2>2
<1> QED
  BY <1>5, <1>6, <1>7, <1>8, <1>9 DEF Execute

LEMMA DestructionInductive == TypeOK /\ DestructionInv /\ [Next]_vars => DestructionInv'
<1> SUFFICES ASSUME TypeOK, DestructionInv, [Next]_vars PROVE DestructionInv'
  OBVIOUS
<1>1. CASE Next
  BY <1>1, DestructionWorkspaceStep, DestructionHoldStep, DestructionRequestStep,
     DestructionReauthStep, DestructionWorkerStep DEF Next, WorkerStepTaken
<1>2. CASE UNCHANGED vars
  BY <1>2, AuthChange DEF vars
<1> QED
  BY <1>1, <1>2

LEMMA DestructionInvariant == Spec => []DestructionInv
  BY DestructionInit, DestructionInductive, TypeCorrect, PTL DEF Spec

\* The marker, the completed request, the deletion and the consumed claim agree
\* for ever (execute_workspace_purge against restore_owner_workspace).
THEOREM DestroyedOnce == Spec => []SingleDestruction
  BY DestructionInvariant, PTL DEF DestructionInv

\* An executable request is one for the present deletion and the present rows
\* (approve_purge_request against restores and tenant writes).
THEOREM ApprovalStaysCurrent == Spec => []ApprovalIsCurrent
  BY DestructionInvariant, PTL DEF DestructionInv

\* A purged workspace is empty and stays so (_delete_exact_rows against tenant
\* handlers in flight).
THEOREM PurgedStaysEmpty == Spec => []PurgedWorkspaceEmpty
  BY DestructionInvariant, PTL DEF DestructionInv

-----------------------------------------------------------------------------
(***************************************************************************)
(* The refinement of PurgePromise.  An executable request is for the       *)
(* present deletion, so at most one exists and a restore voids it.         *)
(***************************************************************************)
Approved == \E l \in Lives : ReauthEligible(l)

LEMMA PromiseStutter ==
  ASSUME UNCHANGED <<workspace, rows>>, Approved' <=> Approved, ActiveHold' <=> ActiveHold
  PROVE  UNCHANGED Promise!vars
  BY DEF Promise!vars, Purged, Approved

LEMMA PromiseInit == Init => Promise!Init
<1> SUFFICES ASSUME Init PROVE Promise!Init
  OBVIOUS
<1>1. ~Approved /\ ~ActiveHold
  BY DEF Init, Approved, ReauthEligible, NoRequest, ActiveHold
<1> QED
  BY <1>1 DEF Init, Promise!Init, Purged, Approved

LEMMA PromiseWorkspaceStep ==
  ASSUME TypeOK, DestructionInv, WorkspaceStep
  PROVE  [Promise!Next]_(Promise!vars)
<1>1. workspace \in Workspace /\ request \in [Lives -> Request] /\ rows \in SUBSET Rows
  BY DEF TypeOK
<1>2. /\ ~workspace.deleted => ~Purged /\ ~Approved
      /\ \A l \in Lives : ReauthEligible(l) => ProvenanceMatches(l) /\ RetentionReached
      /\ writing => ~Purged /\ ~Approved
  BY DEF DestructionInv, SingleDestruction, ApprovalIsCurrent, QuietRetention,
         ProvenanceMatches, Approved
<1>3. ActiveHold' <=> ActiveHold
  BY DEF WorkspaceStep, SoftDelete, Restore, WriteBegin, WriteLand, RetentionElapses, ActiveHold
<1>4. CASE SoftDelete
  <2>1. /\ ~workspace.deleted /\ workspace'.deleted /\ rows' = rows
        /\ workspace'.purgeRequest = workspace.purgeRequest
    BY <1>1, <1>4 DEF SoftDelete, Workspace
  <2>2. ~Approved /\ ~Approved'
    BY <1>2, <1>4 DEF SoftDelete, Approved, ReauthEligible
  <2>3. Promise!Trash
    BY <1>2, <1>3, <2>1, <2>2 DEF Promise!Trash, Purged, Approved
  <2> QED
    BY <2>3 DEF Promise!Next
<1>5. CASE Restore
  <2>1. /\ workspace.deleted /\ ~workspace'.deleted /\ rows' = rows /\ ~Purged
        /\ workspace'.purgeRequest = workspace.purgeRequest
    BY <1>1, <1>5 DEF Restore, Restorable, Workspace
  <2>2. ~Approved'
    <3>1. DestructionInv'
      BY <1>5, DestructionWorkspaceStep DEF WorkspaceStep
    <3> QED
      BY <2>1, <3>1 DEF DestructionInv, ApprovalIsCurrent, ProvenanceMatches, Approved
  <2>3. Promise!Restore
    BY <1>3, <2>1, <2>2 DEF Promise!Restore, Purged, Approved
  <2> QED
    BY <2>3 DEF Promise!Next
<1>6. CASE WriteBegin \/ RetentionElapses
  <2>1. UNCHANGED <<workspace, rows>> /\ (Approved' <=> Approved)
    BY <1>6 DEF WriteBegin, RetentionElapses, Approved, ReauthEligible
  <2> QED
    BY <1>3, <2>1, PromiseStutter
<1>7. CASE WriteLand
  <2>1. ~Purged /\ ~Approved
    BY <1>2, <1>7 DEF WriteLand
  <2>2. workspace' = workspace /\ ~Approved' /\ rows' \in SUBSET Rows
    BY <1>1, <1>7, <2>1 DEF WriteLand, Approved, ReauthEligible
  <2>3. Promise!Change
    BY <1>3, <2>1, <2>2 DEF Promise!Change, Purged, Approved
  <2> QED
    BY <2>3 DEF Promise!Next
<1> QED
  BY <1>4, <1>5, <1>6, <1>7 DEF WorkspaceStep

LEMMA PromiseHoldStep == HoldStep => [Promise!Next]_(Promise!vars)
<1> SUFFICES ASSUME HoldStep PROVE [Promise!Next]_(Promise!vars)
  OBVIOUS
<1>1. UNCHANGED <<workspace, rows, request>> /\ ~Purged
  BY DEF HoldStep, PlaceHold, ReleaseHold
<1>2. Approved' <=> Approved
  BY <1>1 DEF Approved, ReauthEligible
<1>3. CASE ActiveHold' <=> ActiveHold
  BY <1>1, <1>2, <1>3, PromiseStutter
<1>4. CASE ActiveHold' <=> ~ActiveHold
  <2>1. Promise!Hold
    BY <1>1, <1>2, <1>4 DEF Promise!Hold, Purged, Approved
  <2> QED
    BY <2>1 DEF Promise!Next
<1> QED
  BY <1>3, <1>4

LEMMA PromiseRequestStep ==
  ASSUME TypeOK, DestructionInv, RequestStep
  PROVE  [Promise!Next]_(Promise!vars)
<1>1. PICK u \in Owners :
        \/ CreateRequest(u)
        \/ \E l \in Lives : Approve(u, l) \/ Reject(u, l) \/ Cancel(u, l)
  BY DEF RequestStep
<1>2. request \in [Lives -> Request]
  BY DEF TypeOK
<1>3. UNCHANGED <<workspace, rows>> /\ (ActiveHold' <=> ActiveHold)
  BY <1>1 DEF CreateRequest, Approve, Reject, Cancel, ActiveHold
<1>4. CASE CreateRequest(u)
  <2>1. request' = [request EXCEPT ![workspace.life] = NewRequest(u)]
        /\ request[workspace.life].status = "NONE"
    BY <1>4 DEF CreateRequest
  <2>2. NewRequest(u).status # "APPROVED"
    BY DEF NewRequest
  <2>3. Approved' <=> Approved
    BY <1>2, <2>1, <2>2 DEF Approved, ReauthEligible
  <2> QED
    BY <1>3, <2>3, PromiseStutter
<1>5. ASSUME NEW k \in Lives, Approve(u, k) PROVE [Promise!Next]_(Promise!vars)
  <2>1. workspace.deleted /\ ~Purged /\ ~ActiveHold
    BY <1>5 DEF Approve, ProvenanceMatches
  <2>2. Approved'
    BY <1>2, <1>5 DEF Approve, Undecided, Approved, ReauthEligible, Request
  <2>3. Promise!Approve
    BY <1>3, <2>1, <2>2 DEF Promise!Approve, Purged, Approved
  <2> QED
    BY <2>3 DEF Promise!Next
<1>6. ASSUME NEW k \in Lives, Reject(u, k) \/ Cancel(u, k) PROVE [Promise!Next]_(Promise!vars)
  <2>1. /\ request[k].status # "APPROVED"
        /\ request'[k].status # "APPROVED"
        /\ \A l \in Lives : l # k => request'[l] = request[l]
    BY <1>2, <1>6 DEF Reject, Cancel, Undecided, PreApproval, Request
  <2>2. Approved' <=> Approved
    BY <2>1 DEF Approved, ReauthEligible
  <2> QED
    BY <1>3, <2>2, PromiseStutter
<1> QED
  BY <1>1, <1>4, <1>5, <1>6

LEMMA PromiseReauthStep == ReauthStep => [Promise!Next]_(Promise!vars)
<1> SUFFICES ASSUME ReauthStep PROVE [Promise!Next]_(Promise!vars)
  OBVIOUS
<1>1. UNCHANGED <<workspace, rows, request, hold>>
  BY DEF ReauthStep, Expire, RevokeActor, Issue, IssueUndelivered, Claim
<1> QED
  BY <1>1, PromiseStutter DEF Approved, ReauthEligible, ActiveHold

LEMMA PromiseWorkerStep ==
  ASSUME TypeOK, DestructionInv, NEW w \in Workers, Execute(w) \/ Crash(w)
  PROVE  [Promise!Next]_(Promise!vars)
<1>1. PICK k \in Lives : k = worker[w].life
  <2>1. worker[w].step # "idle"
    BY DEF Execute, Crash, PurgeCommit, PurgeCommitUnanswered, PurgeCommitLost,
           FailAfterStart, PreflightReject, FailBeforeStart, RevokeForRequest,
           MarkClaimUnresolved, RecordFailure, ReconcileCommit
  <2> QED
    BY <2>1 DEF TypeOK, Worker, Idle
<1>2. request \in [Lives -> Request] /\ workspace \in Workspace
  BY DEF TypeOK
<1>3. ActiveHold' <=> ActiveHold
  BY DEF Execute, Crash, PurgeCommit, PurgeCommitUnanswered, PurgeCommitLost,
         FailAfterStart, PreflightReject, FailBeforeStart, RevokeForRequest,
         MarkClaimUnresolved, RecordFailure, ReconcileCommit, ActiveHold
<1>4. CASE PurgeCommit(w) \/ PurgeCommitUnanswered(w)
  <2>1. PurgeEffect(w)
    BY <1>4 DEF PurgeCommit, PurgeCommitUnanswered
  <2>2. ~Purged /\ workspace.deleted /\ ~ActiveHold /\ Approved
    BY <1>1, <2>1 DEF PurgeEffect, PreflightPasses, ProvenanceMatches, Approved, ReauthEligible
  <2>3. workspace'.purgeRequest = k /\ rows' = {}
    BY <1>1, <1>2, <2>1 DEF PurgeEffect, PreflightPasses, ManifestMatches, Workspace
  <2>4. ~Approved'
    <3>1. DestructionInv'
      BY <1>4, DestructionWorkerStep DEF Execute
    <3>2. request'[k].status = "COMPLETED" /\ \A l \in Lives : l # k => request'[l] = request[l]
      BY <1>1, <1>2, <2>1 DEF PurgeEffect, Request
    <3>3. \A l \in Lives : ReauthEligible(l)' => l = k
      BY <1>1, <2>1, <3>2 DEF DestructionInv, ApprovalIsCurrent, ProvenanceMatches,
                         PurgeEffect, PreflightPasses, ReauthEligible
    <3> QED
      BY <3>2, <3>3 DEF Approved, ReauthEligible
  <2>5. Purged'
    BY <1>1, <2>3 DEF Purged
  <2>6. Promise!Destroy
    BY <1>3, <2>2, <2>3, <2>4, <2>5 DEF Promise!Destroy, Approved
  <2> QED
    BY <2>6 DEF Promise!Next
<1>5. CASE RecordFailure(w) \/ ReconcileCommit(w)
  <2>1. UNCHANGED <<workspace, rows>>
    BY <1>5 DEF RecordFailure, ReconcileCommit
  \* Neither makes a request executable.
  <2>2. Approved' => Approved
    <3>1. \A l \in Lives : l # k => request'[l] = request[l]
      BY <1>1, <1>2, <1>5 DEF RecordFailure, ReconcileCommit
    <3>2. request'[k] = request[k] \/ request'[k].status = "FAILED" \/ request'[k].unknown
      BY <1>1, <1>2, <1>5 DEF RecordFailure, ReconcileCommit, Request
    <3> QED
      BY <3>1, <3>2 DEF Approved, ReauthEligible
  <2>3. CASE Approved' <=> Approved
    BY <1>3, <2>1, <2>3, PromiseStutter
  <2>4. CASE Approved /\ ~Approved'
    <3>1. Promise!Withdraw
      BY <1>3, <2>1, <2>4 DEF Promise!Withdraw, Purged, Approved
    <3> QED
      BY <3>1 DEF Promise!Next
  <2> QED
    BY <2>2, <2>3, <2>4
<1>6. CASE \/ PurgeCommitLost(w) \/ FailAfterStart(w) \/ PreflightReject(w) \/ FailBeforeStart(w)
           \/ RevokeForRequest(w) \/ MarkClaimUnresolved(w) \/ Crash(w)
  <2>1. UNCHANGED <<workspace, rows, request>>
    BY <1>6 DEF PurgeCommitLost, FailAfterStart, PreflightReject, FailBeforeStart,
                RevokeForRequest, MarkClaimUnresolved, Crash
  <2> QED
    BY <1>3, <2>1, PromiseStutter DEF Approved, ReauthEligible
<1> QED
  BY <1>4, <1>5, <1>6 DEF Execute

\* The purge workflow implements PurgePromise: whatever the handlers do, rows
\* are destroyed only in the trash, approved, and under no legal hold.
THEOREM Refinement == Spec => KeepsPromise
<1>1. TypeOK /\ DestructionInv /\ [Next]_vars => [Promise!Next]_(Promise!vars)
  <2> SUFFICES ASSUME TypeOK, DestructionInv, [Next]_vars PROVE [Promise!Next]_(Promise!vars)
    OBVIOUS
  <2>1. CASE Next
    BY <2>1, PromiseWorkspaceStep, PromiseHoldStep, PromiseRequestStep, PromiseReauthStep,
       PromiseWorkerStep DEF Next, WorkerStepTaken
  <2>2. CASE UNCHANGED vars
    <3>1. UNCHANGED <<workspace, rows, request, hold>>
      BY <2>2 DEF vars
    <3> QED
      BY <3>1, PromiseStutter DEF Approved, ReauthEligible, ActiveHold
  <2> QED
    BY <2>1, <2>2
<1> QED
  BY PromiseInit, <1>1, TypeCorrect, DestructionInvariant, PTL
     DEF Spec, KeepsPromise, Promise!Spec

-----------------------------------------------------------------------------
(***************************************************************************)
(* The authorizations.  A revoked generation is past, and so is one that a *)
(* handler has claimed; only the present generation, while CLAIMED, starts *)
(* the service, and a consumed one is never revoked.                       *)
(***************************************************************************)

\* No step but Claim makes a handler hold a claim.
ClaimsKept == \A w \in Workers : worker'[w].step = "claimed" => worker'[w] = worker[w]

LEMMA AuthorizationInit == Init => AuthorizationInv
  BY DEF Init, AuthorizationInv, RevokedIsPast, RevokedNeverCompletes, ClaimIsPast,
         SingleClaimant, NoRequest, Idle

\* An authorization moves on: to a new generation, or within the present one
\* without leaving REVOKED and without becoming claimable again.
LEMMA AuthorizationMoves ==
  ASSUME TypeOK, TypeOK', AuthorizationInv, ClaimsKept, UNCHANGED revoked,
         \A l \in Lives :
           \/ auth'[l].gen > auth[l].gen
           \/ /\ auth'[l].gen = auth[l].gen
              /\ auth[l].state = "REVOKED" => auth'[l].state = "REVOKED"
              /\ auth'[l].state \in {"NONE", "ACTIVE"} => auth[l].state \in {"NONE", "ACTIVE"},
         \A l \in Lives : request'[l].status = "COMPLETED" =>
           \/ request[l].status = "COMPLETED" /\ request'[l].doneBy = request[l].doneBy
           \/ <<l, request'[l].doneBy>> \notin revoked
  PROVE  AuthorizationInv'
<1>1. \A l \in Lives : auth[l].gen \in Nat /\ auth'[l].gen \in Nat
  BY DEF TypeOK, Authorization
<1>2. \A w \in Workers : worker'[w].step = "claimed" =>
        /\ worker'[w] = worker[w]
        /\ worker[w].life \in Lives
        /\ worker[w].gen \in Nat
  BY DEF ClaimsKept, TypeOK, Worker, Idle
<1>3. RevokedIsPast'
  <2> SUFFICES ASSUME NEW l \in Lives, NEW g \in Generations, <<l, g>> \in revoked
               PROVE  \/ g < auth'[l].gen
                      \/ g = auth'[l].gen /\ auth'[l].state = "REVOKED"
    BY DEF RevokedIsPast
  <2>1. g < auth[l].gen \/ (g = auth[l].gen /\ auth[l].state = "REVOKED")
    BY DEF AuthorizationInv, RevokedIsPast
  <2> QED
    BY <1>1, <2>1
<1>4. RevokedNeverCompletes'
  BY DEF AuthorizationInv, RevokedNeverCompletes
<1>5. ClaimIsPast'
  BY <1>1, <1>2 DEF AuthorizationInv, ClaimIsPast
<1>6. SingleClaimant'
  BY <1>2 DEF AuthorizationInv, SingleClaimant
<1> QED
  BY <1>3, <1>4, <1>5, <1>6 DEF AuthorizationInv

LEMMA AuthorizationRevoked ==
  ASSUME TypeOK, DestructionInv, AuthorizationInv, ClaimsKept, UNCHANGED request,
         NEW ls \in SUBSET Lives, RevokeRows(ls)
  PROVE  AuthorizationInv'
<1>1. auth \in [Lives -> Authorization] /\ worker \in [Workers -> Worker]
  BY DEF TypeOK
<1>2. \A l \in Lives :
        /\ auth'[l].gen = auth[l].gen
        /\ \/ auth'[l].state = auth[l].state
           \/ auth[l].state \in Revocable /\ auth'[l].state = "REVOKED"
  BY <1>1 DEF RevokeRows, Authorization
<1>3. \A l \in Lives, g \in Generations : <<l, g>> \in revoked' =>
        \/ <<l, g>> \in revoked
        \/ g = auth[l].gen /\ auth[l].state \in Revocable /\ auth'[l].state = "REVOKED"
  BY <1>1 DEF RevokeRows, Authorization
<1>4. RevokedIsPast'
  BY <1>2, <1>3 DEF AuthorizationInv, RevokedIsPast, Revocable
<1>5. RevokedNeverCompletes'
  <2> SUFFICES ASSUME NEW l \in Lives, request[l].status = "COMPLETED"
               PROVE  <<l, request[l].doneBy>> \notin revoked'
    BY DEF RevokedNeverCompletes
  <2>1. auth[l].state = "CONSUMED_SUCCESS"
    BY DEF DestructionInv, SingleDestruction, CompletedIffMarked, Purged
  <2>2. request[l].doneBy \in Generations
    BY DEF TypeOK, Request
  <2> QED
    BY <1>3, <2>1, <2>2 DEF AuthorizationInv, RevokedNeverCompletes, Revocable
<1>6. ClaimIsPast'
  <2> SUFFICES ASSUME NEW w \in Workers, worker'[w].step = "claimed"
               PROVE  LET a == auth'[worker'[w].life] IN
                        \/ worker'[w].gen < a.gen
                        \/ worker'[w].gen = a.gen /\ a.state \notin {"NONE", "ACTIVE"}
    BY DEF ClaimIsPast
  <2>1. worker'[w] = worker[w] /\ worker[w].life \in Lives
    BY <1>1 DEF ClaimsKept, Worker, Idle
  <2> QED
    BY <1>2, <2>1 DEF AuthorizationInv, ClaimIsPast, Revocable
<1>7. SingleClaimant'
  BY DEF AuthorizationInv, SingleClaimant, ClaimsKept
<1> QED
  BY <1>4, <1>5, <1>6, <1>7 DEF AuthorizationInv

LEMMA AuthorizationReauthStep ==
  ASSUME TypeOK, TypeOK', DestructionInv, AuthorizationInv, ReauthStep
  PROVE  AuthorizationInv'
<1>1. /\ auth \in [Lives -> Authorization] /\ worker \in [Workers -> Worker]
      /\ UNCHANGED request
  BY DEF TypeOK, ReauthStep, Expire, RevokeActor, Issue, IssueUndelivered, Claim
<1>2. ASSUME NEW l \in Lives, Expire(l) PROVE AuthorizationInv'
  <2>1. ClaimsKept /\ UNCHANGED revoked
    BY <1>2 DEF Expire, ClaimsKept
  <2>2. \A k \in Lives : auth'[k].gen = auth[k].gen /\ auth'[k].state = auth[k].state
    BY <1>1, <1>2 DEF Expire, Authorization
  <2> QED
    BY <1>1, <2>1, <2>2, AuthorizationMoves
<1>3. ASSUME NEW u \in Owners, RevokeActor(u) PROVE AuthorizationInv'
  <2>1. {l \in Lives : auth[l].actor = u} \in SUBSET Lives
    OBVIOUS
  <2>2. ClaimsKept
    BY <1>3 DEF RevokeActor, ClaimsKept
  <2> QED
    BY <1>1, <1>3, <2>1, <2>2, AuthorizationRevoked DEF RevokeActor
<1>4. ASSUME NEW u \in Owners, NEW l \in Lives, MayIssue(u, l),
             auth' = [auth EXCEPT ![l] = IssuedRow(u, l)]
      PROVE  \A k \in Lives : (k # l /\ auth'[k] = auth[k]) \/ auth'[k].gen > auth[k].gen
  BY <1>1, <1>4 DEF IssuedRow, Authorization
<1>5. ASSUME NEW u \in Owners, NEW l \in Lives, Issue(u, l) PROVE AuthorizationInv'
  <2>1. ClaimsKept /\ UNCHANGED revoked
    BY <1>5 DEF Issue, ClaimsKept
  <2> QED
    BY <1>1, <1>4, <1>5, <2>1, AuthorizationMoves DEF Issue
<1>6. ASSUME NEW u \in Owners, NEW l \in Lives, NEW w \in Workers, IssueUndelivered(w, u, l)
      PROVE  AuthorizationInv'
  <2>1. ClaimsKept /\ UNCHANGED revoked
    BY <1>1, <1>6 DEF IssueUndelivered, ClaimsKept
  <2> QED
    BY <1>1, <1>4, <1>6, <2>1, AuthorizationMoves DEF IssueUndelivered
<1>7. ASSUME NEW u \in Owners, NEW l \in Lives, NEW w \in Workers, Claim(w, u, l)
      PROVE  AuthorizationInv'
  <2>1. /\ worker'[w] = [step |-> "claimed", user |-> u, life |-> l, gen |-> auth[l].gen]
        /\ \A v \in Workers : v # w => worker'[v] = worker[v]
        /\ auth[l].state = "ACTIVE"
        /\ UNCHANGED revoked
    BY <1>1, <1>7 DEF Claim, Claimable
  <2>2. /\ auth'[l].state = "CLAIMED" /\ auth'[l].gen = auth[l].gen
        /\ \A k \in Lives : k # l => auth'[k] = auth[k]
    BY <1>1, <1>7 DEF Claim, Authorization
  \* Nobody holds a claim on an ACTIVE generation.
  <2>3. \A v \in Workers : worker[v].step = "claimed" /\ worker[v].life = l =>
          worker[v].gen # auth[l].gen
    BY <1>1, <2>1 DEF AuthorizationInv, ClaimIsPast, Authorization, Worker
  <2>4. RevokedIsPast'
    BY <2>1, <2>2 DEF AuthorizationInv, RevokedIsPast
  <2>5. RevokedNeverCompletes'
    BY <1>1, <2>1 DEF AuthorizationInv, RevokedNeverCompletes
  <2>6. ClaimIsPast'
    <3> SUFFICES ASSUME NEW v \in Workers, worker'[v].step = "claimed"
                 PROVE  LET a == auth'[worker'[v].life] IN
                          \/ worker'[v].gen < a.gen
                          \/ worker'[v].gen = a.gen /\ a.state \notin {"NONE", "ACTIVE"}
      BY DEF ClaimIsPast
    <3>1. CASE v = w
      BY <2>1, <2>2, <3>1
    <3>2. CASE v # w
      <4>1. worker'[v] = worker[v] /\ worker[v].life \in Lives
        BY <1>1, <2>1, <3>2 DEF Worker, Idle
      <4> QED
        BY <2>2, <4>1 DEF AuthorizationInv, ClaimIsPast
    <3> QED
      BY <3>1, <3>2
  <2>7. SingleClaimant'
    BY <2>1, <2>3 DEF AuthorizationInv, SingleClaimant
  <2> QED
    BY <2>4, <2>5, <2>6, <2>7 DEF AuthorizationInv
<1> QED
  BY <1>2, <1>3, <1>5, <1>6, <1>7 DEF ReauthStep

LEMMA AuthorizationWorkerStep ==
  ASSUME TypeOK, TypeOK', DestructionInv, AuthorizationInv,
         NEW w \in Workers, Execute(w) \/ Crash(w)
  PROVE  AuthorizationInv'
<1>1. /\ auth \in [Lives -> Authorization] /\ worker \in [Workers -> Worker]
      /\ request \in [Lives -> Request]
  BY DEF TypeOK
<1>2. PICK k \in Lives : k = worker[w].life
  <2>1. worker[w].step # "idle"
    BY DEF Execute, Crash, PurgeCommit, PurgeCommitUnanswered, PurgeCommitLost,
           FailAfterStart, PreflightReject, FailBeforeStart, RevokeForRequest,
           MarkClaimUnresolved, RecordFailure, ReconcileCommit
  <2> QED
    BY <2>1 DEF TypeOK, Worker, Idle
<1>3. ClaimsKept
  <2>1. Finish(w) => ClaimsKept
    BY <1>1 DEF Finish, Idle, ClaimsKept
  <2>2. \A s \in {"revoke", "unresolved", "failure", "reconcile"} : Goto(w, s) => ClaimsKept
    BY <1>1, <1>2 DEF Goto, ClaimsKept, Worker, Idle
  <2> QED
    BY <2>1, <2>2
       DEF Execute, Crash, PurgeCommit, PurgeCommitUnanswered, PurgeCommitLost,
           FailAfterStart, PreflightReject, FailBeforeStart, RevokeForRequest,
           MarkClaimUnresolved, RecordFailure, ReconcileCommit
<1>4. CASE PurgeCommit(w) \/ PurgeCommitUnanswered(w)
  <2>1. PurgeEffect(w) /\ UNCHANGED revoked
    BY <1>4 DEF PurgeCommit, PurgeCommitUnanswered
  <2>2. /\ auth[k].state = "CLAIMED" /\ auth[k].gen = worker[w].gen
        /\ auth'[k].state = "CONSUMED_SUCCESS" /\ auth'[k].gen = auth[k].gen
        /\ \A l \in Lives : l # k => auth'[l] = auth[l]
    BY <1>1, <1>2, <2>1 DEF PurgeEffect, ClaimStands, Authorization
  <2>3. /\ request'[k].doneBy = worker[w].gen
        /\ \A l \in Lives : l # k => request'[l] = request[l]
    BY <1>1, <1>2, <2>1 DEF PurgeEffect, Request
  \* A CLAIMED generation has not been revoked.
  <2>4. <<k, worker[w].gen>> \notin revoked
    BY <1>1, <2>2 DEF AuthorizationInv, RevokedIsPast, Authorization
  <2> QED
    BY <1>3, <2>1, <2>2, <2>3, <2>4, AuthorizationMoves
<1>5. CASE RevokeForRequest(w)
  <2>1. {k} \in SUBSET Lives
    OBVIOUS
  <2> QED
    BY <1>2, <1>3, <1>5, <2>1, AuthorizationRevoked DEF RevokeForRequest
<1>6. CASE MarkClaimUnresolved(w)
  <2>1. UNCHANGED <<request, revoked>>
    BY <1>6 DEF MarkClaimUnresolved
  <2>2. CASE auth[k].state = "CLAIMED"
    <3>1. auth' = [auth EXCEPT ![k].state = "CLAIMED_UNRESOLVED"]
      BY <1>2, <1>6, <2>2 DEF MarkClaimUnresolved
    <3>2. /\ auth'[k].state = "CLAIMED_UNRESOLVED" /\ auth'[k].gen = auth[k].gen
          /\ \A l \in Lives : l # k => auth'[l] = auth[l]
      BY <1>1, <3>1 DEF Authorization
    <3> QED
      BY <1>3, <2>1, <2>2, <3>2, AuthorizationMoves
  <2>3. CASE auth[k].state # "CLAIMED"
    <3>1. UNCHANGED auth
      BY <1>2, <1>6, <2>3 DEF MarkClaimUnresolved
    <3> QED
      BY <1>3, <2>1, <3>1, AuthorizationMoves
  <2> QED
    BY <2>2, <2>3
<1>7. CASE RecordFailure(w) \/ ReconcileCommit(w)
  <2>1. UNCHANGED <<auth, revoked>>
    BY <1>7 DEF RecordFailure, ReconcileCommit
  <2>2. \A l \in Lives : request'[l].status = "COMPLETED" =>
          request[l].status = "COMPLETED" /\ request'[l].doneBy = request[l].doneBy
    <3>1. \/ request' = request
          \/ request' = [request EXCEPT ![k].status = "FAILED"]
          \/ request' = [request EXCEPT ![k].unknown = TRUE]
      BY <1>2, <1>7 DEF RecordFailure, ReconcileCommit
    <3> QED
      BY <1>1, <3>1 DEF Request
  <2> QED
    BY <1>3, <2>1, <2>2, AuthorizationMoves
<1>8. CASE \/ PurgeCommitLost(w) \/ FailAfterStart(w) \/ PreflightReject(w)
           \/ FailBeforeStart(w) \/ Crash(w)
  <2>1. UNCHANGED <<request, auth, revoked>>
    BY <1>8 DEF PurgeCommitLost, FailAfterStart, PreflightReject, FailBeforeStart, Crash
  <2> QED
    BY <1>3, <2>1, AuthorizationMoves
<1> QED
  BY <1>4, <1>5, <1>6, <1>7, <1>8 DEF Execute

LEMMA AuthorizationInductive ==
  TypeOK /\ TypeOK' /\ DestructionInv /\ AuthorizationInv /\ [Next]_vars => AuthorizationInv'
<1> SUFFICES ASSUME TypeOK, TypeOK', DestructionInv, AuthorizationInv, [Next]_vars
             PROVE  AuthorizationInv'
  OBVIOUS
<1>1. ASSUME UNCHANGED <<auth, worker, revoked>>,
             \A l \in Lives : request'[l].status = "COMPLETED" =>
               request[l].status = "COMPLETED" /\ request'[l].doneBy = request[l].doneBy
      PROVE  AuthorizationInv'
  BY <1>1, AuthorizationMoves DEF ClaimsKept
<1>2. request \in [Lives -> Request]
  BY DEF TypeOK
<1>3. CASE WorkspaceStep \/ HoldStep \/ UNCHANGED vars
  <2>1. UNCHANGED <<auth, worker, revoked>>
    BY <1>3 DEF WorkspaceStep, SoftDelete, Restore, WriteBegin, WriteLand, RetentionElapses,
                HoldStep, PlaceHold, ReleaseHold, vars
  <2>2. request' = request \/ request' = [request EXCEPT ![workspace.life].invalidated = TRUE]
    BY <1>3 DEF WorkspaceStep, SoftDelete, Restore, InvalidateRequest, WriteBegin, WriteLand,
                RetentionElapses, HoldStep, PlaceHold, ReleaseHold, vars
  <2>3. \A l \in Lives : request'[l].status = request[l].status
                         /\ request'[l].doneBy = request[l].doneBy
    BY <1>2, <2>2 DEF Request
  <2> QED
    BY <1>1, <2>1, <2>3
<1>4. CASE RequestStep
  <2>1. PICK u \in Owners :
          \/ CreateRequest(u)
          \/ \E l \in Lives : Approve(u, l) \/ Reject(u, l) \/ Cancel(u, l)
    BY <1>4 DEF RequestStep
  <2>2. UNCHANGED <<auth, worker, revoked>>
    BY <2>1 DEF CreateRequest, Approve, Reject, Cancel
  <2>3. NewRequest(u).status # "COMPLETED"
    BY DEF NewRequest
  <2>4. \A l \in Lives : request'[l] = request[l] \/ request'[l].status # "COMPLETED"
    <3>1. CASE CreateRequest(u)
      BY <1>2, <2>3, <3>1 DEF CreateRequest
    <3>2. ASSUME NEW k \in Lives, Approve(u, k) \/ Reject(u, k) \/ Cancel(u, k)
          PROVE  /\ \A l \in Lives : l # k => request'[l] = request[l]
                 /\ request'[k].status # "COMPLETED"
      BY <1>2, <3>2 DEF Approve, Reject, Cancel, Request
    <3> QED
      BY <2>1, <3>1, <3>2
  <2> QED
    BY <1>1, <2>2, <2>4
<1> QED
  BY <1>3, <1>4, AuthorizationReauthStep, AuthorizationWorkerStep DEF Next, WorkerStepTaken

LEMMA AuthorizationInvariant == Spec => []AuthorizationInv
<1>1. Init => AuthorizationInv
  BY AuthorizationInit
<1> QED
  BY <1>1, AuthorizationInductive, TypeCorrect, DestructionInvariant, PTL DEF Spec

\* No purge commits under an authorization that was ever revoked
\* (mark_service_started against logout and password changes).
THEOREM RevocationIsFinal == Spec => []RevokedNeverCompletes
  BY AuthorizationInvariant, PTL DEF AuthorizationInv

\* At most one handler holds a claim on a generation (claim_for_execution).
THEOREM OneClaimant == Spec => []SingleClaimant
  BY AuthorizationInvariant, PTL DEF AuthorizationInv

-----------------------------------------------------------------------------
(***************************************************************************)
(* What a step may never do to a request.  A frozen request was made, and  *)
(* so was every request a handler is at work on: freezing, which looks at  *)
(* no status, never meets the empty entry of a request not yet made.       *)
(***************************************************************************)
FrozenWasMade ==
  /\ \A l \in Lives : request[l].status = "NONE" => ~request[l].unknown
  /\ \A w \in Workers : worker[w].step # "idle" => request[worker[w].life].status # "NONE"

\* How an entry moves: it is decided while it is open, or keeps its status and
\* is at most voided or frozen.
EntryMoves(old, new) ==
  \/ /\ old.status \in {"NONE"} \union Invalidatable
     /\ ~old.unknown /\ ~new.unknown
     /\ new.status # "NONE"
  \/ /\ new.status = old.status
     /\ old.unknown => new.unknown
     /\ old.status = "NONE" => (new.unknown <=> old.unknown)

LEMMA EntryStays == ASSUME NEW r PROVE EntryMoves(r, r)
  BY Zenon DEF EntryMoves

\* Entries other than k stay as they are.
LEMMA OneEntryMoves ==
  ASSUME NEW k \in Lives, NEW r, request \in [Lives -> Request],
         request' = [request EXCEPT ![k] = r], EntryMoves(request[k], r)
  PROVE  \A l \in Lives : EntryMoves(request[l], request'[l])
<1> SUFFICES ASSUME NEW l \in Lives PROVE EntryMoves(request[l], request'[l])
  OBVIOUS
<1>1. CASE l = k
  <2>1. request'[l] = r
    BY <1>1
  <2> QED
    BY <1>1, <2>1, Zenon
<1>2. CASE l # k
  <2>1. request'[l] = request[l]
    BY <1>2
  <2> QED
    BY <2>1, EntryStays, Zenon
<1> QED
  BY <1>1, <1>2

LEMMA MovesWorkspaceStep ==
  ASSUME TypeOK, WorkspaceStep
  PROVE  \A l \in Lives : EntryMoves(request[l], request'[l])
<1>1. request \in [Lives -> Request] /\ workspace \in Workspace
  BY DEF TypeOK
<1>2. CASE UNCHANGED request
  BY <1>2, EntryStays
<1>3. CASE request' # request
  <2> DEFINE k == workspace.life
             r == [request[k] EXCEPT !.invalidated = TRUE]
  <2>1. Restore /\ request' = [request EXCEPT ![k].invalidated = TRUE]
    BY <1>3 DEF WorkspaceStep, SoftDelete, Restore, InvalidateRequest, WriteBegin, WriteLand,
                RetentionElapses
  <2>2. request' = [request EXCEPT ![k] = r]
    BY <2>1
  <2>3. k \in Lives
    BY <1>1, <1>3, <2>1
  <2>4. r.status = request[k].status /\ r.unknown = request[k].unknown
    BY <1>1, <2>3 DEF Request
  <2>5. EntryMoves(request[k], r)
    BY <2>4, Zenon DEF EntryMoves
  <2> HIDE DEF r, k
  <2> QED
    BY <1>1, <2>2, <2>3, <2>5, OneEntryMoves
<1> QED
  BY <1>2, <1>3

LEMMA MovesRequestStep ==
  ASSUME TypeOK, FrozenWasMade, RequestStep
  PROVE  \A l \in Lives : EntryMoves(request[l], request'[l])
<1>1. request \in [Lives -> Request] /\ workspace \in Workspace
  BY DEF TypeOK
<1>2. PICK u \in Owners :
        \/ CreateRequest(u)
        \/ \E l \in Lives : Approve(u, l) \/ Reject(u, l) \/ Cancel(u, l)
  BY DEF RequestStep
<1>3. CASE CreateRequest(u)
  <2> DEFINE k == workspace.life
             r == NewRequest(u)
  <2>1. request' = [request EXCEPT ![k] = r] /\ request[k].status = "NONE"
    BY <1>3 DEF CreateRequest
  <2>2. CASE k \in Lives
    <3>1. ~request[k].unknown
      BY <2>1, <2>2 DEF FrozenWasMade
    <3>2. r.status # "NONE" /\ ~r.unknown
      BY DEF NewRequest
    <3>3. EntryMoves(request[k], r)
      BY <2>1, <3>1, <3>2, Zenon DEF EntryMoves
    <3> HIDE DEF r, k
    <3> QED
      BY <1>1, <2>1, <2>2, <3>3, OneEntryMoves
  <2>3. CASE k \notin Lives
    <3>1. request' = request
      BY <1>1, <2>1, <2>3
    <3> QED
      BY <3>1, EntryStays
  <2> QED
    BY <2>2, <2>3
<1>4. ASSUME NEW k \in Lives, Approve(u, k) \/ Reject(u, k) \/ Cancel(u, k)
      PROVE  \A l \in Lives : EntryMoves(request[l], request'[l])
  <2>1. PICK r : /\ request' = [request EXCEPT ![k] = r]
                 /\ r.unknown = request[k].unknown
                 /\ r.status # "NONE"
    <3>1. CASE Approve(u, k)
      <4> DEFINE r == [request[k] EXCEPT !.status = "APPROVED", !.approver = u, !.clear = TRUE]
      <4>1. request' = [request EXCEPT ![k] = r]
        BY <1>1, <3>1 DEF Approve
      <4>2. r.unknown = request[k].unknown /\ r.status = "APPROVED"
        BY <1>1 DEF Request
      <4> QED
        BY <4>1, <4>2
    <3>2. ASSUME NEW st \in Terminal, request' = [request EXCEPT ![k].status = st]
          PROVE  \E r : /\ request' = [request EXCEPT ![k] = r]
                        /\ r.unknown = request[k].unknown
                        /\ r.status # "NONE"
      <4> DEFINE r == [request[k] EXCEPT !.status = st]
      <4>1. request' = [request EXCEPT ![k] = r]
        BY <3>2
      <4>2. r.unknown = request[k].unknown /\ r.status = st
        BY <1>1 DEF Request
      <4> QED
        BY <3>2, <4>1, <4>2 DEF Terminal
    <3> QED
      BY <1>4, <3>1, <3>2 DEF Reject, Cancel, Terminal
  <2>2. request[k].status \in PreApproval /\ ~request[k].unknown
    BY <1>4 DEF Approve, Reject, Cancel, Undecided
  <2>3. EntryMoves(request[k], r)
    BY <2>1, <2>2, Zenon DEF EntryMoves, Invalidatable
  <2> QED
    BY <1>1, <2>1, <2>3, OneEntryMoves
<1> QED
  BY <1>2, <1>3, <1>4

LEMMA MovesWorkerStep ==
  ASSUME TypeOK, FrozenWasMade, NEW w \in Workers, Execute(w) \/ Crash(w)
  PROVE  \A l \in Lives : EntryMoves(request[l], request'[l])
<1>1. request \in [Lives -> Request] /\ worker \in [Workers -> Worker]
  BY DEF TypeOK
<1> DEFINE k == worker[w].life
<1>2. worker[w].step # "idle"
  BY DEF Execute, Crash, PurgeCommit, PurgeCommitUnanswered, PurgeCommitLost,
         FailAfterStart, PreflightReject, FailBeforeStart, RevokeForRequest,
         MarkClaimUnresolved, RecordFailure, ReconcileCommit
<1>3. k \in Lives /\ request[k].status # "NONE"
  BY <1>1, <1>2 DEF Worker, Idle, FrozenWasMade
<1>4. CASE UNCHANGED request
  BY <1>4, EntryStays
<1>5. CASE PurgeCommit(w) \/ PurgeCommitUnanswered(w)
  <2> DEFINE r == [request[k] EXCEPT !.status = "COMPLETED", !.doneBy = worker[w].gen]
  <2>1. request' = [request EXCEPT ![k] = r]
    BY <1>5 DEF PurgeCommit, PurgeCommitUnanswered, PurgeEffect
  <2>2. request[k].status = "APPROVED" /\ ~request[k].unknown
    BY <1>5 DEF PurgeCommit, PurgeCommitUnanswered, PurgeEffect, PreflightPasses
  <2>3. r.status = "COMPLETED" /\ r.unknown = request[k].unknown
    BY <1>1, <1>3 DEF Request
  <2>4. EntryMoves(request[k], r)
    BY <2>2, <2>3, Zenon DEF EntryMoves, Invalidatable
  <2> HIDE DEF r, k
  <2> QED
    BY <1>1, <1>3, <2>1, <2>4, OneEntryMoves
<1>6. CASE RecordFailure(w) /\ FailureRecordable(k)
  <2> DEFINE r == [request[k] EXCEPT !.status = "FAILED"]
  <2>1. request' = [request EXCEPT ![k] = r]
    BY <1>6 DEF RecordFailure
  <2>2. request[k].status = "APPROVED" /\ ~request[k].unknown
    BY <1>6 DEF FailureRecordable
  <2>3. r.status = "FAILED" /\ r.unknown = request[k].unknown
    BY <1>1, <1>3 DEF Request
  <2>4. EntryMoves(request[k], r)
    BY <2>2, <2>3, Zenon DEF EntryMoves, Invalidatable
  <2> HIDE DEF r, k
  <2> QED
    BY <1>1, <1>3, <2>1, <2>4, OneEntryMoves
<1>7. CASE ReconcileCommit(w) /\ ~CompletedByAttempt(w)
  <2> DEFINE r == [request[k] EXCEPT !.unknown = TRUE]
  <2>1. request' = [request EXCEPT ![k] = r]
    BY <1>7 DEF ReconcileCommit
  <2>2. r.status = request[k].status /\ r.unknown
    BY <1>1, <1>3 DEF Request
  <2>3. EntryMoves(request[k], r)
    BY <1>3, <2>2, Zenon DEF EntryMoves
  <2> HIDE DEF r, k
  <2> QED
    BY <1>1, <1>3, <2>1, <2>3, OneEntryMoves
<1> QED
  BY <1>4, <1>5, <1>6, <1>7
     DEF Execute, Crash, PurgeCommitLost, FailAfterStart, PreflightReject, FailBeforeStart,
         RevokeForRequest, MarkClaimUnresolved, RecordFailure, ReconcileCommit

LEMMA RequestMoves ==
  ASSUME TypeOK, FrozenWasMade, [Next]_vars
  PROVE  \A l \in Lives : EntryMoves(request[l], request'[l])
<1>1. CASE UNCHANGED request
  BY <1>1, EntryStays
<1>2. HoldStep \/ ReauthStep \/ UNCHANGED vars => UNCHANGED request
  BY DEF HoldStep, PlaceHold, ReleaseHold, ReauthStep, Expire, RevokeActor, Issue,
         IssueUndelivered, Claim, vars
<1> QED
  BY <1>1, <1>2, MovesWorkspaceStep, MovesRequestStep, MovesWorkerStep
     DEF Next, WorkerStepTaken

\* A handler starts on an executable request, and stays on it.
LEMMA WorkersKeepRequest ==
  ASSUME TypeOK, [Next]_vars, NEW w \in Workers, worker'[w].step # "idle"
  PROVE  \/ worker[w].step # "idle" /\ worker'[w].life = worker[w].life
         \/ worker'[w].life \in Lives /\ request[worker'[w].life].status = "APPROVED"
<1>1. worker \in [Workers -> Worker]
  BY DEF TypeOK
<1>2. CASE UNCHANGED worker
  BY <1>2
<1>3. ASSUME NEW u \in Owners, NEW l \in Lives, NEW v \in Workers,
             IssueUndelivered(v, u, l) \/ Claim(v, u, l)
      PROVE  \/ worker[w].step # "idle" /\ worker'[w].life = worker[w].life
             \/ worker'[w].life \in Lives /\ request[worker'[w].life].status = "APPROVED"
  <2>1. request[l].status = "APPROVED"
    BY <1>3 DEF IssueUndelivered, MayIssue, Claim, Claimable, ReauthEligible
  <2>2. v = w => worker'[w].life = l
    BY <1>1, <1>3 DEF IssueUndelivered, Claim
  <2>3. v # w => worker'[w] = worker[w]
    BY <1>1, <1>3 DEF IssueUndelivered, Claim
  <2> QED
    BY <2>1, <2>2, <2>3
<1>4. ASSUME NEW v \in Workers, Execute(v) \/ Crash(v)
      PROVE  worker[w].step # "idle" /\ worker'[w].life = worker[w].life
  <2>1. worker[v].step # "idle"
    BY <1>4
       DEF Execute, Crash, PurgeCommit, PurgeCommitUnanswered, PurgeCommitLost,
           FailAfterStart, PreflightReject, FailBeforeStart, RevokeForRequest,
           MarkClaimUnresolved, RecordFailure, ReconcileCommit
  <2>2. Finish(v) \/ \E s \in WorkerStep : Goto(v, s)
    BY <1>4
       DEF Execute, Crash, PurgeCommit, PurgeCommitUnanswered, PurgeCommitLost,
           FailAfterStart, PreflightReject, FailBeforeStart, RevokeForRequest,
           MarkClaimUnresolved, RecordFailure, ReconcileCommit, WorkerStep
  <2>3. CASE Finish(v)
    BY <1>1, <2>3 DEF Finish, Idle
  <2>4. ASSUME NEW s \in WorkerStep, Goto(v, s)
        PROVE  worker[w].step # "idle" /\ worker'[w].life = worker[w].life
    <3>1. worker[v] \in [step : WorkerStep, user : Owners, life : Lives, gen : Generations]
      BY <1>1, <2>1 DEF Worker, Idle
    <3>2. worker'[v].life = worker[v].life
      BY <1>1, <2>4, <3>1 DEF Goto
    <3>3. w # v => worker'[w] = worker[w]
      BY <1>1, <2>4 DEF Goto
    <3> QED
      BY <2>1, <3>2, <3>3
  <2> QED
    BY <2>2, <2>3, <2>4
<1>5. WorkspaceStep \/ HoldStep \/ RequestStep \/ UNCHANGED vars => UNCHANGED worker
  BY DEF WorkspaceStep, SoftDelete, Restore, WriteBegin, WriteLand, RetentionElapses,
         HoldStep, PlaceHold, ReleaseHold, RequestStep, CreateRequest, Approve, Reject, Cancel,
         vars
<1>6. ReauthStep => UNCHANGED worker \/ \E u \in Owners, l \in Lives, v \in Workers :
        IssueUndelivered(v, u, l) \/ Claim(v, u, l)
  BY DEF ReauthStep, Expire, RevokeActor, Issue
<1> QED
  BY <1>2, <1>3, <1>4, <1>5, <1>6 DEF Next, WorkerStepTaken

LEMMA FrozenInductive == TypeOK /\ FrozenWasMade /\ [Next]_vars => FrozenWasMade'
<1> SUFFICES ASSUME TypeOK, FrozenWasMade, [Next]_vars PROVE FrozenWasMade'
  OBVIOUS
<1>1. \A l \in Lives : EntryMoves(request[l], request'[l])
  BY RequestMoves
<1>2. ASSUME NEW l \in Lives, request'[l].status = "NONE" PROVE ~request'[l].unknown
  BY <1>1, <1>2, Zenon DEF EntryMoves, FrozenWasMade
<1>3. \A l \in Lives : request[l].status # "NONE" => request'[l].status # "NONE"
  BY <1>1 DEF EntryMoves
<1>4. ASSUME NEW w \in Workers, worker'[w].step # "idle"
      PROVE  request'[worker'[w].life].status # "NONE"
  <2>1. worker[w].step # "idle" => worker[w].life \in Lives
    BY DEF TypeOK, Worker, Idle
  <2> QED
    BY <1>3, <1>4, <2>1, WorkersKeepRequest DEF FrozenWasMade
<1> QED
  BY <1>2, <1>4 DEF FrozenWasMade

LEMMA FrozenInvariant == Spec => []FrozenWasMade
<1>1. Init => FrozenWasMade
  BY DEF Init, FrozenWasMade, NoRequest, Idle
<1> QED
  BY <1>1, FrozenInductive, TypeCorrect, PTL DEF Spec

\* No late handler reopens or overwrites a request that was completed, failed,
\* rejected or cancelled (record_failure and reconcile against the decisions).
THEOREM DecisionsStand == Spec => TerminalAbsorbing
<1> DEFINE Absorbed == \A l \in Lives : request[l].status \in Terminal =>
                         request'[l].status = request[l].status
<1>1. ASSUME TypeOK, FrozenWasMade, [Next]_vars PROVE Absorbed
  BY <1>1, RequestMoves DEF EntryMoves, Invalidatable, PreApproval, Terminal
<1>2. TypeOK /\ FrozenWasMade /\ [Next]_vars => [Absorbed]_vars
  BY <1>1
<1> HIDE DEF Absorbed
<1>3. Spec => [][Absorbed]_vars
  BY <1>2, TypeCorrect, FrozenInvariant, PTL DEF Spec
<1> QED
  BY <1>3 DEF TerminalAbsorbing, Absorbed

\* A request of unknown outcome keeps its status, stays frozen, and its
\* deletion is not undone (reconcile_commit against restore_owner_workspace).
THEOREM UnknownStaysFrozen == Spec => OutcomeUnknownFreezes
<1> DEFINE Frozen == \A l \in Lives : request[l].unknown =>
                       /\ request'[l].status = request[l].status
                       /\ request'[l].unknown
                       /\ workspace.life = l /\ workspace.deleted => workspace'.deleted
<1>1. ASSUME TypeOK, FrozenWasMade, [Next]_vars PROVE Frozen
  <2> SUFFICES ASSUME NEW l \in Lives, request[l].unknown
               PROVE  /\ request'[l].status = request[l].status
                      /\ request'[l].unknown
                      /\ workspace.life = l /\ workspace.deleted => workspace'.deleted
    OBVIOUS
  <2>1. request'[l].status = request[l].status /\ request'[l].unknown
    BY <1>1, RequestMoves, Zenon DEF EntryMoves
  <2>2. ASSUME workspace.life = l, workspace.deleted PROVE workspace'.deleted
    <3>1. workspace \in Workspace
      BY <1>1 DEF TypeOK
    <3>2. ~Restore
      BY <2>2 DEF Restore, Restorable
    <3>3. workspace' = workspace \/ \E k : workspace' = [workspace EXCEPT !.purgeRequest = k]
      BY <1>1, <2>2, <3>2
         DEF Next, WorkspaceStep, SoftDelete, WriteBegin, WriteLand, RetentionElapses,
             HoldStep, PlaceHold, ReleaseHold, RequestStep, CreateRequest, Approve, Reject, Cancel,
             ReauthStep, Expire, RevokeActor, Issue, IssueUndelivered, Claim,
             WorkerStepTaken, Execute, Crash, PurgeCommit, PurgeCommitUnanswered, PurgeEffect,
             PurgeCommitLost, FailAfterStart, PreflightReject, FailBeforeStart, RevokeForRequest,
             MarkClaimUnresolved, RecordFailure, ReconcileCommit, vars
    <3> QED
      BY <2>2, <3>1, <3>3 DEF Workspace
  <2> QED
    BY <2>1, <2>2
<1>2. TypeOK /\ FrozenWasMade /\ [Next]_vars => [Frozen]_vars
  BY <1>1
<1> HIDE DEF Frozen
<1>3. Spec => [][Frozen]_vars
  BY <1>2, TypeCorrect, FrozenInvariant, PTL DEF Spec
<1> QED
  BY <1>3 DEF OutcomeUnknownFreezes, Frozen
=============================================================================
