----------------------------- MODULE AccountPurge -----------------------------
(***************************************************************************)
(* The purge of one removed member's account by the owner of the workspace *)
(* it was created in: requests, their review, legal holds, and the         *)
(* authorization a fresh password check buys.  The code stops before the   *)
(* purge itself: there is no executor, and no account is ever purged.      *)
(*                                                                         *)
(* A call that judges whether the target may be purged (a new request, its *)
(* approval, the password check, the claim) reads row after row FOR UPDATE *)
(* and commits in the same transaction: one step judges, when it has the   *)
(* last of the locks, and another commits.  In between only what does not  *)
(* ask for a locked row can happen.  The other calls write what they have  *)
(* just locked, and are one step each.                                     *)
(*                                                                         *)
(* What the judgement reads of the target that never changes here (its     *)
(* role, provenance, provider, no other workspace) is taken to be in       *)
(* order.  A request's version is left out: it changes exactly when the    *)
(* state leaves REQUESTED.  The nonce is the generation at which it was    *)
(* issued, and the password throttle is the matter of ReauthThrottle.      *)
(***************************************************************************)
EXTENDS Naturals, FiniteSets

CONSTANTS
  Approvers,       \* approval owners; they also execute
  Callers,         \* sessions that call the services
  Holds,           \* rows for legal holds
  MaxRequests,     \* bound: requests for the target
  MaxGenerations,  \* bound: generations of an authorization
  NoOne

ASSUME AccountConstants ==
  /\ NoOne \notin Approvers \union Callers
  /\ MaxRequests \in Nat
  /\ MaxGenerations \in Nat

VARIABLES
  membership,     \* the target's row in the managing workspace: status
  deleted,        \* the target's users.deleted_at
  requesterOk,    \* the requester is an active owner of the workspace
  request,        \* account_purge_requests.state
  approver,       \* account_purge_requests.approver_id
  hold,           \* account_purge_legal_holds
  auth,           \* account_purge_execution_authorizations
  caller,         \* the last authorization a session was given
  txn,            \* what the call of a session has judged and will commit
  claimedBy       \* history: the session that made the standing claim

target == <<membership, deleted, requesterOk>>
vars == <<target, request, approver, hold, auth, caller, txn, claimedBy>>

Requests == 1..MaxRequests
Generations == 0..MaxGenerations
Terminal == {"REJECTED", "CANCELLED"}
InClaim == {"CLAIMED", "SERVICE_STARTED", "CLAIMED_UNRESOLVED"}

RequestState == {"none", "REQUESTED", "APPROVED"} \union Terminal

\* The workspace a hold is for and the request it names, 0 for none.
Scopes == {<<"any", 0>>, <<"elsewhere", 0>>, <<"managing", 0>>}
            \union {<<"managing", r>> : r \in Requests}
FreeHold == [state |-> "unused", scope |-> <<"any", 0>>]
NoAuth == [state |-> "none", generation |-> 0, executor |-> NoOne, fresh |-> FALSE]
Nothing == [request |-> 0, executor |-> NoOne, generation |-> 0]
NoTxn == [kind |-> "none"]

LegalHold == [state : {"unused", "ACTIVE", "RELEASED"}, scope : Scopes]
ExecutionAuthorization ==
  [state : {"ACTIVE", "REVOKED"} \union InClaim, generation : Generations \ {0},
   executor : Approvers, fresh : BOOLEAN]

TypeOK ==
  /\ membership \in {"active", "removed", "inactive"}
  /\ deleted \in BOOLEAN /\ requesterOk \in BOOLEAN
  /\ request \in [Requests -> RequestState]
  /\ approver \in [Requests -> Approvers \union {NoOne}]
  /\ hold \in [Holds -> LegalHold]
  /\ auth \in [Requests -> {NoAuth} \union ExecutionAuthorization]
  /\ caller \in [Callers -> {Nothing} \union
       [request : Requests, executor : Approvers, generation : Generations]]
  /\ txn \in [Callers -> {NoTxn} \union
       [kind : {"create", "approve", "issue", "claim"}, request : Requests,
        actor : Approvers \union {NoOne}]]
  /\ claimedBy \in [Requests -> Callers \union {NoOne}]
  /\ \A r \in Requests : request[r] = "APPROVED" => approver[r] # NoOne

Init ==
  /\ membership = "active"
  /\ deleted = FALSE
  /\ requesterOk = TRUE
  /\ request = [r \in Requests |-> "none"]
  /\ approver = [r \in Requests |-> NoOne]
  /\ hold = [h \in Holds |-> FreeHold]
  /\ auth = [r \in Requests |-> NoAuth]
  /\ caller = [c \in Callers |-> Nothing]
  /\ txn = [c \in Callers |-> NoTxn]
  /\ claimedBy = [r \in Requests |-> NoOne]

-----------------------------------------------------------------------------

\* The rows the judgement reads: the requests for the target, its account, its
\* membership, the requester, and the holds that are not for another workspace.
Rows == {"requests", "target", "membership", "requester", "holds"}

\* Mutant: the rows judged by are read without locks; the request itself is locked.
LocksRequests(t) == IF t = NoTxn THEN {} ELSE {"requests"}

\* Mutant: every row is read without a lock.
LocksNothing(t) == {}

\* with_for_update, until the transaction ends.
Locks(t) == IF t = NoTxn THEN {} ELSE Rows

Free(rows) == \A c \in Callers : Locks(txn[c]) \intersect rows = {}

Open(r) == request[r] \notin {"none"} \union Terminal

Applies(h) == hold[h].state = "ACTIVE" /\ hold[h].scope[1] # "elsewhere"

\* Mutant: a request that is already approved no longer stands in the way.
EligibleBesideApproved(r) ==
  /\ requesterOk
  /\ membership = "removed"
  /\ ~deleted
  /\ \A h \in Holds : ~Applies(h)
  /\ \A q \in Requests \ {r} : request[q] # "REQUESTED"

\* _evaluate, with the request r left out of the search for open ones.
Eligible(r) ==
  /\ requesterOk
  /\ membership = "removed"
  /\ ~deleted
  /\ \A h \in Holds : ~Applies(h)
  /\ \A q \in Requests \ {r} : ~Open(q)

\* The judgement that call c comes to when it has the last lock.
Judges(c, kind, r, a) ==
  /\ txn[c] = NoTxn
  /\ Free(Rows)
  /\ Eligible(r)
  /\ txn' = [txn EXCEPT ![c] = [kind |-> kind, request |-> r, actor |-> a]]
  /\ UNCHANGED <<target, request, approver, hold, auth, caller, claimedBy>>

\* The call c commits what it judged, or rolls back.
Commits(c, kind) ==
  /\ txn[c].kind = kind
  /\ txn' = [txn EXCEPT ![c] = NoTxn]

RollBack(c) ==
  /\ txn[c] # NoTxn
  /\ txn' = [txn EXCEPT ![c] = NoTxn]
  /\ UNCHANGED <<target, request, approver, hold, auth, caller, claimedBy>>

\* A new request is the next row.
JudgeCreate(c, r) ==
  /\ request[r] = "none"
  /\ \A q \in 1..(r - 1) : request[q] # "none"
  /\ Judges(c, "create", r, NoOne)

Create(c) ==
  /\ Commits(c, "create")
  /\ request' = [request EXCEPT ![txn[c].request] = "REQUESTED"]
  /\ UNCHANGED <<target, approver, hold, auth, caller, claimedBy>>

JudgeApproval(c, r, a) == request[r] = "REQUESTED" /\ Judges(c, "approve", r, a)

\* Mutant: the approver is not written down.
ApproveUnsigned(c) ==
  /\ Commits(c, "approve")
  /\ request' = [request EXCEPT ![txn[c].request] = "APPROVED"]
  /\ UNCHANGED <<target, approver, hold, auth, caller, claimedBy>>

Approve(c) ==
  /\ Commits(c, "approve")
  /\ request' = [request EXCEPT ![txn[c].request] = "APPROVED"]
  /\ approver' = [approver EXCEPT ![txn[c].request] = txn[c].actor]
  /\ UNCHANGED <<target, hold, auth, caller, claimedBy>>

\* Rejecting and cancelling take all the locks and judge the request alone.
Reject(r, a) ==
  /\ request[r] = "REQUESTED"
  /\ Free(Rows)
  /\ request' = [request EXCEPT ![r] = "REJECTED"]
  /\ approver' = [approver EXCEPT ![r] = a]
  /\ UNCHANGED <<target, hold, auth, caller, txn, claimedBy>>

\* The requester may cancel even when no longer an owner.
Cancel(r) ==
  /\ request[r] = "REQUESTED"
  /\ Free(Rows)
  /\ request' = [request EXCEPT ![r] = "CANCELLED"]
  /\ UNCHANGED <<target, approver, hold, auth, caller, txn, claimedBy>>

-----------------------------------------------------------------------------

Equivalent(h, scope) == hold[h].state = "ACTIVE" /\ hold[h].scope = scope

Place(h, scope) ==
  /\ hold[h].state = "unused"
  /\ scope[2] # 0 => request[scope[2]] # "none"
  /\ \A g \in Holds : ~Equivalent(g, scope)
  /\ Free({"target", "holds"} \union (IF scope[2] # 0 THEN {"requests"} ELSE {}))
  /\ hold' = [hold EXCEPT ![h] = [state |-> "ACTIVE", scope |-> scope]]
  /\ UNCHANGED <<target, request, approver, auth, caller, txn, claimedBy>>

Release(h) ==
  /\ hold[h].state = "ACTIVE"
  /\ Applies(h) => Free({"holds"})
  /\ hold' = [hold EXCEPT ![h].state = "RELEASED"]
  /\ UNCHANGED <<target, request, approver, auth, caller, txn, claimedBy>>

-----------------------------------------------------------------------------

\* An authorization can be issued when there is none, or a revoked or expired one.
Reissuable(r) ==
  \/ auth[r].state \in {"none", "REVOKED"}
  \/ auth[r].state = "ACTIVE" /\ ~auth[r].fresh

\* Mutant: a new authorization starts again at generation 1.
IssuedFromOne(r, e) == [state |-> "ACTIVE", generation |-> 1, executor |-> e, fresh |-> TRUE]

Issued(r, e) ==
  [state |-> "ACTIVE", generation |-> auth[r].generation + 1, executor |-> e, fresh |-> TRUE]

\* Mutant: whoever approved may execute.
MayExecuteAnyone(r, e) == TRUE

MayExecute(r, e) == e # approver[r]

\* reauthenticate_and_issue with the right password.
JudgeIssue(c, r, e) ==
  /\ request[r] = "APPROVED"
  /\ MayExecute(r, e)
  /\ Reissuable(r)
  /\ auth[r].generation < MaxGenerations
  /\ Judges(c, "issue", r, e)

Issue(c) ==
  LET r == txn[c].request IN
  /\ Commits(c, "issue")
  /\ auth' = [auth EXCEPT ![r] = Issued(r, txn[c].actor)]
  /\ caller' = [caller EXCEPT ![c] =
       [request |-> r, executor |-> txn[c].actor, generation |-> auth'[r].generation]]
  /\ claimedBy' = [claimedBy EXCEPT ![r] = NoOne]
  /\ UNCHANGED <<target, request, approver, hold>>

\* REAUTH_FRESHNESS passes; no lock stops the clock.
Expire(r) ==
  /\ auth[r].state = "ACTIVE" /\ auth[r].fresh
  /\ auth' = [auth EXCEPT ![r].fresh = FALSE]
  /\ UNCHANGED <<target, request, approver, hold, caller, txn, claimedBy>>

\* The generation and the executor that session c presents are the current ones.
Presents(c, r) ==
  /\ caller[c].request = r
  /\ caller[c].generation = auth[r].generation
  /\ caller[c].executor = auth[r].executor

\* The authorization moves to a state, and session c learns its generation.
Moves(c, r, state) ==
  /\ auth[r].generation < MaxGenerations
  /\ auth' = [auth EXCEPT ![r].state = state, ![r].generation = @ + 1]
  /\ caller' = [caller EXCEPT ![c].generation = @ + 1]

JudgeClaim(c, r) ==
  /\ Presents(c, r)
  /\ auth[r].state = "ACTIVE" /\ auth[r].fresh
  /\ request[r] = "APPROVED"
  /\ auth[r].generation < MaxGenerations
  /\ Judges(c, "claim", r, auth[r].executor)

Claim(c) ==
  LET r == txn[c].request IN
  /\ Commits(c, "claim")
  /\ Moves(c, r, "CLAIMED")
  /\ claimedBy' = [claimedBy EXCEPT ![r] = c]
  /\ UNCHANGED <<target, request, approver, hold>>

\* mark_service_started, mark_claimed_unresolved: eligibility is not asked.
Start(c, r) ==
  /\ Presents(c, r)
  /\ Free({"requests", "requester"})
  /\ request[r] = "APPROVED"
  /\ auth[r].state = "CLAIMED"
  /\ Moves(c, r, "SERVICE_STARTED")
  /\ UNCHANGED <<target, request, approver, hold, txn, claimedBy>>

Unresolve(c, r) ==
  /\ Presents(c, r)
  /\ Free({"requests", "requester"})
  /\ request[r] = "APPROVED"
  /\ auth[r].state \in {"CLAIMED", "SERVICE_STARTED"}
  /\ Moves(c, r, "CLAIMED_UNRESOLVED")
  /\ UNCHANGED <<target, request, approver, hold, txn, claimedBy>>

\* Any approval owner revokes, in whatever state, expired or in claim.
Revoke(r) ==
  /\ auth[r].state \notin {"none", "REVOKED"}
  /\ Free({"requests"})
  /\ auth[r].generation < MaxGenerations
  /\ auth' = [auth EXCEPT ![r].state = "REVOKED", ![r].generation = @ + 1]
  /\ claimedBy' = [claimedBy EXCEPT ![r] = NoOne]
  /\ UNCHANGED <<target, request, approver, hold, caller, txn>>

-----------------------------------------------------------------------------

\* What the rest of the program does to the target and the requester: an UPDATE
\* waits for the row.
Becomes(m) ==
  /\ Free({"membership"})
  /\ membership' = m
  /\ UNCHANGED <<deleted, requesterOk>>

Others ==
  /\ \/ membership = "active" /\ Becomes("removed")              \* soft_delete_user
     \/ membership = "removed" /\ Becomes("active")              \* restore_user
     \/ membership # "inactive" /\ Becomes("inactive")           \* disable_user
     \/ membership = "inactive" /\ Becomes("active")             \* enable_user
     \/ /\ Free({"target"})                                      \* (un)delete_account
        /\ deleted' = ~deleted
        /\ UNCHANGED <<membership, requesterOk>>
     \/ /\ Free({"requester"})
        /\ requesterOk' = ~requesterOk
        /\ UNCHANGED <<membership, deleted>>
  /\ UNCHANGED <<request, approver, hold, auth, caller, txn, claimedBy>>

Judging(c, r) ==
  \/ JudgeCreate(c, r) \/ JudgeClaim(c, r)
  \/ \E a \in Approvers : JudgeApproval(c, r, a) \/ JudgeIssue(c, r, a)

Next ==
  \/ \E c \in Callers :
       \/ Create(c) \/ Approve(c) \/ Issue(c) \/ Claim(c) \/ RollBack(c)
       \/ \E r \in Requests : Judging(c, r) \/ Start(c, r) \/ Unresolve(c, r)
  \/ \E r \in Requests :
       \/ Cancel(r) \/ Expire(r) \/ Revoke(r)
       \/ \E a \in Approvers : Reject(r, a)
  \/ \E h \in Holds : Release(h) \/ \E scope \in Scopes : Place(h, scope)
  \/ Others

Spec == Init /\ [][Next]_vars

-----------------------------------------------------------------------------

\* At most one request for the target is open, though requests are judged
\* eligible again and again while others come and go.
OneOpenRequest == \A q, r \in Requests : Open(q) /\ Open(r) => q = r

\* Only the session that made the standing claim can move it on: a session
\* whose claim was revoked cannot act on one that another made since, not even
\* for the same executor.
ClaimIsOwned ==
  \A r \in Requests, c \in Callers :
    auth[r].state \in InClaim /\ Presents(c, r) => c = claimedBy[r]

\* A claim in progress is never replaced by a new authorization, although the
\* password may be checked again as soon as the first check has expired, and
\* that may be while the claim it allowed is still on its way to commit.
ClaimNotReplaced ==
  [][\A r \in Requests : auth[r].state \in InClaim => auth'[r].state # "ACTIVE"]_vars

\* What the claim was judged by still holds when it commits: no hold is placed,
\* no restore, deletion or loss of the workspace by the requester slips in
\* between the judgement and the commit.
ClaimOnEligible ==
  [][\A r \in Requests : auth[r].state = "ACTIVE" /\ auth'[r].state = "CLAIMED" =>
       /\ requesterOk /\ membership = "removed" /\ ~deleted
       /\ \A h \in Holds : ~Applies(h)]_vars

\* Nobody executes what they approved, through every reissue to another.
ExecutorIsAnother ==
  \A r \in Requests : auth[r].state # "none" => auth[r].executor # approver[r]
=============================================================================
