-------------------------- MODULE AccountPurgeProofs --------------------------
(***************************************************************************)
(* Proofs about AccountPurge, for any number of owners, sessions, holds,   *)
(* requests and generations.                                               *)
(***************************************************************************)
EXTENDS AccountPurge, TLAPS

USE AccountConstants DEF Requests, Generations

(***************************************************************************)
(* Type correctness.                                                       *)
(***************************************************************************)
LEMMA TypeInit == Init => TypeOK
<1> SUFFICES ASSUME Init PROVE TypeOK
  OBVIOUS
<1>1. FreeHold \in LegalHold
  BY DEF FreeHold, LegalHold, Scopes
<1>2. /\ membership \in {"active", "removed", "inactive"}
      /\ deleted \in BOOLEAN /\ requesterOk \in BOOLEAN
  BY DEF Init
<1>3. hold \in [Holds -> LegalHold]
  BY <1>1 DEF Init
<1> QED
  BY <1>2, <1>3 DEF Init, TypeOK, RequestState

\* What the actions write into an authorization row.
LEMMA AuthUpdates ==
  ASSUME NEW a \in ExecutionAuthorization
  PROVE  /\ [a EXCEPT !.fresh = FALSE] \in ExecutionAuthorization
         /\ \A st \in {"REVOKED"} \union InClaim : \A g \in Generations \ {0} :
              [a EXCEPT !.state = st, !.generation = g] \in ExecutionAuthorization
<1>1. [a EXCEPT !.fresh = FALSE] \in ExecutionAuthorization
  BY Zenon DEF ExecutionAuthorization
<1>2. ASSUME NEW st \in {"REVOKED"} \union InClaim, NEW g \in Generations \ {0}
      PROVE  [a EXCEPT !.state = st, !.generation = g] \in ExecutionAuthorization
  <2>1. st \in {"ACTIVE", "REVOKED"} \union InClaim
    OBVIOUS
  <2> QED
    BY <2>1, ZenonT(60) DEF ExecutionAuthorization
<1> QED
  BY <1>1, <1>2

\* A row that is not the empty one is an authorization.
LEMMA AuthRow ==
  ASSUME TypeOK, NEW r \in Requests, auth[r].state # "none"
  PROVE  auth[r] \in ExecutionAuthorization
  BY DEF TypeOK, NoAuth

\* The next generation is one, under the bound.
LEMMA NextGeneration ==
  ASSUME TypeOK, NEW r \in Requests, auth[r].generation < MaxGenerations
  PROVE  auth[r].generation \in Nat /\ auth[r].generation + 1 \in Generations \ {0}
<1>1. auth[r].generation \in Nat
  BY DEF TypeOK, NoAuth, ExecutionAuthorization
<1> QED
  BY <1>1

(***************************************************************************)
(* The locks.  A judgement is made with every row locked, so there is one  *)
(* in hand at most, and what it found stays so until it is committed: a    *)
(* step that could disturb it asks for one of the rows.                    *)
(***************************************************************************)
Txns == [kind : {"create", "approve", "issue", "claim"}, request : Requests,
         actor : Approvers \union {NoOne}]

OneTxn == \A c, d \in Callers : txn[c] # NoTxn /\ txn[d] # NoTxn => c = d

JudgedFor(kind, c, r, a) ==
  CASE kind = "create"  -> request[r] = "none"
    [] kind = "approve" -> request[r] = "REQUESTED" /\ a \in Approvers
    [] kind = "issue"   -> /\ request[r] = "APPROVED" /\ a \in Approvers /\ MayExecute(r, a)
                           /\ Reissuable(r) /\ auth[r].generation < MaxGenerations
    [] kind = "claim"   -> /\ request[r] = "APPROVED" /\ Presents(c, r)
                           /\ auth[r].state = "ACTIVE" /\ auth[r].generation < MaxGenerations

Judged(c) ==
  /\ Eligible(txn[c].request)
  /\ JudgedFor(txn[c].kind, c, txn[c].request, txn[c].actor)

JudgementsStand == \A c \in Callers : txn[c] # NoTxn => Judged(c)

Vacant == \A c \in Callers : txn[c] = NoTxn

\* Whoever asks for one of the rows finds no judgement in hand.
LEMMA AsksForRow ==
  ASSUME NEW S \in SUBSET Rows, S # {}, Free(S)
  PROVE  Vacant
  BY DEF Free, Locks, Vacant

LEMMA VacantStands == Vacant => OneTxn /\ JudgementsStand
  BY DEF Vacant, OneTxn, JudgementsStand

\* The one judgement in hand is committed or given up.
LEMMA InHand ==
  ASSUME TypeOK, OneTxn, NEW c \in Callers, txn[c] # NoTxn, txn' = [txn EXCEPT ![c] = NoTxn]
  PROVE  Vacant' /\ txn[c] \in Txns
  BY DEF TypeOK, OneTxn, Vacant, Txns

LEMMA CommitInHand ==
  ASSUME TypeOK, NEW c \in Callers, NEW k \in {"create", "approve", "issue", "claim"},
         Commits(c, k)
  PROVE  txn[c] # NoTxn /\ txn[c] \in Txns /\ txn[c].kind = k
         /\ txn' = [txn EXCEPT ![c] = NoTxn]
<1>1. txn[c].kind = k /\ txn' = [txn EXCEPT ![c] = NoTxn]
  BY DEF Commits
<1>2. txn[c] # NoTxn
  BY <1>1 DEF NoTxn
<1> QED
  BY <1>1, <1>2 DEF TypeOK, Txns

\* What the commits do, with what was judged before: to a request,
CreateOf(r) ==
  /\ request[r] = "none" /\ Eligible(r)
  /\ request' = [request EXCEPT ![r] = "REQUESTED"]
  /\ UNCHANGED <<target, approver, hold, auth, caller, claimedBy>>

ApproveOf(r, a) ==
  /\ request[r] = "REQUESTED" /\ Eligible(r)
  /\ request' = [request EXCEPT ![r] = "APPROVED"]
  /\ approver' = [approver EXCEPT ![r] = a]
  /\ UNCHANGED <<target, hold, auth, caller, claimedBy>>

\* and to an authorization.
IssueOf(c, r, e) ==
  /\ request[r] = "APPROVED" /\ Eligible(r)
  /\ MayExecute(r, e) /\ Reissuable(r)
  /\ auth[r].generation < MaxGenerations
  /\ auth' = [auth EXCEPT ![r] = Issued(r, e)]
  /\ caller' = [caller EXCEPT ![c] =
       [request |-> r, executor |-> e, generation |-> auth'[r].generation]]
  /\ claimedBy' = [claimedBy EXCEPT ![r] = NoOne]
  /\ UNCHANGED <<target, request, approver, hold>>

ClaimOf(c, r) ==
  /\ request[r] = "APPROVED" /\ Eligible(r)
  /\ Presents(c, r) /\ auth[r].state = "ACTIVE"
  /\ Moves(c, r, "CLAIMED")
  /\ claimedBy' = [claimedBy EXCEPT ![r] = c]
  /\ UNCHANGED <<target, request, approver, hold>>

\* The request steps and the legal holds.
ReviewStep ==
  \/ \E r \in Requests :
       \/ CreateOf(r) \/ Cancel(r)
       \/ \E a \in Approvers : ApproveOf(r, a) \/ Reject(r, a)
  \/ \E h \in Holds : Release(h) \/ \E scope \in Scopes : Place(h, scope)

\* The steps of authorizations.
AuthStep(r) ==
  \/ Expire(r) \/ Revoke(r)
  \/ \E c \in Callers :
       \/ \E e \in Approvers : IssueOf(c, r, e)
       \/ ClaimOf(c, r) \/ Start(c, r) \/ Unresolve(c, r)

\* A judgement, or giving it up: nothing else changes.
TxnStep ==
  /\ UNCHANGED <<target, request, approver, hold, auth, caller, claimedBy>>
  /\ \E c \in Callers :
       \/ RollBack(c)
       \/ \E r \in Requests : Judging(c, r)

LEMMA CommitSplit ==
  ASSUME TypeOK, JudgementsStand, NEW c \in Callers
  PROVE  /\ Create(c) => \E r \in Requests : CreateOf(r)
         /\ Approve(c) => \E r \in Requests, a \in Approvers : ApproveOf(r, a)
         /\ Issue(c) => \E r \in Requests, e \in Approvers : IssueOf(c, r, e)
         /\ Claim(c) => \E r \in Requests : ClaimOf(c, r)
<1> DEFINE r == txn[c].request
           a == txn[c].actor
<1> HIDE DEF r, a
<1>0. ASSUME NEW k \in {"create", "approve", "issue", "claim"}, Commits(c, k)
      PROVE  r \in Requests /\ Eligible(r) /\ JudgedFor(k, c, r, a)
  <2>1. txn[c] # NoTxn /\ txn[c] \in Txns /\ txn[c].kind = k
    BY <1>0, CommitInHand
  <2> QED
    BY <2>1 DEF JudgementsStand, Judged, r, a, Txns
<1>1. ASSUME Create(c) PROVE CreateOf(r) /\ r \in Requests
  BY <1>0, <1>1 DEF Create, CreateOf, JudgedFor, r
<1>2. ASSUME Approve(c) PROVE ApproveOf(r, a) /\ r \in Requests /\ a \in Approvers
  BY <1>0, <1>2 DEF Approve, ApproveOf, JudgedFor, r, a
<1>3. ASSUME Issue(c) PROVE IssueOf(c, r, a) /\ r \in Requests /\ a \in Approvers
  BY <1>0, <1>3 DEF Issue, IssueOf, JudgedFor, r, a
<1>4. ASSUME Claim(c) PROVE ClaimOf(c, r) /\ r \in Requests
  BY <1>0, <1>4 DEF Claim, ClaimOf, JudgedFor, r
<1> QED
  BY <1>1, <1>2, <1>3, <1>4

LEMMA NextSplit ==
  TypeOK /\ JudgementsStand /\ Next =>
    ReviewStep \/ Others \/ TxnStep \/ \E r \in Requests : AuthStep(r)
<1> SUFFICES ASSUME TypeOK, JudgementsStand, Next
             PROVE  ReviewStep \/ Others \/ TxnStep \/ \E r \in Requests : AuthStep(r)
  OBVIOUS
<1>1. ASSUME NEW c \in Callers, Create(c) \/ Approve(c)
      PROVE  ReviewStep
  BY <1>1, CommitSplit DEF ReviewStep
<1>2. ASSUME NEW c \in Callers, Issue(c) \/ Claim(c)
      PROVE  \E r \in Requests : AuthStep(r)
  BY <1>2, CommitSplit, Zenon DEF AuthStep
<1>3. ASSUME NEW c \in Callers, RollBack(c) \/ \E r \in Requests : Judging(c, r)
      PROVE  TxnStep
  BY <1>3 DEF TxnStep, RollBack, Judging, JudgeCreate, JudgeApproval, JudgeIssue, JudgeClaim,
              Judges
<1> QED
  BY <1>1, <1>2, <1>3, Zenon DEF Next, ReviewStep, AuthStep

\* What a step makes of the judgement in hand.
LEMMA TxnInductive ==
  TypeOK /\ OneTxn /\ JudgementsStand /\ [Next]_vars =>
    txn' \in [Callers -> {NoTxn} \union Txns] /\ OneTxn' /\ JudgementsStand'
<1> SUFFICES ASSUME TypeOK, OneTxn, JudgementsStand, [Next]_vars
             PROVE  txn' \in [Callers -> {NoTxn} \union Txns] /\ OneTxn' /\ JudgementsStand'
  OBVIOUS
<1>0. txn \in [Callers -> {NoTxn} \union Txns]
  BY DEF TypeOK, Txns
<1>1. Vacant' => OneTxn' /\ JudgementsStand'
  BY DEF Vacant, OneTxn, JudgementsStand
<1>2. ASSUME NEW c \in Callers, txn[c] # NoTxn, txn' = [txn EXCEPT ![c] = NoTxn]
      PROVE  txn' \in [Callers -> {NoTxn} \union Txns] /\ Vacant'
  BY <1>0, <1>2, InHand
<1>3. ASSUME NEW c \in Callers, Create(c) \/ Approve(c) \/ Issue(c) \/ Claim(c) \/ RollBack(c)
      PROVE  txn' \in [Callers -> {NoTxn} \union Txns] /\ Vacant'
  <2>1. \/ RollBack(c)
        \/ \E k \in {"create", "approve", "issue", "claim"} : Commits(c, k)
    BY <1>3 DEF Create, Approve, Issue, Claim
  <2> QED
    BY <2>1, <1>2, CommitInHand DEF RollBack
<1>4. ASSUME NEW c \in Callers, NEW r \in Requests, Judging(c, r)
      PROVE  txn' \in [Callers -> {NoTxn} \union Txns] /\ OneTxn' /\ JudgementsStand'
  <2>1. PICK k \in {"create", "approve", "issue", "claim"}, a \in Approvers \union {NoOne} :
          Judges(c, k, r, a) /\ JudgedFor(k, c, r, a)
    <3>1. JudgeCreate(c, r) => Judges(c, "create", r, NoOne) /\ JudgedFor("create", c, r, NoOne)
      BY DEF JudgeCreate, JudgedFor
    <3>2. JudgeClaim(c, r) => /\ Judges(c, "claim", r, auth[r].executor)
                              /\ JudgedFor("claim", c, r, auth[r].executor)
      BY DEF JudgeClaim, JudgedFor
    <3>3. JudgeClaim(c, r) => auth[r].executor \in Approvers \union {NoOne}
      BY DEF TypeOK, NoAuth, ExecutionAuthorization
    <3>4. ASSUME NEW a \in Approvers
          PROVE  /\ JudgeApproval(c, r, a) =>
                      Judges(c, "approve", r, a) /\ JudgedFor("approve", c, r, a)
                 /\ JudgeIssue(c, r, a) =>
                      Judges(c, "issue", r, a) /\ JudgedFor("issue", c, r, a)
      BY DEF JudgeApproval, JudgeIssue, JudgedFor
    <3> QED
      BY <1>4, <3>1, <3>2, <3>3, <3>4, Zenon DEF Judging
  <2> DEFINE t == [kind |-> k, request |-> r, actor |-> a]
  <2>2. Vacant
    BY <2>1, AsksForRow DEF Judges, Rows
  <2>3. t \in Txns /\ t.request = r /\ t.kind = k /\ t.actor = a
    BY DEF Txns
  <2>4. txn' = [txn EXCEPT ![c] = t]
    BY <2>1 DEF Judges
  <2> HIDE DEF t
  <2>5. txn'[c] = t /\ \A d \in Callers : txn'[d] # NoTxn => d = c
    BY <1>0, <2>2, <2>4 DEF Vacant
  <2>6. UNCHANGED <<target, request, approver, hold, auth, caller>> /\ Eligible(r)
    BY <2>1 DEF Judges
  <2>7. Eligible(r)' /\ JudgedFor(k, c, r, a)'
    BY <2>1, <2>6 DEF Eligible, Applies, Open, JudgedFor, MayExecute, Reissuable, Presents,
                      target
  <2>8. Judged(c)'
    BY <2>3, <2>5, <2>7 DEF Judged
  <2> QED
    BY <1>0, <2>3, <2>4, <2>5, <2>8 DEF OneTxn, JudgementsStand
\* The steps that ask for a row.
<1>5. ASSUME NEW S \in SUBSET Rows, S # {}, Free(S), UNCHANGED txn
      PROVE  txn' \in [Callers -> {NoTxn} \union Txns] /\ Vacant'
  BY <1>0, <1>5, AsksForRow DEF Vacant
<1>6. ASSUME NEW r \in Requests,
             \/ Cancel(r) \/ Revoke(r)
             \/ \E a \in Approvers : Reject(r, a)
             \/ \E c \in Callers : Start(c, r) \/ Unresolve(c, r)
      PROVE  txn' \in [Callers -> {NoTxn} \union Txns] /\ Vacant'
  BY <1>6, <1>5 DEF Cancel, Revoke, Reject, Start, Unresolve, Rows
<1>7. ASSUME NEW h \in Holds, NEW scope \in Scopes, Place(h, scope)
      PROVE  txn' \in [Callers -> {NoTxn} \union Txns] /\ Vacant'
  BY <1>7, <1>5 DEF Place, Rows
<1>8. ASSUME Others
      PROVE  txn' \in [Callers -> {NoTxn} \union Txns] /\ Vacant'
  <2>1. UNCHANGED txn
    BY <1>8 DEF Others
  <2>2. \E S \in {{"membership"}, {"target"}, {"requester"}} : Free(S)
    BY <1>8 DEF Others, Becomes
  <2> QED
    BY <2>1, <2>2, <1>5 DEF Rows
\* The steps that ask for none: the clock, a hold for another workspace.
<1>9. ASSUME UNCHANGED <<txn, target, request, approver, caller>>,
             \A h \in Holds : Applies(h)' => Applies(h),
             \A r \in Requests :
               /\ auth'[r].state = auth[r].state /\ auth'[r].generation = auth[r].generation
               /\ auth'[r].executor = auth[r].executor /\ (auth'[r].fresh => auth[r].fresh)
      PROVE  txn' \in [Callers -> {NoTxn} \union Txns] /\ OneTxn' /\ JudgementsStand'
  <2>1. OneTxn' /\ txn' \in [Callers -> {NoTxn} \union Txns]
    BY <1>0, <1>9 DEF OneTxn
  <2>2. ASSUME NEW c \in Callers, txn'[c] # NoTxn PROVE Judged(c)'
    <3>1. txn[c] \in Txns /\ Judged(c) /\ txn'[c] = txn[c]
      BY <1>0, <1>9, <2>2 DEF JudgementsStand
    <3>2. PICK r \in Requests : r = txn[c].request
      BY <3>1 DEF Txns
    <3>3. Eligible(r)'
      BY <1>9, <3>1, <3>2 DEF Judged, Eligible, Open, target
    <3>4. \A k \in {"create", "approve", "issue", "claim"}, a \in Approvers \union {NoOne} :
            JudgedFor(k, c, r, a) => JudgedFor(k, c, r, a)'
      <4>1. /\ request'[r] = request[r] /\ approver'[r] = approver[r] /\ caller'[c] = caller[c]
            /\ auth'[r].state = auth[r].state /\ auth'[r].generation = auth[r].generation
            /\ auth'[r].executor = auth[r].executor /\ (auth'[r].fresh => auth[r].fresh)
        BY <1>9, <3>2
      <4>2. Reissuable(r) => Reissuable(r)'
        BY <4>1 DEF Reissuable
      <4> QED
        BY <4>1, <4>2 DEF JudgedFor, MayExecute, Presents
    <3>5. JudgedFor(txn[c].kind, c, r, txn[c].actor)'
      BY <3>1, <3>2, <3>4 DEF Judged, Txns
    <3> QED
      BY <3>1, <3>2, <3>3, <3>5 DEF Judged
  <2> QED
    BY <2>1, <2>2 DEF JudgementsStand
<1>10. ASSUME NEW r \in Requests, Expire(r)
       PROVE  txn' \in [Callers -> {NoTxn} \union Txns] /\ OneTxn' /\ JudgementsStand'
  <2>1. auth[r] \in ExecutionAuthorization
    BY <1>10, AuthRow DEF Expire
  <2>2. \A q \in Requests :
          /\ auth'[q].state = auth[q].state /\ auth'[q].generation = auth[q].generation
          /\ auth'[q].executor = auth[q].executor /\ (auth'[q].fresh => auth[q].fresh)
    BY <1>10, <2>1 DEF Expire, TypeOK, ExecutionAuthorization
  <2> QED
    BY <1>10, <1>9, <2>2 DEF Expire, Applies
<1>11. ASSUME NEW h \in Holds, Release(h)
       PROVE  txn' \in [Callers -> {NoTxn} \union Txns] /\ OneTxn' /\ JudgementsStand'
  <2>1. CASE Applies(h)
    BY <1>1, <1>5, <1>11, <2>1 DEF Release, Rows
  <2>2. CASE ~Applies(h)
    <3>1. \A g \in Holds : Applies(g)' => Applies(g)
      BY <1>11, <2>2 DEF Release, Applies, TypeOK, LegalHold
    <3> QED
      BY <1>9, <1>11, <3>1 DEF Release
  <2> QED
    BY <2>1, <2>2
<1>12. CASE UNCHANGED vars
  BY <1>9, <1>12 DEF vars, target, Applies
<1> QED
  BY <1>1, <1>3, <1>4, <1>6, <1>7, <1>8, <1>10, <1>11, <1>12, Zenon DEF Next

(***************************************************************************)
(* The types of the other variables.                                       *)
(***************************************************************************)
TypeOfTxn == txn \in [Callers -> {NoTxn} \union Txns]

LEMMA TypeReviewStep == TypeOK /\ ReviewStep /\ TypeOfTxn' => TypeOK'
<1> SUFFICES ASSUME TypeOK, ReviewStep, TypeOfTxn' PROVE TypeOK'
  OBVIOUS
<1> USE DEF TypeOK, TypeOfTxn, Txns
<1>1. ASSUME NEW r \in Requests, CreateOf(r) PROVE TypeOK'
  BY <1>1 DEF CreateOf, RequestState, target
<1>2. ASSUME NEW r \in Requests, Cancel(r) PROVE TypeOK'
  BY <1>2 DEF Cancel, RequestState, Terminal, target
<1>3. ASSUME NEW r \in Requests, NEW a \in Approvers, ApproveOf(r, a) PROVE TypeOK'
  BY <1>3 DEF ApproveOf, RequestState, target
<1>4. ASSUME NEW r \in Requests, NEW a \in Approvers, Reject(r, a) PROVE TypeOK'
  BY <1>4 DEF Reject, RequestState, Terminal, target
<1>5. ASSUME NEW h \in Holds, Release(h) PROVE TypeOK'
  BY <1>5 DEF Release, LegalHold, target
<1>6. ASSUME NEW h \in Holds, NEW scope \in Scopes, Place(h, scope) PROVE TypeOK'
  BY <1>6 DEF Place, LegalHold, target
<1> QED
  BY <1>1, <1>2, <1>3, <1>4, <1>5, <1>6 DEF ReviewStep

LEMMA TypeOthers == TypeOK /\ Others /\ TypeOfTxn' => TypeOK'
<1> SUFFICES ASSUME TypeOK, Others, TypeOfTxn' PROVE TypeOK'
  OBVIOUS
<1>1. /\ membership' \in {"active", "removed", "inactive"}
      /\ deleted' \in BOOLEAN /\ requesterOk' \in BOOLEAN
  BY Zenon DEF TypeOK, Others, Becomes
<1> QED
  BY <1>1 DEF TypeOK, Others, TypeOfTxn, Txns

\* A claim, its start and its failure to resolve: session c moves row r on.
LEMMA TypeMoves ==
  ASSUME TypeOK, NEW c \in Callers, NEW r \in Requests, NEW st \in InClaim,
         auth[r].state # "none", Presents(c, r), Moves(c, r, st)
  PROVE  /\ auth' \in [Requests -> {NoAuth} \union ExecutionAuthorization]
         /\ caller' \in [Callers -> {Nothing} \union
              [request : Requests, executor : Approvers, generation : Generations]]
<1> DEFINE g == auth[r].generation + 1
<1>1. auth[r] \in ExecutionAuthorization /\ g \in Generations \ {0}
  BY AuthRow, NextGeneration DEF Moves
<1>2. auth' = [auth EXCEPT ![r] = [auth[r] EXCEPT !.state = st, !.generation = g]]
  BY DEF Moves
<1>3. [auth[r] EXCEPT !.state = st, !.generation = g] \in ExecutionAuthorization
  BY <1>1, AuthUpdates
<1>4. caller' = [caller EXCEPT ![c] = [caller[c] EXCEPT !.generation = g]]
  BY DEF Moves, Presents
<1>5. caller[c] \in [request : Requests, executor : Approvers, generation : Generations]
  BY DEF TypeOK, Presents, Nothing
<1>6. [caller[c] EXCEPT !.generation = g]
        \in [request : Requests, executor : Approvers, generation : Generations]
  BY <1>1, <1>5
<1> QED
  BY <1>2, <1>3, <1>4, <1>6 DEF TypeOK

LEMMA TypeAuthStep ==
  ASSUME TypeOK, NEW r \in Requests, AuthStep(r), TypeOfTxn'
  PROVE  TypeOK'
<1> SUFFICES /\ auth' \in [Requests -> {NoAuth} \union ExecutionAuthorization]
             /\ caller' \in [Callers -> {Nothing} \union
                  [request : Requests, executor : Approvers, generation : Generations]]
             /\ claimedBy' \in [Requests -> Callers \union {NoOne}]
  BY DEF TypeOK, TypeOfTxn, Txns, AuthStep, Expire, Revoke, IssueOf, ClaimOf, Start,
         Unresolve, target
<1>1. CASE Expire(r)
  <2>1. [auth[r] EXCEPT !.fresh = FALSE] \in ExecutionAuthorization
    BY <1>1, AuthRow, AuthUpdates DEF Expire
  <2> QED
    BY <1>1, <2>1 DEF Expire, TypeOK
<1>2. CASE Revoke(r)
  <2>1. auth[r] \in ExecutionAuthorization /\ auth[r].generation + 1 \in Generations \ {0}
    BY <1>2, AuthRow, NextGeneration DEF Revoke
  <2>2. [auth[r] EXCEPT !.state = "REVOKED", !.generation = auth[r].generation + 1]
          \in ExecutionAuthorization
    BY <2>1, AuthUpdates
  <2>3. auth' = [auth EXCEPT ![r] =
          [auth[r] EXCEPT !.state = "REVOKED", !.generation = auth[r].generation + 1]]
    BY <1>2 DEF Revoke
  <2> QED
    BY <1>2, <2>2, <2>3 DEF Revoke, TypeOK
<1>3. ASSUME NEW c \in Callers, NEW e \in Approvers, IssueOf(c, r, e)
      PROVE  /\ auth' \in [Requests -> {NoAuth} \union ExecutionAuthorization]
             /\ caller' \in [Callers -> {Nothing} \union
                  [request : Requests, executor : Approvers, generation : Generations]]
             /\ claimedBy' \in [Requests -> Callers \union {NoOne}]
  <2>1. auth[r].generation + 1 \in Generations \ {0}
    BY <1>3, NextGeneration DEF IssueOf
  <2>2. Issued(r, e) \in ExecutionAuthorization
    BY <2>1 DEF Issued, ExecutionAuthorization
  <2>3. auth'[r].generation \in Generations
    BY <1>3, <2>1 DEF IssueOf, Issued, TypeOK
  <2> QED
    BY <1>3, <2>2, <2>3 DEF IssueOf, TypeOK
<1>4. ASSUME NEW c \in Callers, ClaimOf(c, r) \/ Start(c, r) \/ Unresolve(c, r)
      PROVE  /\ auth' \in [Requests -> {NoAuth} \union ExecutionAuthorization]
             /\ caller' \in [Callers -> {Nothing} \union
                  [request : Requests, executor : Approvers, generation : Generations]]
             /\ claimedBy' \in [Requests -> Callers \union {NoOne}]
  <2>1. /\ Presents(c, r) /\ auth[r].state # "none"
        /\ \E st \in InClaim : Moves(c, r, st)
    BY <1>4 DEF ClaimOf, Start, Unresolve, InClaim
  <2> QED
    BY <1>4, <2>1, TypeMoves DEF TypeOK, ClaimOf, Start, Unresolve
<1> QED
  BY <1>1, <1>2, <1>3, <1>4 DEF AuthStep

LockInv == TypeOK /\ OneTxn /\ JudgementsStand

LEMMA LockInductive == LockInv /\ [Next]_vars => LockInv'
<1> SUFFICES ASSUME LockInv, [Next]_vars PROVE LockInv'
  OBVIOUS
<1>1. TypeOfTxn' /\ OneTxn' /\ JudgementsStand'
  BY TxnInductive DEF LockInv, TypeOfTxn
<1>2. CASE TxnStep \/ UNCHANGED vars
  BY <1>1, <1>2 DEF LockInv, TypeOK, TypeOfTxn, Txns, TxnStep, vars, target
<1> QED
  BY <1>1, <1>2, NextSplit, TypeReviewStep, TypeOthers, TypeAuthStep DEF LockInv

LEMMA LockInvariant == Spec => []LockInv
<1>1. Init => OneTxn /\ JudgementsStand
  BY DEF Init, OneTxn, JudgementsStand
<1> QED
  BY <1>1, TypeInit, LockInductive, PTL DEF Spec, LockInv

\* Every variable keeps its type (TypeOK), and an approved request names who
\* approved it (approve_account_purge_request).
THEOREM TypeCorrect == Spec => []TypeOK
  BY LockInvariant, PTL DEF LockInv

\* What a call has judged under its locks (the target eligible, the state of
\* the request and of the authorization) holds until the call commits, however
\* the other calls, the members' handlers and the clock interleave
\* (_load_state with lock=True, then _evaluate or _recheck, then the commit).
THEOREM JudgementsHold == Spec => []JudgementsStand
  BY LockInvariant, PTL DEF LockInv

(***************************************************************************)
(* Requests.                                                               *)
(***************************************************************************)

\* However many requests are created, reviewed and judged eligible, one for
\* the target is open at most (create_account_purge_request, _evaluate).
THEOREM OneRequest == Spec => []OneOpenRequest
<1>1. Init => OneOpenRequest
  BY DEF Init, OneOpenRequest, Open, Terminal
<1>2. LockInv /\ OneOpenRequest /\ [Next]_vars => OneOpenRequest'
  <2> SUFFICES ASSUME TypeOK, JudgementsStand, OneOpenRequest, [Next]_vars PROVE OneOpenRequest'
    BY DEF LockInv
  <2>1. ASSUME NEW r \in Requests, CreateOf(r) PROVE OneOpenRequest'
    BY <2>1 DEF CreateOf, Eligible, OneOpenRequest, Open, TypeOK
  \* Every other step leaves a request as open as it was, or closes it.
  <2>2. ASSUME \A q \in Requests : Open(q)' => Open(q) PROVE OneOpenRequest'
    BY <2>2 DEF OneOpenRequest
  <2>3. ASSUME NEW r \in Requests,
               Cancel(r) \/ \E a \in Approvers : ApproveOf(r, a) \/ Reject(r, a)
        PROVE  \A q \in Requests : Open(q)' => Open(q)
    BY <2>3 DEF Cancel, ApproveOf, Reject, Open, Terminal, TypeOK
  <2>4. ASSUME UNCHANGED request PROVE \A q \in Requests : Open(q)' => Open(q)
    BY <2>4 DEF Open
  <2>5. CASE ReviewStep
    BY <2>1, <2>2, <2>3, <2>4, <2>5 DEF ReviewStep, Release, Place
  <2>6. CASE Others \/ TxnStep \/ UNCHANGED vars
    BY <2>2, <2>4, <2>6 DEF Others, TxnStep, vars
  <2>7. ASSUME NEW r \in Requests, AuthStep(r) PROVE OneOpenRequest'
    BY <2>2, <2>4, <2>7 DEF AuthStep, Expire, Revoke, IssueOf, ClaimOf, Start, Unresolve
  <2> QED
    BY <2>5, <2>6, <2>7, NextSplit
<1> QED
  BY <1>1, <1>2, LockInvariant, PTL DEF Spec

(***************************************************************************)
(* Authorizations.  An authorization exists for an approved request only,  *)
(* so the approver it was checked against stays the approver; and no       *)
(* session knows a generation that is still to come, so that whoever       *)
(* learns a new generation first is the only one to present it.            *)
(***************************************************************************)
AuthorizedAfterApproval ==
  \A r \in Requests : auth[r].state # "none" => request[r] = "APPROVED"

GenerationsKnown ==
  \A r \in Requests, c \in Callers :
    caller[c].request = r => caller[c].generation <= auth[r].generation

ClaimInv ==
  /\ AuthorizedAfterApproval
  /\ GenerationsKnown
  /\ ExecutorIsAnother
  /\ ClaimIsOwned

LEMMA ClaimInit == Init => ClaimInv
  BY DEF Init, ClaimInv, AuthorizedAfterApproval, GenerationsKnown, ExecutorIsAnother,
         ClaimIsOwned, NoAuth, Nothing, InClaim

\* The review of requests disturbs no authorization.
LEMMA ClaimReviewStep == TypeOK /\ ClaimInv /\ ReviewStep => ClaimInv'
<1> SUFFICES ASSUME TypeOK, ClaimInv, ReviewStep PROVE ClaimInv'
  OBVIOUS
<1>1. UNCHANGED <<auth, caller, claimedBy>>
  BY DEF ReviewStep, CreateOf, Cancel, ApproveOf, Reject, Release, Place
<1>2. \A r \in Requests :
        auth[r].state # "none" => request'[r] = request[r] /\ approver'[r] = approver[r]
  BY DEF ClaimInv, AuthorizedAfterApproval, TypeOK, ReviewStep, CreateOf, Cancel, ApproveOf,
         Reject, Release, Place
<1>3. AuthorizedAfterApproval' /\ ExecutorIsAnother'
  BY <1>1, <1>2 DEF ClaimInv, AuthorizedAfterApproval, ExecutorIsAnother
<1>4. GenerationsKnown' /\ ClaimIsOwned'
  BY <1>1 DEF ClaimInv, GenerationsKnown, ClaimIsOwned, Presents
<1> QED
  BY <1>3, <1>4 DEF ClaimInv

LEMMA ClaimAuthStep ==
  ASSUME TypeOK, ClaimInv, NEW r \in Requests, AuthStep(r)
  PROVE  ClaimInv'
<1>1. /\ UNCHANGED <<request, approver>>
      /\ request[r] = "APPROVED"
  BY DEF AuthStep, Expire, Revoke, IssueOf, ClaimOf, Start, Unresolve,
         ClaimInv, AuthorizedAfterApproval
<1>2. \A q \in Requests : q # r => auth'[q] = auth[q] /\ claimedBy'[q] = claimedBy[q]
  BY DEF TypeOK, AuthStep, Expire, Revoke, IssueOf, ClaimOf, Start, Unresolve, Moves
<1>3. /\ \A q \in Requests : auth[q].generation \in Nat
      /\ \A c \in Callers : caller[c].generation \in Nat
  BY DEF TypeOK, NoAuth, ExecutionAuthorization, Nothing
<1>4. AuthorizedAfterApproval'
  BY <1>1, <1>2 DEF ClaimInv, AuthorizedAfterApproval
\* The parts that speak of one request, and of the sessions.
<1> SUFFICES /\ auth'[r].executor # approver[r]
             /\ \A q \in Requests, c \in Callers : caller'[c].request = q =>
                  /\ caller'[c].generation <= auth'[q].generation
                  /\ auth'[q].state \in InClaim /\ Presents(c, q)' => c = claimedBy'[q]
  <2>1. ExecutorIsAnother'
    BY <1>1, <1>2 DEF ClaimInv, ExecutorIsAnother
  <2>2. GenerationsKnown' /\ ClaimIsOwned'
    BY DEF GenerationsKnown, ClaimIsOwned, Presents
  <2> QED
    BY <1>4, <2>1, <2>2 DEF ClaimInv
<1>5. CASE Expire(r) \/ Revoke(r)
  <2>1. /\ auth'[r].executor = auth[r].executor /\ auth[r].state # "none"
        /\ auth'[r].state \notin InClaim
        /\ auth'[r].generation \in {auth[r].generation, auth[r].generation + 1}
        /\ UNCHANGED caller
    <3>1. auth[r] \in ExecutionAuthorization
      BY <1>5, AuthRow DEF Expire, Revoke
    <3> QED
      BY <1>5, <3>1 DEF Expire, Revoke, TypeOK, InClaim, ExecutionAuthorization
  <2> QED
    BY <1>1, <1>2, <1>3, <2>1 DEF ClaimInv, ExecutorIsAnother, GenerationsKnown, ClaimIsOwned,
                                  Presents
<1>6. ASSUME NEW d \in Callers, NEW e \in Approvers, IssueOf(d, r, e)
      PROVE  /\ auth'[r].executor # approver[r]
             /\ \A q \in Requests, c \in Callers : caller'[c].request = q =>
                  /\ caller'[c].generation <= auth'[q].generation
                  /\ auth'[q].state \in InClaim /\ Presents(c, q)' => c = claimedBy'[q]
  <2>1. /\ auth'[r] = [state |-> "ACTIVE", generation |-> auth[r].generation + 1,
                       executor |-> e, fresh |-> TRUE]
        /\ e # approver[r]
        /\ caller'[d] = [request |-> r, executor |-> e, generation |-> auth'[r].generation]
        /\ \A c \in Callers : c # d => caller'[c] = caller[c]
    BY <1>6 DEF IssueOf, Issued, MayExecute, TypeOK
  <2> QED
    BY <1>2, <1>3, <2>1 DEF ClaimInv, GenerationsKnown, ClaimIsOwned, Presents, InClaim
\* The session that moves a claim on is its owner, and only it learns the new
\* generation.
<1>7. ASSUME NEW d \in Callers, ClaimOf(d, r) \/ Start(d, r) \/ Unresolve(d, r)
      PROVE  /\ auth'[r].executor # approver[r]
             /\ \A q \in Requests, c \in Callers : caller'[c].request = q =>
                  /\ caller'[c].generation <= auth'[q].generation
                  /\ auth'[q].state \in InClaim /\ Presents(c, q)' => c = claimedBy'[q]
  <2>1. PICK st \in InClaim : Moves(d, r, st)
    BY <1>7 DEF ClaimOf, Start, Unresolve, InClaim
  <2>2. Presents(d, r) /\ auth[r].state # "none"
    BY <1>7 DEF ClaimOf, Start, Unresolve
  <2>3. auth[r] \in ExecutionAuthorization
    BY <2>2, AuthRow
  <2>4. caller[d] \in [request : Requests, executor : Approvers, generation : Generations]
    BY <2>2 DEF TypeOK, Presents, Nothing
  <2>5. /\ auth'[r].executor = auth[r].executor
        /\ auth'[r].generation = auth[r].generation + 1
        /\ caller'[d].request = r
        /\ caller'[d].generation = auth[r].generation + 1
        /\ \A c \in Callers : c # d => caller'[c] = caller[c]
    BY <2>1, <2>2, <2>3, <2>4 DEF Moves, TypeOK, ExecutionAuthorization, Presents
  <2>6. claimedBy'[r] = d
    BY <1>7, <2>2 DEF ClaimOf, Start, Unresolve, ClaimInv, ClaimIsOwned, TypeOK, InClaim
  <2> QED
    BY <1>2, <1>3, <2>2, <2>5, <2>6
       DEF ClaimInv, ExecutorIsAnother, GenerationsKnown, ClaimIsOwned, Presents
<1> QED
  BY <1>5, <1>6, <1>7 DEF AuthStep

LEMMA ClaimInvariant == Spec => []ClaimInv
<1>1. LockInv /\ ClaimInv /\ [Next]_vars => ClaimInv'
  <2> SUFFICES ASSUME TypeOK, ClaimInv, Others \/ TxnStep \/ UNCHANGED vars PROVE ClaimInv'
    BY NextSplit, ClaimReviewStep, ClaimAuthStep DEF LockInv
  <2> QED
    BY DEF Others, TxnStep, vars, ClaimInv, AuthorizedAfterApproval, GenerationsKnown,
           ExecutorIsAnother, ClaimIsOwned, Presents
<1> QED
  BY <1>1, ClaimInit, LockInvariant, PTL DEF Spec

\* Nobody executes what they approved (_load_actors against
\* every reissue).
THEOREM ExecutorDiffers == Spec => []ExecutorIsAnother
  BY ClaimInvariant, PTL DEF ClaimInv

\* A session whose claim was revoked cannot move on a later one
\* (mark_service_started, mark_claimed_unresolved).
THEOREM ClaimOwned == Spec => []ClaimIsOwned
  BY ClaimInvariant, PTL DEF ClaimInv

(***************************************************************************)
(* Steps.                                                                  *)
(***************************************************************************)

\* A claim in progress is not replaced by a new authorization: a password check
\* that finds the authorization expired cannot commit over a claim that was
\* judged before it expired, for one of the two waits (reauthenticate_and_issue,
\* claim_authorization).
THEOREM ClaimStands == Spec => ClaimNotReplaced
<1>1. LockInv /\ [Next]_vars =>
        [\A r \in Requests : auth[r].state \in InClaim => auth'[r].state # "ACTIVE"]_vars
  <2> SUFFICES ASSUME TypeOK, NEW q \in Requests, AuthStep(q),
                      NEW r \in Requests, auth[r].state \in InClaim
               PROVE  auth'[r].state # "ACTIVE"
    BY NextSplit DEF LockInv, ReviewStep, CreateOf, Cancel, ApproveOf, Reject, Release,
                     Place, Others,
                     TxnStep,
                     vars, InClaim
  <2>1. auth'[r] = auth[r] \/ q = r
    BY DEF TypeOK, AuthStep, Expire, Revoke, IssueOf, ClaimOf, Start, Unresolve, Moves
  <2>2. ~Expire(r) /\ ~ \E c \in Callers, e \in Approvers : IssueOf(c, r, e)
    BY DEF Expire, IssueOf, Reissuable, InClaim
  <2>3. auth[r] \in ExecutionAuthorization
    BY AuthRow DEF InClaim
  <2>4. Revoke(r) => auth'[r].state # "ACTIVE"
    BY <2>3 DEF Revoke, TypeOK, ExecutionAuthorization
  <2>5. ASSUME NEW st \in InClaim, NEW c \in Callers, Moves(c, r, st)
        PROVE  auth'[r].state # "ACTIVE"
    BY <2>3, <2>5 DEF Moves, TypeOK, ExecutionAuthorization, InClaim
  <2> QED
    BY <2>1, <2>2, <2>4, <2>5 DEF AuthStep, ClaimOf, Start, Unresolve, InClaim
<1> QED
  BY <1>1, LockInvariant, PTL DEF Spec, ClaimNotReplaced

\* A claim commits while the target may be purged: neither a hold nor a restore,
\* deletion or loss of the workspace gets in between its judgement and its commit
\* (claim_authorization and the locks of _load_state).
THEOREM ClaimEligible == Spec => ClaimOnEligible
<1>1. LockInv /\ [Next]_vars =>
        [\A r \in Requests : auth[r].state = "ACTIVE" /\ auth'[r].state = "CLAIMED" =>
           /\ requesterOk /\ membership = "removed" /\ ~deleted
           /\ \A h \in Holds : ~Applies(h)]_vars
  <2> SUFFICES ASSUME TypeOK, NEW q \in Requests, AuthStep(q), NEW r \in Requests,
                      auth[r].state = "ACTIVE", auth'[r].state = "CLAIMED"
               PROVE  Eligible(r)
    BY NextSplit DEF LockInv, ReviewStep, CreateOf, Cancel, ApproveOf, Reject, Release,
                     Place, Others,
                     TxnStep,
                     vars, Eligible
  <2>1. auth[r] \in ExecutionAuthorization
    BY AuthRow
  <2>2. auth'[r] = auth[r] \/ q = r
    BY DEF TypeOK, AuthStep, Expire, Revoke, IssueOf, ClaimOf, Start, Unresolve, Moves
  <2>3. ~Expire(r) /\ ~Revoke(r) /\ ~ \E c \in Callers, e \in Approvers : IssueOf(c, r, e)
    BY <2>1 DEF Expire, Revoke, IssueOf, Issued, TypeOK, ExecutionAuthorization
  <2>4. PICK c \in Callers : ClaimOf(c, r) \/ Start(c, r) \/ Unresolve(c, r)
    BY <2>2, <2>3 DEF AuthStep
  <2> QED
    BY <2>4 DEF ClaimOf, Start, Unresolve
<1> QED
  BY <1>1, LockInvariant, PTL DEF Spec, ClaimOnEligible
=============================================================================
