------------------------- MODULE OwnerLifecycleProofs -------------------------
(***************************************************************************)
(* Proofs about OwnerLifecycle, for any number of owners, workspaces,      *)
(* slugs, handlers and deletions.                                          *)
(***************************************************************************)
EXTENDS OwnerLifecycle, FiniteSetTheorems, SequenceTheorems, TLAPS

USE OwnerConstants DEF NotDeleted, Deletion

(***************************************************************************)
(* Handlers.                                                               *)
(***************************************************************************)
Reading ==
  [step : {"delete", "deleting", "restore", "found", "insert"}, user : Owners,
   stamp : {NotDeleted} \union Deletion, chosen : SUBSET Workspaces, fresh : BOOLEAN]

\* A handler at a step has read something.
LEMMA Busy ==
  ASSUME TypeOK, NEW h \in Handlers, handler[h] # Idle
  PROVE  handler[h] \in Reading
  BY DEF TypeOK, Reading

LEMMA AtBusy ==
  ASSUME TypeOK, NEW h \in Handlers, NEW s \in {"delete", "deleting", "restore", "found", "insert"},
         At(h, s)
  PROVE  handler[h] # Idle /\ handler[h] \in Reading
  BY Busy DEF At, Idle

LEMMA ReadingUpdates ==
  ASSUME NEW r \in Reading
  PROVE  /\ [r EXCEPT !.fresh = FALSE] \in Reading
         /\ \A s \in Deletion, c \in SUBSET Workspaces :
              [r EXCEPT !.step = "deleting", !.stamp = s, !.chosen = c] \in Reading
         /\ \A c \in SUBSET Workspaces : [r EXCEPT !.step = "insert", !.chosen = c] \in Reading
<1>1. [r EXCEPT !.fresh = FALSE] \in Reading
  BY Zenon DEF Reading
<1>2. ASSUME NEW s \in Deletion, NEW c \in SUBSET Workspaces
      PROVE  [r EXCEPT !.step = "deleting", !.stamp = s, !.chosen = c] \in Reading
  BY ZenonT(60) DEF Reading
<1>3. ASSUME NEW c \in SUBSET Workspaces
      PROVE  [r EXCEPT !.step = "insert", !.chosen = c] \in Reading
  BY ZenonT(60) DEF Reading
<1> QED
  BY <1>1, <1>2, <1>3

\* What a commit does to the handlers: each ends, or goes on with what it has
\* read, which is now out of date.
Outdated(g) ==
  /\ handler[g] # Idle
  /\ handler'[g] \in Reading
  /\ handler'[g].fresh = FALSE
  /\ handler'[g].step = handler[g].step /\ handler'[g].user = handler[g].user
  /\ handler'[g].stamp = handler[g].stamp /\ handler'[g].chosen = handler[g].chosen
AllAged ==
  /\ handler' \in [Handlers -> {Idle} \union Reading]
  /\ \A g \in Handlers : handler'[g] = Idle \/ Outdated(g)

LEMMA AgedOutdated ==
  ASSUME TypeOK, NEW g \in Handlers, handler[g] # Idle, handler'[g] = Aged(g)
  PROVE  Outdated(g)
<1>1. handler[g] \in Reading
  BY Busy
<1>2. Aged(g) = [handler[g] EXCEPT !.fresh = FALSE] /\ Aged(g) \in Reading
  BY <1>1, ReadingUpdates DEF Aged
<1> QED
  BY <1>1, <1>2 DEF Outdated, Reading

LEMMA AgedAll ==
  ASSUME TypeOK, NEW D \in SUBSET Handlers,
         handler' = [g \in Handlers |-> IF g \in D THEN Idle ELSE Aged(g)]
  PROVE  AllAged
<1>1. \A g \in Handlers : handler'[g] = Idle \/ Outdated(g)
  BY AgedOutdated DEF Aged
<1>2. \A g \in Handlers : handler'[g] \in {Idle} \union Reading
  BY <1>1 DEF Outdated
<1> QED
  BY <1>1, <1>2 DEF AllAged

LEMMA DoneAges ==
  ASSUME TypeOK, NEW h \in Handlers, Done(h)
  PROVE  AllAged /\ raced' \in BOOLEAN
<1>1. handler' = [g \in Handlers |-> IF g \in {h} THEN Idle ELSE Aged(g)]
  BY DEF Done
<1>2. raced' \in BOOLEAN
  BY Zenon DEF Done
<1> QED
  BY <1>1, <1>2, AgedAll

LEMMA ShortAges ==
  ASSUME TypeOK, handler' = [g \in Handlers |-> Aged(g)]
  PROVE  AllAged
<1>1. handler' = [g \in Handlers |-> IF g \in {} THEN Idle ELSE Aged(g)]
  OBVIOUS
<1>2. {} \in SUBSET Handlers
  OBVIOUS
<1> QED
  BY <1>1, <1>2, AgedAll, Zenon

(***************************************************************************)
(* Slugs.                                                                  *)
(***************************************************************************)
\* The first free slug is a workspace that is not there yet.
LEMMA FreeSlugUnused ==
  ASSUME NEW u \in Owners, HasFreeSlug(u)
  PROVE  FreeSlug(u) \in Workspaces /\ state[FreeSlug(u)] = "unused"
<1> DEFINE D == DOMAIN Slugs[u]
           F == {i \in D : state[Slugs[u][i]] = "unused"}
<1>1. Slugs[u] \in Seq(Workspaces)
  OBVIOUS
<1>2. D = 1..Len(Slugs[u]) /\ Len(Slugs[u]) \in Nat
  BY <1>1, LenProperties
<1>3. F \subseteq Nat /\ F # {}
  BY <1>2 DEF HasFreeSlug
<1>4. PICK i \in F : \A j \in F : ~(j < i)
  <2>1. PICK i \in F : \A j \in F : <<j, i>> \notin OpToRel(<, Nat)
    BY <1>3, NatLessThanWellFounded, WFMin
  <2>2. \A j \in F : j < i => <<j, i>> \in OpToRel(<, Nat)
    BY <1>3 DEF OpToRel
  <2> QED
    BY <2>1, <2>2
<1>5. \A j \in 1..(i - 1) : state[Slugs[u][j]] # "unused"
  BY <1>2, <1>4
<1> DEFINE k == CHOOSE n \in D : /\ state[Slugs[u][n]] = "unused"
                                 /\ \A j \in 1..(n - 1) : state[Slugs[u][j]] # "unused"
<1>6. k \in D /\ state[Slugs[u][k]] = "unused"
  BY <1>4, <1>5
<1>7. FreeSlug(u) = Slugs[u][k]
  BY DEF FreeSlug
<1> QED
  BY <1>1, <1>2, <1>6, <1>7, ElementOfSeq

(***************************************************************************)
(* Stamps and types.  A stamp names the owner whose deletion it is of,     *)
(* wherever it is written and as long as a handler has it in hand; a       *)
(* workspace a handler has chosen exists.  The type of the stamps rests on *)
(* this, so the two are proved as one.                                     *)
(***************************************************************************)
Stamp(dels, s, u) == s \in 1..Len(dels) /\ dels[s] = u

StampInv ==
  /\ \A u \in Owners : deletion[u] # NotDeleted => Stamp(deletions, deletion[u], u)
  /\ \A h \in Handlers : handler[h].step \in {"deleting", "restore"} =>
       /\ Stamp(deletions, handler[h].stamp, handler[h].user)
       /\ \A w \in handler[h].chosen : state[w] # "unused"
  /\ Len(deletions) <= MaxDeletions

LEMMA OwnerInit == Init => TypeOK /\ StampInv
<1> SUFFICES ASSUME Init PROVE TypeOK /\ StampInv
  OBVIOUS
<1>1. deletions \in Seq(Owners) /\ Len(deletions) = 0
  BY EmptySeq DEF Init
<1>2. /\ deletion \in [Owners -> {NotDeleted} \union Deletion]
      /\ approval \in [Owners -> {"pending", "active", "disabled", "rejected"}]
      /\ state \in [Workspaces -> {"unused", "exists", "purged"}]
      /\ wsDeletion \in [Workspaces -> {NotDeleted} \union Deletion]
      /\ raced \in BOOLEAN
  BY DEF Init
<1>3. /\ member \in [Workspaces -> [Owners -> {"none", "active", "inactive"}]]
      /\ handler \in [Handlers -> {Idle}]
      /\ \A w \in Workspaces : state[w] = "unused" =>
           wsDeletion[w] = NotDeleted /\ \A u \in Owners : member[w][u] = "none"
  BY DEF Init
<1> QED
  BY <1>1, <1>2, <1>3 DEF Init, TypeOK, StampInv, Idle

LEMMA Deletions ==
  ASSUME TypeOK
  PROVE  /\ Len(deletions) \in Nat
         /\ \A i \in 1..Len(deletions) : deletions[i] \in Owners
  BY LenProperties, ElementOfSeq DEF TypeOK

\* One more deletion leaves the earlier ones as they are.
LEMMA StampsKept ==
  ASSUME TypeOK, NEW u \in Owners, deletions' = Append(deletions, u)
  PROVE  /\ deletions' \in Seq(Owners)
         /\ Len(deletions') = Len(deletions) + 1
         /\ \A s, v : Stamp(deletions, s, v) => Stamp(deletions', s, v)
         /\ Stamp(deletions', Len(deletions) + 1, u)
<1>1. deletions \in Seq(Owners)
  BY DEF TypeOK
<1>2. /\ deletions' \in Seq(Owners)
      /\ Len(deletions') = Len(deletions) + 1
      /\ \A i \in 1..Len(deletions) : deletions'[i] = deletions[i]
      /\ deletions'[Len(deletions) + 1] = u
  BY <1>1, AppendProperties
<1>3. Len(deletions) \in Nat /\ 1..Len(deletions') = 1..Len(deletions) \union {Len(deletions) + 1}
  BY <1>2, Deletions
<1>4. ASSUME NEW s, NEW v, Stamp(deletions, s, v)
      PROVE  Stamp(deletions', s, v)
  BY <1>2, <1>3, <1>4 DEF Stamp
<1>5. Stamp(deletions', Len(deletions) + 1, u)
  <2>1. Len(deletions) + 1 \in 1..Len(deletions')
    BY <1>3
  <2> QED
    BY <1>2, <2>1 DEF Stamp
<1> QED
  BY <1>2, <1>4, <1>5

\* Steps that only outdate what the handlers have read, and take no stamp off
\* the list, keep it so that stamps name their owners.
LEMMA StampsAged ==
  ASSUME TypeOK, StampInv, AllAged, UNCHANGED deletions,
         \A u \in Owners : deletion'[u] # NotDeleted => Stamp(deletions, deletion'[u], u),
         \A w \in Workspaces : state[w] # "unused" => state'[w] # "unused"
  PROVE  StampInv'
<1>1. \A h \in Handlers : handler'[h].step \in {"deleting", "restore"} =>
        /\ handler'[h].stamp = handler[h].stamp /\ handler'[h].user = handler[h].user
        /\ handler'[h].chosen = handler[h].chosen
        /\ handler[h].step \in {"deleting", "restore"}
        /\ handler[h] \in Reading
  BY Busy DEF AllAged, Outdated, Idle
<1>2. \A h \in Handlers : handler'[h].step \in {"deleting", "restore"} =>
        /\ Stamp(deletions, handler'[h].stamp, handler'[h].user)
        /\ \A w \in handler'[h].chosen : state'[w] # "unused"
  BY <1>1 DEF StampInv, Reading
<1> QED
  BY <1>2 DEF StampInv, Stamp

\* Handler h comes to hold r, which is fit to be held.
Takes(h, r) ==
  /\ r \in {Idle} \union Reading
  /\ handler' = [handler EXCEPT ![h] = r]
  /\ r.step \in {"deleting", "restore"} =>
       Stamp(deletions, r.stamp, r.user) /\ \A w \in r.chosen : state[w] # "unused"

\* Steps that only change the handlers.
LEMMA OwnerHandlerStep ==
  ASSUME TypeOK, StampInv, NEW h \in Handlers,
         \/ \E u \in Owners : Asked(h, u) \/ FoundRead(h, u)
         \/ FoundSlug(h) \/ RestoreRefused(h) \/ FoundCollides(h)
  PROVE  TypeOK' /\ StampInv'
<1>1. UNCHANGED <<deletion, approval, state, wsDeletion, member, deletions, raced>>
  BY DEF Asked, DeleteRead, RestoreRead, FoundRead, FoundSlug, RestoreRefused, FoundCollides
<1>2. SUFFICES \E r : Takes(h, r)
  BY <1>1 DEF TypeOK, StampInv, Reading, Stamp, Takes
<1>3. ASSUME NEW u \in Owners, DeleteRead(h, u) \/ FoundRead(h, u)
      PROVE  \E r : Takes(h, r)
  <2> DEFINE r(s) == [step |-> s, user |-> u, stamp |-> NotDeleted, chosen |-> {}, fresh |-> TRUE]
  <2>1. r("delete") \in Reading /\ r("found") \in Reading
    BY DEF Reading
  <2>2. r("delete").step = "delete" /\ r("found").step = "found"
    OBVIOUS
  <2>3. Takes(h, r("delete")) \/ Takes(h, r("found"))
    BY <1>3, <2>1, <2>2 DEF DeleteRead, FoundRead, Read, Takes
  <2> QED
    BY <2>3
<1>4. ASSUME NEW u \in Owners, RestoreRead(h, u)
      PROVE  \E r : Takes(h, r)
  <2> DEFINE r == [step |-> "restore", user |-> u, stamp |-> deletion[u],
                   chosen |-> Candidates(u), fresh |-> TRUE]
  <2>1. Candidates(u) \subseteq Workspaces /\ \A w \in Candidates(u) : state[w] # "unused"
    BY DEF Candidates, TypeOK
  <2>2. r \in Reading
    BY <2>1 DEF Reading, TypeOK
  <2>3. handler' = [handler EXCEPT ![h] = r]
    BY <1>4 DEF RestoreRead, Read
  <2>4. Stamp(deletions, r.stamp, r.user)
    BY <1>4 DEF RestoreRead, StampInv
  <2>5. Takes(h, r)
    BY <2>1, <2>2, <2>3, <2>4 DEF Takes
  <2> QED
    BY <2>5
<1>5. ASSUME FoundSlug(h)
      PROVE  \E r : Takes(h, r)
  <2>1. handler[h] \in Reading
    BY <1>5, AtBusy DEF FoundSlug
  <2> DEFINE u == handler[h].user
             r == [handler[h] EXCEPT !.step = "insert", !.chosen = {FreeSlug(u)}]
  <2>2. u \in Owners /\ HasFreeSlug(u)
    BY <1>5, <2>1 DEF Reading, FoundSlug
  <2>3. {FreeSlug(u)} \in SUBSET Workspaces
    BY <2>2, FreeSlugUnused
  <2>4. r \in Reading /\ r.step = "insert"
    BY <2>1, <2>3, ReadingUpdates DEF Reading
  <2>5. handler' = [handler EXCEPT ![h] = r]
    BY <1>5 DEF FoundSlug
  <2>6. Takes(h, r)
    BY <2>4, <2>5 DEF Takes
  <2> QED
    BY <2>6
<1>6. ASSUME RestoreRefused(h) \/ FoundCollides(h)
      PROVE  Takes(h, Idle)
  BY <1>6 DEF RestoreRefused, FoundCollides, GivesUp, Takes, Idle
<1> QED
  BY <1>3, <1>4, <1>5, <1>6 DEF Asked

LEMMA DeleteFlushKeeps ==
  ASSUME TypeOK, StampInv, NEW h \in Handlers, DeleteFlush(h)
  PROVE  TypeOK' /\ StampInv'
<1> DEFINE u == handler[h].user
           n == Len(deletions) + 1
           c == OnlyOwnedBy(u)
           r == [handler[h] EXCEPT !.step = "deleting", !.stamp = n, !.chosen = c]
<1>1. handler[h] \in Reading
  BY AtBusy DEF DeleteFlush
<1>2. u \in Owners
  BY <1>1 DEF Reading
<1>3. deletions' = Append(deletions, u) /\ Len(deletions) < MaxDeletions
  BY DEF DeleteFlush
<1>4. n \in Deletion
  BY <1>3, Deletions
<1>5. c \in SUBSET Workspaces /\ \A w \in c : state[w] # "unused"
  BY <1>2 DEF OnlyOwnedBy, TypeOK
<1>6. handler' = [handler EXCEPT ![h] = r]
  BY Zenon DEF DeleteFlush
<1>7. r \in Reading
  BY <1>1, <1>4, <1>5, ReadingUpdates
<1>8. r.step = "deleting" /\ r.user = u /\ r.stamp = n /\ r.chosen = c
  BY <1>1 DEF Reading
<1> HIDE DEF u, n, c, r
<1>9. UNCHANGED <<deletion, approval, state, wsDeletion, member, raced>>
  BY DEF DeleteFlush
<1>10. /\ deletions' \in Seq(Owners)
       /\ Len(deletions') = n
       /\ \A s, v : Stamp(deletions, s, v) => Stamp(deletions', s, v)
       /\ Stamp(deletions', n, u)
  BY <1>2, <1>3, StampsKept DEF n
<1>11. /\ handler' \in [Handlers -> {Idle} \union Reading]
       /\ handler'[h] = r
       /\ \A g \in Handlers \ {h} : handler'[g] = handler[g]
  BY <1>6, <1>7 DEF TypeOK, Reading
<1>12. TypeOK'
  BY <1>9, <1>10, <1>11 DEF TypeOK, Reading
<1>13. StampInv'
  <2>1. \A v \in Owners : deletion'[v] # NotDeleted => Stamp(deletions', deletion'[v], v)
    BY <1>9, <1>10 DEF StampInv
  <2>2. Len(deletions') <= MaxDeletions
    BY <1>4, <1>10
  <2>3. ASSUME NEW g \in Handlers, handler'[g].step \in {"deleting", "restore"}
        PROVE  /\ Stamp(deletions', handler'[g].stamp, handler'[g].user)
               /\ \A w \in handler'[g].chosen : state'[w] # "unused"
    <3>1. CASE g = h
      BY <3>1, <1>5, <1>8, <1>9, <1>10, <1>11
    <3>2. CASE g # h
      BY <3>2, <2>3, <1>9, <1>10, <1>11 DEF StampInv
    <3> QED
      BY <3>1, <3>2
  <2> QED
    BY <2>1, <2>2, <2>3 DEF StampInv
<1> QED
  BY <1>12, <1>13

\* A deletion or a restore commits.
LEMMA StampCommits ==
  ASSUME TypeOK, StampInv, NEW h \in Handlers, DeleteCommit(h) \/ RestoreCommit(h)
  PROVE  TypeOK' /\ StampInv'
<1> DEFINE d == handler[h]
<1>1. d \in Reading /\ d.step \in {"deleting", "restore"}
  BY AtBusy DEF DeleteCommit, RestoreCommit, At
<1>2. AllAged /\ raced' \in BOOLEAN
  BY DoneAges DEF DeleteCommit, RestoreCommit
<1>3. UNCHANGED <<approval, state, member, deletions>>
  BY DEF DeleteCommit, RestoreCommit
<1>4. /\ d.user \in Owners /\ d.stamp \in {NotDeleted} \union Deletion
      /\ Stamp(deletions, d.stamp, d.user)
      /\ \A w \in d.chosen : state[w] # "unused"
  BY <1>1 DEF Reading, StampInv
<1>5. /\ deletion' \in [Owners -> {NotDeleted} \union Deletion]
      /\ \A u \in Owners : deletion'[u] # NotDeleted => Stamp(deletions, deletion'[u], u)
  <2>1. PICK s \in {NotDeleted, d.stamp} : deletion' = [deletion EXCEPT ![d.user] = s]
    BY DEF DeleteCommit, RestoreCommit
  <2> QED
    BY <2>1, <1>4 DEF TypeOK, StampInv
<1>6. /\ wsDeletion' \in [Workspaces -> {NotDeleted} \union Deletion]
      /\ \A w \in Workspaces : state[w] = "unused" => wsDeletion'[w] = NotDeleted
  <2>1. CASE DeleteCommit(h)
    BY <2>1, <1>4 DEF DeleteCommit, TypeOK
  <2>2. CASE RestoreCommit(h)
    BY <2>2 DEF RestoreCommit, TypeOK
  <2> QED
    BY <2>1, <2>2
<1> HIDE DEF d
<1>7. TypeOK'
  BY <1>2, <1>3, <1>5, <1>6 DEF TypeOK, AllAged, Reading
<1>8. StampInv'
  BY <1>2, <1>3, <1>5, StampsAged
<1> QED
  BY <1>7, <1>8

\* A workspace is founded.
LEMMA CreateKeeps ==
  ASSUME TypeOK, NEW w \in Workspaces, NEW u \in Owners, Create(w, u)
  PROVE  /\ state' \in [Workspaces -> {"unused", "exists", "purged"}]
         /\ member' \in [Workspaces -> [Owners -> {"none", "active", "inactive"}]]
         /\ \A x \in Workspaces : state'[x] = "unused" =>
              state[x] = "unused" /\ \A v \in Owners : member'[x][v] = "none"
  BY DEF TypeOK, Create

LEMMA MembershipsKeep ==
  ASSUME TypeOK, NEW u, NEW s \in {"active", "inactive"}, Memberships(u, s)
  PROVE  /\ member' \in [Workspaces -> [Owners -> {"none", "active", "inactive"}]]
         /\ \A w \in Workspaces, v \in Owners : member[w][v] = "none" <=> member'[w][v] = "none"
  BY DEF TypeOK, Memberships

\* Workspaces are founded and purged, owners approved and disabled.
LEMMA MembershipCommits ==
  ASSUME TypeOK, StampInv,
         \/ \E h \in Handlers : FoundInsert(h)
         \/ \E u \in Owners : Approve(u) \/ Reject(u) \/ Disable(u)
         \/ \E w \in Workspaces : Purge(w)
  PROVE  TypeOK' /\ StampInv'
<1>1. UNCHANGED <<deletion, wsDeletion, deletions>>
  BY DEF FoundInsert, Approve, Reject, Disable, Purge, Short
<1>2. AllAged /\ raced' \in BOOLEAN
  <2>1. CASE \E h \in Handlers : FoundInsert(h)
    BY <2>1, DoneAges DEF FoundInsert
  <2>2. CASE ~ \E h \in Handlers : FoundInsert(h)
    BY <2>2, ShortAges DEF Approve, Reject, Disable, Purge, Short, TypeOK
  <2> QED
    BY <2>1, <2>2
<1>3. approval' \in [Owners -> {"pending", "active", "disabled", "rejected"}]
  <2>1. \/ UNCHANGED approval
        \/ \E u \in Owners, a \in {"active", "rejected", "disabled"} :
             approval' = [approval EXCEPT ![u] = a]
    BY Zenon DEF FoundInsert, Approve, Reject, Disable, Purge
  <2> QED
    BY <2>1 DEF TypeOK
<1>4. /\ state' \in [Workspaces -> {"unused", "exists", "purged"}]
      /\ member' \in [Workspaces -> [Owners -> {"none", "active", "inactive"}]]
      /\ \A x \in Workspaces : state'[x] = "unused" =>
           state[x] = "unused" /\ \A v \in Owners : member'[x][v] = "none"
  <2>1. ASSUME NEW h \in Handlers, FoundInsert(h)
        PROVE  <1>4!1 /\ <1>4!2 /\ <1>4!3
    <3>1. handler[h] \in Reading
      BY <2>1, AtBusy DEF FoundInsert
    <3>2. handler[h].user \in Owners /\ handler[h].chosen \subseteq Workspaces
      BY <3>1 DEF Reading
    <3>3. PICK w \in handler[h].chosen : Create(w, handler[h].user)
      BY <2>1 DEF FoundInsert
    <3> QED
      BY <3>2, <3>3, CreateKeeps
  <2>2. ASSUME NEW u \in Owners, Approve(u)
        PROVE  <1>4!1 /\ <1>4!2 /\ <1>4!3
    <3>1. CASE u \in GoogleOwners /\ NoMembership(u)
      <4>1. HasFreeSlug(u) /\ Create(FreeSlug(u), u)
        BY <2>2, <3>1 DEF Approve
      <4> QED
        BY <4>1, FreeSlugUnused, CreateKeeps
    <3>2. CASE ~(u \in GoogleOwners /\ NoMembership(u))
      <4>1. Memberships(u, "active") /\ UNCHANGED state
        BY <2>2, <3>2 DEF Approve
      <4> QED
        BY <4>1, MembershipsKeep DEF TypeOK
    <3> QED
      BY <3>1, <3>2
  <2>3. ASSUME NEW u \in Owners, Reject(u) \/ Disable(u)
        PROVE  <1>4!1 /\ <1>4!2 /\ <1>4!3
    BY <2>3, MembershipsKeep DEF Reject, Disable, TypeOK
  <2>4. ASSUME NEW w \in Workspaces, Purge(w)
        PROVE  <1>4!1 /\ <1>4!2 /\ <1>4!3
    BY <2>4 DEF Purge, TypeOK
  <2> QED
    BY <2>1, <2>2, <2>3, <2>4
<1>5. TypeOK'
  BY <1>1, <1>2, <1>3, <1>4 DEF TypeOK, AllAged, Reading
<1>6. \A w \in Workspaces : state[w] # "unused" => state'[w] # "unused"
  BY <1>4
<1>7. StampInv'
  BY <1>1, <1>2, <1>6, StampsAged DEF StampInv
<1> QED
  BY <1>5, <1>7

LEMMA OwnerInductive == TypeOK /\ StampInv /\ [Next]_vars => TypeOK' /\ StampInv'
<1> SUFFICES ASSUME TypeOK, StampInv, [Next]_vars
             PROVE  TypeOK' /\ StampInv'
  OBVIOUS
<1>1. ASSUME NEW h \in Handlers, Step(h)
      PROVE  TypeOK' /\ StampInv'
  BY <1>1, OwnerHandlerStep, DeleteFlushKeeps, StampCommits, MembershipCommits DEF Step
<1>2. ASSUME \/ \E u \in Owners : Approve(u) \/ Reject(u) \/ Disable(u)
             \/ \E w \in Workspaces : Purge(w)
      PROVE  TypeOK' /\ StampInv'
  BY <1>2, MembershipCommits
<1>3. CASE UNCHANGED vars
  BY <1>3 DEF vars, TypeOK, StampInv, Stamp
<1> QED
  BY <1>1, <1>2, <1>3 DEF Next

\* Every variable keeps to its type: what a handler holds, for one, is a stamp
\* a deletion has written or will write.
THEOREM TypeCorrect == Spec => []TypeOK
<1>1. Init => TypeOK /\ StampInv
  BY OwnerInit
<1>2. TypeOK /\ StampInv /\ [Next]_vars => (TypeOK /\ StampInv)'
  BY OwnerInductive
<1> QED
  BY <1>1, <1>2, PTL DEF Spec

(***************************************************************************)
(* Deleted workspaces.                                                     *)
(***************************************************************************)
\* Only a restore clears the deletion of a workspace, one that still carries
\* the stamp the restore goes by and was not purged when the restore looked.
LEMMA OnlyRestoreClears ==
  ASSUME TypeOK, StampInv, Next, NEW w \in Workspaces,
         wsDeletion[w] # NotDeleted, wsDeletion'[w] = NotDeleted
  PROVE  \E h \in Handlers : /\ RestoreCommit(h)
                             /\ w \in handler[h].chosen
                             /\ wsDeletion[w] = handler[h].stamp
<1>1. ASSUME NEW h \in Handlers, DeleteCommit(h)
      PROVE  FALSE
  <2>1. handler[h].stamp # NotDeleted
    BY <1>1, Deletions DEF DeleteCommit, At, StampInv, Stamp
  <2> QED
    BY <1>1, <2>1 DEF DeleteCommit
<1>2. wsDeletion' # wsDeletion
  OBVIOUS
<1>3. PICK h \in Handlers : RestoreCommit(h)
  BY <1>1, <1>2 DEF Next, Step, Asked, DeleteRead, RestoreRead, FoundRead, DeleteFlush,
       RestoreRefused, FoundSlug, FoundInsert, FoundCollides, Approve, Reject, Disable, Purge
<1> QED
  BY <1>3 DEF RestoreCommit, Restorable

LEMMA PurgedInductive ==
  TypeOK /\ StampInv /\ PurgedStaysDeleted /\ [Next]_vars => PurgedStaysDeleted'
<1> SUFFICES ASSUME TypeOK, StampInv, PurgedStaysDeleted, [Next]_vars,
                    NEW w \in Workspaces, state'[w] = "purged"
             PROVE  wsDeletion'[w] # NotDeleted
  BY DEF PurgedStaysDeleted
<1>1. CASE UNCHANGED vars
  BY <1>1 DEF vars, PurgedStaysDeleted
<1>2. CASE Next /\ wsDeletion[w] # NotDeleted
  <2>1. SUFFICES ASSUME wsDeletion'[w] = NotDeleted PROVE FALSE
    OBVIOUS
  <2>2. PICK h \in Handlers : RestoreCommit(h) /\ w \in handler[h].chosen
    BY <1>2, <2>1, OnlyRestoreClears
  <2>3. state[w] # "purged" /\ state' = state
    BY <2>2 DEF RestoreCommit, NonePurged
  <2> QED
    BY <2>3
<1>3. CASE Next /\ wsDeletion[w] = NotDeleted
  <2>1. state[w] # "purged"
    BY <1>3 DEF PurgedStaysDeleted
  <2>2. \E x \in Workspaces : Purge(x)
    <3>1. state' # state
      BY <2>1
    <3>2. ASSUME NEW x, NEW u, Create(x, u) PROVE FALSE
      BY <3>2, <2>1 DEF Create, TypeOK
    <3> QED
      BY <1>3, <3>1, <3>2 DEF Next, Step, Asked, DeleteRead, RestoreRead, FoundRead,
           DeleteFlush, DeleteCommit, RestoreCommit, RestoreRefused, FoundSlug, FoundInsert,
           FoundCollides, Approve, Reject, Disable
  <2> QED
    BY <2>1, <2>2, <1>3 DEF Purge, TypeOK
<1> QED
  BY <1>1, <1>2, <1>3

\* A purged workspace stays deleted, whatever a restore had chosen before the
\* purge: it looks at the terminal marker of all it chose when it commits, and
\* a deletion that commits over it writes a stamp.
THEOREM PurgedStays == Spec => []PurgedStaysDeleted
<1> DEFINE I == TypeOK /\ StampInv /\ PurgedStaysDeleted
<1>1. Init => I
  BY OwnerInit DEF Init, PurgedStaysDeleted
<1>2. I /\ [Next]_vars => I'
  BY OwnerInductive, PurgedInductive
<1> QED
  BY <1>1, <1>2, PTL DEF Spec

\* A workspace comes back only with the owner whose deletion took it, however
\* long ago the restore read its list: the stamp it goes by is of that owner,
\* and the owner's row is written in the same commit.
THEOREM RestoresOwn == Spec => RestoresOwnDeletion
<1> DEFINE Clears == \A w \in Workspaces : wsDeletion[w] # NotDeleted /\ wsDeletion'[w] = NotDeleted =>
             deletion'[deletions[wsDeletion[w]]] = NotDeleted
<1>1. TypeOK /\ StampInv /\ [Next]_vars => [Clears]_vars
  <2> SUFFICES ASSUME TypeOK, StampInv, Next, NEW w \in Workspaces,
                      wsDeletion[w] # NotDeleted, wsDeletion'[w] = NotDeleted
               PROVE  deletion'[deletions[wsDeletion[w]]] = NotDeleted
    OBVIOUS
  <2>1. PICK h \in Handlers : RestoreCommit(h) /\ wsDeletion[w] = handler[h].stamp
    BY OnlyRestoreClears
  <2>2. deletions[handler[h].stamp] = handler[h].user
    BY <2>1 DEF RestoreCommit, At, StampInv, Stamp
  <2>3. handler[h].user \in Owners
    BY <2>1, AtBusy DEF RestoreCommit, Reading
  <2> QED
    BY <2>1, <2>2, <2>3 DEF RestoreCommit, TypeOK
<1>2. Init => TypeOK /\ StampInv
  BY OwnerInit
<1>3. TypeOK /\ StampInv /\ [Next]_vars => (TypeOK /\ StampInv)'
  BY OwnerInductive
<1> QED
  BY <1>1, <1>2, <1>3, PTL DEF Spec, RestoresOwnDeletion

(***************************************************************************)
(* What a handler no commit has overtaken has read is still true.          *)
(***************************************************************************)
Current(r) ==
  /\ r.step \in {"delete", "deleting"} => deletion[r.user] = NotDeleted
  /\ r.step = "deleting" => r.chosen = OnlyOwnedBy(r.user)
  /\ r.step = "restore" => deletion[r.user] = r.stamp /\ r.chosen = Candidates(r.user)
  /\ r.step \in {"found", "insert"} => NoMembership(r.user)

FreshInv == \A h \in Handlers : handler[h] # Idle /\ handler[h].fresh => Current(handler[h])

\* Steps that write no row: what was current stays so.
LEMMA CurrentKept ==
  ASSUME UNCHANGED <<deletion, approval, state, wsDeletion, member>>
  PROVE  \A r : Current(r) <=> Current(r)'
  BY DEF Current, OnlyOwnedBy, ValidOwner, Candidates, NoMembership

LEMMA FreshHandlerStep ==
  ASSUME TypeOK, FreshInv, NEW h \in Handlers,
         UNCHANGED <<deletion, approval, state, wsDeletion, member>>,
         NEW r, handler' = [handler EXCEPT ![h] = r],
         r # Idle /\ r.fresh => Current(r)
  PROVE  FreshInv'
<1> SUFFICES ASSUME NEW g \in Handlers, handler'[g] # Idle, handler'[g].fresh
             PROVE  Current(handler[g])'
  BY DEF FreshInv
<1>1. Current(handler'[g])
  <2>1. CASE g = h
    BY <2>1 DEF TypeOK
  <2>2. CASE g # h
    <3>1. handler'[g] = handler[g]
      BY <2>2 DEF TypeOK
    <3> QED
      BY <3>1 DEF FreshInv
  <2> QED
    BY <2>1, <2>2
<1> QED
  BY <1>1 DEF Current, OnlyOwnedBy, ValidOwner, Candidates, NoMembership

LEMMA FreshAged == AllAged => FreshInv'
  BY DEF AllAged, Outdated, FreshInv

LEMMA FreshInductive == TypeOK /\ StampInv /\ FreshInv /\ [Next]_vars => FreshInv'
<1> SUFFICES ASSUME TypeOK, StampInv, FreshInv, [Next]_vars
             PROVE  FreshInv'
  OBVIOUS
<1>1. ASSUME NEW h \in Handlers, NEW u \in Owners, Asked(h, u) \/ FoundRead(h, u)
      PROVE  FreshInv'
  <2> DEFINE r(s, d, c) == [step |-> s, user |-> u, stamp |-> d, chosen |-> c, fresh |-> TRUE]
  <2>1. UNCHANGED <<deletion, approval, state, wsDeletion, member>>
    BY <1>1 DEF Asked, DeleteRead, RestoreRead, FoundRead
  <2>2. CASE DeleteRead(h, u)
    <3>1. Current(r("delete", NotDeleted, {}))
      BY <2>2 DEF DeleteRead, Current
    <3> QED
      BY <2>1, <2>2, <3>1, FreshHandlerStep DEF DeleteRead, Read
  <2>3. CASE RestoreRead(h, u)
    <3>1. Current(r("restore", deletion[u], Candidates(u)))
      BY DEF Current
    <3> QED
      BY <2>1, <2>3, <3>1, FreshHandlerStep DEF RestoreRead, Read
  <2>4. CASE FoundRead(h, u)
    <3>1. Current(r("found", NotDeleted, {}))
      BY <2>4 DEF FoundRead, Current
    <3> QED
      BY <2>1, <2>4, <3>1, FreshHandlerStep DEF FoundRead, Read
  <2> QED
    BY <1>1, <2>2, <2>3, <2>4 DEF Asked
<1>2. ASSUME NEW h \in Handlers, DeleteFlush(h)
      PROVE  FreshInv'
  <2> DEFINE u == handler[h].user
             n == Len(deletions) + 1
             c == OnlyOwnedBy(u)
             r == [handler[h] EXCEPT !.step = "deleting", !.stamp = n, !.chosen = c]
  <2>1. handler[h] \in Reading /\ handler[h] # Idle /\ handler[h].step = "delete"
    BY <1>2, AtBusy DEF DeleteFlush, At
  <2>2. r.step = "deleting" /\ r.user = u /\ r.chosen = c /\ r.fresh = handler[h].fresh
    BY <2>1 DEF Reading
  <2>3. handler' = [handler EXCEPT ![h] = r]
    BY <1>2, Zenon DEF DeleteFlush
  <2> HIDE DEF r
  <2>4. r # Idle /\ r.fresh => Current(r)
    BY <2>1, <2>2 DEF FreshInv, Current
  <2> QED
    BY <1>2, <2>3, <2>4, FreshHandlerStep DEF DeleteFlush
<1>3. ASSUME NEW h \in Handlers, FoundSlug(h)
      PROVE  FreshInv'
  <2> DEFINE u == handler[h].user
             r == [handler[h] EXCEPT !.step = "insert", !.chosen = {FreeSlug(u)}]
  <2>1. handler[h] \in Reading /\ handler[h] # Idle /\ handler[h].step = "found"
    BY <1>3, AtBusy DEF FoundSlug, At
  <2>2. r.step = "insert" /\ r.user = u /\ r.fresh = handler[h].fresh
    BY <2>1 DEF Reading
  <2>3. handler' = [handler EXCEPT ![h] = r]
    BY <1>3, Zenon DEF FoundSlug
  <2> HIDE DEF r
  <2>4. r # Idle /\ r.fresh => Current(r)
    BY <2>1, <2>2 DEF FreshInv, Current
  <2> QED
    BY <1>3, <2>3, <2>4, FreshHandlerStep DEF FoundSlug
<1>4. ASSUME NEW h \in Handlers, RestoreRefused(h) \/ FoundCollides(h)
      PROVE  FreshInv'
  BY <1>4, FreshHandlerStep DEF RestoreRefused, FoundCollides, GivesUp
<1>5. ASSUME \/ \E h \in Handlers : DeleteCommit(h) \/ RestoreCommit(h) \/ FoundInsert(h)
             \/ \E u \in Owners : Approve(u) \/ Reject(u) \/ Disable(u)
             \/ \E w \in Workspaces : Purge(w)
      PROVE  FreshInv'
  <2>1. AllAged
    BY <1>5, DoneAges, ShortAges
       DEF DeleteCommit, RestoreCommit, FoundInsert, Approve, Reject, Disable, Purge, Short
  <2> QED
    BY <2>1, FreshAged
<1>6. CASE UNCHANGED vars
  BY <1>6 DEF vars, FreshInv, Current, OnlyOwnedBy, ValidOwner, Candidates, NoMembership
<1> QED
  BY <1>1, <1>2, <1>3, <1>4, <1>5, <1>6 DEF Next, Step

(***************************************************************************)
(* What an owner's deletion, its restore and a foundation leave behind.    *)
(***************************************************************************)
OwnerInv == TypeOK /\ StampInv /\ FreshInv

LEMMA OwnerInvInductive == (Init => OwnerInv) /\ (OwnerInv /\ [Next]_vars => OwnerInv')
<1>1. Init => FreshInv
  BY DEF Init, FreshInv
<1> QED
  BY <1>1, OwnerInit, OwnerInductive, FreshInductive DEF OwnerInv

\* A commit that does not raise the flag rests on reads that are current.
LEMMA InTime ==
  ASSUME OwnerInv, NEW h \in Handlers, handler[h] # Idle, Done(h), ~raced'
  PROVE  ~raced /\ handler[h].fresh /\ Current(handler[h])
<1>1. ~raced /\ handler[h].fresh
  BY Zenon DEF Done
<1> QED
  BY <1>1 DEF OwnerInv, FreshInv

\* One that rests on others raises it.
LEMMA TooLate ==
  ASSUME OwnerInv, NEW h \in Handlers, handler[h] # Idle, Done(h)
  PROVE  Current(handler[h]) \/ StaleCommit
<1>1. CASE handler[h].fresh
  BY <1>1 DEF OwnerInv, FreshInv
<1>2. CASE ~handler[h].fresh
  <2>1. raced'
    BY <1>2, Zenon DEF Done
  <2>2. handler'[h] = Idle
    BY DEF Done
  <2> QED
    BY <1>2, <2>1, <2>2, Zenon DEF StaleCommit
<1> QED
  BY <1>1, <1>2

SharedAt(w) ==
  state[w] = "exists" /\ wsDeletion[w] # NotDeleted =>
    \E u \in Owners : member[w][u] # "none" /\ deletion[u] = wsDeletion[w]

LEMMA SharedDelete ==
  ASSUME OwnerInv, NEW h \in Handlers, DeleteCommit(h), ~raced',
         NEW w \in Workspaces, SharedAt(w)
  PROVE  SharedAt(w)'
<1> DEFINE d == handler[h]
<1>1. d \in Reading /\ d # Idle /\ d.step = "deleting" /\ d.user \in Owners
  BY AtBusy DEF DeleteCommit, At, OwnerInv, Reading
<1>2. deletion[d.user] = NotDeleted /\ d.chosen = OnlyOwnedBy(d.user)
  BY <1>1, InTime DEF DeleteCommit, Current
<1>3. /\ deletion' = [deletion EXCEPT ![d.user] = d.stamp]
      /\ wsDeletion' = [x \in Workspaces |-> IF x \in d.chosen THEN d.stamp ELSE wsDeletion[x]]
      /\ UNCHANGED <<state, member>>
  BY DEF DeleteCommit
<1> HIDE DEF d
<1>4. CASE w \in d.chosen
  BY <1>1, <1>2, <1>3, <1>4 DEF SharedAt, OnlyOwnedBy, OwnerInv, TypeOK
<1>5. CASE w \notin d.chosen
  BY <1>1, <1>2, <1>3, <1>5 DEF SharedAt, OwnerInv, TypeOK
<1> QED
  BY <1>4, <1>5

LEMMA SharedRestore ==
  ASSUME OwnerInv, NEW h \in Handlers, RestoreCommit(h), ~raced',
         NEW w \in Workspaces, SharedAt(w)
  PROVE  SharedAt(w)'
<1> DEFINE r == handler[h]
<1>1. r \in Reading /\ r # Idle /\ r.step = "restore" /\ r.user \in Owners
  BY AtBusy DEF RestoreCommit, At, OwnerInv, Reading
<1>2. deletion[r.user] = r.stamp /\ r.chosen = Candidates(r.user)
  BY <1>1, InTime DEF RestoreCommit, Current
<1>3. /\ deletion' = [deletion EXCEPT ![r.user] = NotDeleted]
      /\ wsDeletion' = [x \in Workspaces |->
           IF x \in r.chosen /\ wsDeletion[x] = r.stamp THEN NotDeleted ELSE wsDeletion[x]]
      /\ UNCHANGED <<state, member>>
  BY DEF RestoreCommit, Restorable
<1> HIDE DEF r
<1> SUFFICES ASSUME state'[w] = "exists", wsDeletion'[w] # NotDeleted
             PROVE  \E u \in Owners : member'[w][u] # "none" /\ deletion'[u] = wsDeletion'[w]
  BY DEF SharedAt
<1>4. wsDeletion'[w] = wsDeletion[w] /\ ~(w \in r.chosen /\ wsDeletion[w] = r.stamp)
  BY <1>3
<1>5. PICK u \in Owners : member[w][u] # "none" /\ deletion[u] = wsDeletion[w]
  BY <1>3, <1>4 DEF SharedAt
<1>6. u # r.user
  BY <1>2, <1>4, <1>5 DEF Candidates
<1> QED
  BY <1>3, <1>4, <1>5, <1>6 DEF OwnerInv, TypeOK

LEMMA SharedElse ==
  ASSUME OwnerInv, NEW w \in Workspaces, SharedAt(w),
         UNCHANGED <<deletion, wsDeletion>>,
         state[w] = "unused" \/ state'[w] # "exists" \/ state'[w] = state[w],
         state'[w] # "exists" \/ \A u \in Owners : member[w][u] # "none" => member'[w][u] # "none"
  PROVE  SharedAt(w)'
  BY DEF SharedAt, OwnerInv, TypeOK

LEMMA SharedInductive == OwnerInv /\ SharedProvenance /\ [Next]_vars => SharedProvenance'
<1> SUFFICES ASSUME OwnerInv, SharedProvenance, [Next]_vars, ~raced', NEW w \in Workspaces
             PROVE  SharedAt(w)'
  BY DEF SharedProvenance, SharedAt
<1> USE DEF OwnerInv
<1>1. ~raced
  BY Zenon DEF vars, Next, Step, Asked, DeleteRead, RestoreRead, FoundRead, DeleteFlush,
       DeleteCommit, RestoreCommit, RestoreRefused, FoundSlug, FoundInsert, FoundCollides,
       Approve, Reject, Disable, Purge, Short, Done
<1>2. SharedAt(w)
  BY <1>1 DEF SharedProvenance, SharedAt
<1>3. ASSUME NEW h \in Handlers, DeleteCommit(h) \/ RestoreCommit(h)
      PROVE  SharedAt(w)'
  BY <1>2, <1>3, SharedDelete, SharedRestore
<1>4. ASSUME UNCHANGED <<deletion, wsDeletion, state, member>>
      PROVE  SharedAt(w)'
  BY <1>2, <1>4 DEF SharedAt
<1>5. ASSUME NEW x \in Workspaces, NEW u \in Owners, Create(x, u), state[x] = "unused",
             UNCHANGED <<deletion, wsDeletion>>
      PROVE  SharedAt(w)'
  BY <1>2, <1>5, SharedElse DEF Create, TypeOK
<1>6. ASSUME NEW u \in Owners, NEW s \in {"active", "inactive"}, Memberships(u, s), UNCHANGED state,
             UNCHANGED <<deletion, wsDeletion>>
      PROVE  SharedAt(w)'
  BY <1>2, <1>6, SharedElse, MembershipsKeep
<1>7. ASSUME NEW x \in Workspaces, Purge(x)
      PROVE  SharedAt(w)'
  BY <1>2, <1>7, SharedElse DEF Purge, TypeOK
<1>8. ASSUME NEW h \in Handlers, FoundInsert(h)
      PROVE  SharedAt(w)'
  <2>1. handler[h].user \in Owners /\ handler[h].chosen \subseteq Workspaces
    BY <1>8, AtBusy DEF FoundInsert, Reading
  <2> QED
    BY <1>5, <1>8, <2>1 DEF FoundInsert
<1>9. ASSUME NEW u \in Owners, Approve(u) \/ Reject(u) \/ Disable(u)
      PROVE  SharedAt(w)'
  BY <1>4, <1>5, <1>6, <1>9, FreeSlugUnused DEF Approve, Reject, Disable
<1> QED
  BY <1>3, <1>4, <1>7, <1>8, <1>9 DEF vars, Next, Step, Asked, DeleteRead, RestoreRead, FoundRead,
       DeleteFlush, RestoreRefused, FoundSlug, FoundCollides

\* A workspace in the bin has an owner deleted by the very same deletion, so
\* that owner's restore brings it back, unless handlers overtook one another:
\* the deletion stamps only workspaces of the owner it deletes, and a restore
\* takes along all that carry the stamp it clears.
THEOREM ProvenanceShared == Spec => []SharedProvenance
<1>1. Init => SharedProvenance
  BY DEF Init, SharedProvenance
<1>2. OwnerInv /\ SharedProvenance /\ [Next]_vars => (OwnerInv /\ SharedProvenance)'
  BY OwnerInvInductive, SharedInductive
<1> QED
  BY <1>1, <1>2, OwnerInvInductive, PTL DEF Spec

\* A deletion takes along each workspace of which the owner was the last valid
\* one, if it judged by what is still true when it commits.
THEOREM LastOwnerTakes == Spec => LastOwnerTakesWorkspace
<1> DEFINE TakesLast == \A u \in Owners : deletion[u] = NotDeleted /\ deletion'[u] # NotDeleted =>
       \A w \in Workspaces : member[w][u] = "active" /\ wsDeletion[w] = NotDeleted =>
         \/ wsDeletion'[w] = deletion'[u]
         \/ \E v \in Owners \ {u} : ValidOwner(w, v)
         \/ StaleCommit
<1>1. OwnerInv /\ [Next]_vars => [TakesLast]_vars
  <2> SUFFICES ASSUME OwnerInv, Next, NEW u \in Owners, NEW w \in Workspaces,
                      deletion[u] = NotDeleted, deletion'[u] # NotDeleted,
                      member[w][u] = "active", wsDeletion[w] = NotDeleted, ~StaleCommit
               PROVE  \/ wsDeletion'[w] = deletion'[u]
                      \/ \E v \in Owners \ {u} : ValidOwner(w, v)
    OBVIOUS
  <2> USE DEF OwnerInv
  <2>1. deletion' # deletion
    OBVIOUS
  <2>2. PICK h \in Handlers : DeleteCommit(h)
    <3>1. ASSUME NEW h \in Handlers, RestoreCommit(h) PROVE FALSE
      BY <3>1 DEF RestoreCommit, TypeOK
    <3> QED
      BY <2>1, <3>1 DEF Next, Step, Asked, DeleteRead, RestoreRead, FoundRead, DeleteFlush,
         RestoreRefused, FoundSlug, FoundInsert, FoundCollides, Approve, Reject, Disable, Purge
  <2> DEFINE d == handler[h]
  <2>3. d # Idle /\ d \in Reading /\ d.step = "deleting"
    BY <2>2, AtBusy DEF DeleteCommit, At
  <2>4. Done(h)
    BY <2>2 DEF DeleteCommit
  <2>5. d.chosen = OnlyOwnedBy(d.user)
    BY <2>3, <2>4, TooLate DEF Current
  <2>6. /\ deletion' = [deletion EXCEPT ![d.user] = d.stamp]
        /\ wsDeletion' = [x \in Workspaces |-> IF x \in d.chosen THEN d.stamp ELSE wsDeletion[x]]
    BY <2>2 DEF DeleteCommit
  <2>7. u = d.user /\ deletion'[u] = d.stamp
    BY <2>3, <2>6 DEF TypeOK, Reading
  <2> QED
    BY <2>5, <2>6, <2>7 DEF OnlyOwnedBy
<1> QED
  BY <1>1, OwnerInvInductive, PTL DEF Spec, LastOwnerTakesWorkspace

\* A workspace is founded for an owner only while the owner is a member of
\* none, unless two requests overlap and the second rests on the first's past.
THEOREM FoundsOnce == Spec => FoundedOnce
<1> DEFINE Founds == \A u \in Owners : \A w \in Workspaces :
       member[w][u] = "none" /\ member'[w][u] # "none" =>
         (\A v \in Workspaces : member[v][u] = "none") \/ StaleCommit
<1>1. OwnerInv /\ [Next]_vars => [Founds]_vars
  <2> SUFFICES ASSUME OwnerInv, Next, NEW u \in Owners, NEW w \in Workspaces,
                      member[w][u] = "none", member'[w][u] # "none", ~StaleCommit
               PROVE  NoMembership(u)
    BY DEF NoMembership
  <2> USE DEF OwnerInv
  <2>1. member' # member
    OBVIOUS
  <2>2. ASSUME NEW x, NEW v, Create(x, v) PROVE u = v
    BY <2>2 DEF Create, TypeOK
  <2>3. ASSUME NEW v \in Owners, NEW s \in {"active", "inactive"}, Memberships(v, s) PROVE FALSE
    BY <2>3, MembershipsKeep
  <2>4. ASSUME NEW x \in Workspaces, Purge(x) PROVE FALSE
    BY <2>4 DEF Purge, TypeOK
  <2>5. ASSUME NEW h \in Handlers, FoundInsert(h) PROVE NoMembership(u)
    <3>1. handler[h] # Idle /\ handler[h].step = "insert" /\ Done(h)
      BY <2>5, AtBusy DEF FoundInsert, At
    <3>2. NoMembership(handler[h].user)
      BY <3>1, TooLate DEF Current
    <3> QED
      BY <2>5, <2>2, <3>2 DEF FoundInsert
  <2>6. ASSUME NEW v \in Owners, Approve(v) \/ Reject(v) \/ Disable(v)
        PROVE  NoMembership(u)
    BY <2>1, <2>2, <2>3, <2>6 DEF Approve, Reject, Disable
  <2> QED
    BY <2>1, <2>4, <2>5, <2>6 DEF Next, Step, Asked, DeleteRead, RestoreRead, FoundRead,
       DeleteFlush, DeleteCommit, RestoreCommit, RestoreRefused, FoundSlug, FoundCollides
<1> QED
  BY <1>1, OwnerInvInductive, PTL DEF Spec, FoundedOnce
===============================================================================
