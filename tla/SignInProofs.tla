----------------------------- MODULE SignInProofs -----------------------------
(***************************************************************************)
(* Proofs about SignIn, for any number of accounts, names, workspaces,     *)
(* handlers and browsers.                                                  *)
(***************************************************************************)
EXTENDS SignIn, TLAPS

USE SignInConstants

(***************************************************************************)
(* Types, in parts.                                                        *)
(***************************************************************************)
Request ==
  [kind : {"create", "rename", "seed", "google", "snapshot", "reserve"},
   user : Users, name : Names]

AccountTypes ==
  /\ approval \in [Users -> {"none", "pending", "active", "rejected", "disabled"}]
  /\ active \in [Users -> BOOLEAN]
  /\ deleted \in [Users -> BOOLEAN]
  /\ member \in [Users -> SUBSET Workspaces]
  /\ name \in [Users -> Names \union {None}]
  /\ \A u \in Users : (approval[u] = "none") = (name[u] = None)

Session == [user : Users \union {None}, workspace : Workspaces \union {None}]

BrowserTypes ==
  /\ session \in [Browsers -> Session]
  /\ page \in [Browsers -> Page]

LEMMA TypeParts ==
  TypeOK <=> /\ AccountTypes
             /\ reserved \in [Names -> Users \union {None}]
             /\ request \in [Handlers -> {Idle} \union Request]
             /\ BrowserTypes
  BY DEF TypeOK, AccountTypes, BrowserTypes, Request, Session

LEMMA TypePartsNext ==
  TypeOK' <=> /\ AccountTypes'
              /\ reserved' \in [Names -> Users \union {None}]
              /\ request' \in [Handlers -> {Idle} \union Request]
              /\ BrowserTypes'
  BY DEF TypeOK, AccountTypes, BrowserTypes, Request, Session

LEMMA AccountTypesKept ==
  AccountTypes /\ UNCHANGED <<accountVars, name>> => AccountTypes'
  BY DEF AccountTypes, accountVars

LEMMA BrowserTypesKept == BrowserTypes /\ UNCHANGED browserVars => BrowserTypes'
  BY DEF BrowserTypes, browserVars

\* A handler that is doing something has a request in hand.
LEMMA Busy ==
  ASSUME TypeOK, NEW h \in Handlers, request[h].kind # "idle"
  PROVE  request[h] \in Request
  BY DEF TypeOK, Request, Idle

(***************************************************************************)
(* What a request in hand says of the accounts.  A name is held by one     *)
(* creating or reserving handler at a time; a name being created is not    *)
(* reserved; a name about to be reserved is its target's.                  *)
(***************************************************************************)
Holding == {"create", "reserve"}

RequestInv ==
  /\ \A h \in Handlers : request[h].kind \in {"rename", "snapshot", "reserve"} =>
       Exists(request[h].user)
  /\ \A h \in Handlers : request[h].kind = "create" => reserved[request[h].name] = None
  /\ \A h \in Handlers : request[h].kind = "reserve" => name[request[h].user] = request[h].name
  /\ \A g, h \in Handlers : g # h /\ request[g].kind \in Holding /\ request[h].kind \in Holding =>
       request[g].name # request[h].name

\* The request r is one that h may take in hand.
Fits(h, r) ==
  /\ r \in {Idle} \union Request
  /\ r.kind \in {"rename", "snapshot", "reserve"} => Exists(r.user)
  /\ r.kind = "create" => reserved[r.name] = None
  /\ r.kind = "reserve" => name[r.user] = r.name
  /\ r.kind \in Holding =>
       \A g \in Handlers \ {h} : request[g].kind \in Holding => request[g].name # r.name

LEMMA SignInInit == Init => TypeOK /\ RequestInv
<1> SUFFICES ASSUME Init PROVE TypeOK /\ RequestInv
  OBVIOUS
<1>1. /\ approval \in [Users -> {"none", "pending", "active", "rejected", "disabled"}]
      /\ active \in [Users -> BOOLEAN]
      /\ deleted \in [Users -> BOOLEAN]
      /\ name \in [Users -> Names \union {None}]
  BY DEF Init
<1>2. member \in [Users -> SUBSET Workspaces]
  BY DEF Init
<1>3. \A u \in Users : (approval[u] = "none") = (name[u] = None)
  BY DEF Init
<1>4. BrowserTypes
  <2>1. SignedOut \in Session /\ NoPage \in Page
    BY DEF SignedOut, Session, NoPage, Page
  <2> QED
    BY <2>1 DEF Init, BrowserTypes
<1> QED
  BY <1>1, <1>2, <1>3, <1>4, TypeParts DEF AccountTypes, Init, RequestInv, Idle, Holding

\* Steps that only change what a handler has in hand.
LEMMA RequestTaken ==
  ASSUME TypeOK, RequestInv, NEW h \in Handlers, NEW r, Fits(h, r),
         request' = [request EXCEPT ![h] = r],
         UNCHANGED <<accountVars, name, reserved, browserVars>>
  PROVE  TypeOK' /\ RequestInv'
<1>1. TypeOK'
  BY TypeParts, TypePartsNext, AccountTypesKept, BrowserTypesKept DEF Fits
<1>2. request'[h] = r /\ \A g \in Handlers \ {h} : request'[g] = request[g]
  BY DEF TypeOK
<1>3. UNCHANGED <<approval, name, reserved>>
  BY DEF accountVars
<1>4. RequestInv'
  <2>1. ASSUME NEW g \in Handlers
        PROVE  /\ request'[g].kind \in {"rename", "snapshot", "reserve"} =>
                    approval'[request'[g].user] # "none"
               /\ request'[g].kind = "create" => reserved'[request'[g].name] = None
               /\ request'[g].kind = "reserve" => name'[request'[g].user] = request'[g].name
    BY <1>2, <1>3 DEF RequestInv, Fits, Exists
  <2>2. ASSUME NEW g \in Handlers, NEW k \in Handlers, g # k,
               request'[g].kind \in Holding, request'[k].kind \in Holding
        PROVE  request'[g].name # request'[k].name
    BY <1>2, <2>2 DEF RequestInv, Fits
  <2> QED
    BY <2>1, <2>2 DEF RequestInv, Exists, Holding
<1> QED
  BY <1>1, <1>4

LEMMA NamingReads ==
  ASSUME TypeOK, RequestInv, NEW h \in Handlers,
         \/ \E u \in Users, n \in Names : CreateRead(h, u, n) \/ RenameRead(h, u, n)
              \/ GoogleRead(h, u, n)
         \/ \E u \in Users : SeedRead(h, u) \/ ReserveRead(h, u)
  PROVE  TypeOK' /\ RequestInv'
<1> DEFINE r(k, u, n) == [kind |-> k, user |-> u, name |-> n]
<1>1. SUFFICES \E q : Fits(h, q) /\ request' = [request EXCEPT ![h] = q]
  BY RequestTaken DEF CreateRead, RenameRead, GoogleRead, SeedRead, ReserveRead, Begin
<1>2. ASSUME NEW u \in Users, NEW n \in Names, CreateRead(h, u, n)
      PROVE  Fits(h, r("create", u, n))
  <2>1. r("create", u, n) \in Request
    BY DEF Request
  <2> QED
    BY <1>2, <2>1 DEF CreateRead, Fits, NameLocked, Holding
<1>3. ASSUME NEW u \in Users, NEW n \in Names, RenameRead(h, u, n)
      PROVE  Fits(h, r("rename", u, n))
  <2>1. r("rename", u, n) \in Request
    BY DEF Request
  <2> QED
    BY <1>3, <2>1 DEF RenameRead, Fits, Holding
<1>4. ASSUME NEW u \in Users, SeedRead(h, u)
      PROVE  Fits(h, r("seed", u, SeedName))
  <2>1. r("seed", u, SeedName) \in Request
    BY DEF Request
  <2> QED
    BY <2>1 DEF Fits, Holding
<1>5. ASSUME NEW u \in Users, ReserveRead(h, u)
      PROVE  Fits(h, r("snapshot", u, name[u]))
  <2>1. name[u] \in Names
    BY <1>5 DEF ReserveRead, Exists, TypeOK
  <2>2. r("snapshot", u, name[u]) \in Request
    BY <2>1 DEF Request
  <2> QED
    BY <1>5, <2>2 DEF ReserveRead, Fits, Holding
<1>6. ASSUME NEW u \in Users, NEW n \in Names, GoogleRead(h, u, n)
      PROVE  Fits(h, r("google", u, n))
  <2>1. r("google", u, n) \in Request
    BY DEF Request
  <2> QED
    BY <2>1 DEF Fits, Holding
<1> QED
  BY <1>2, <1>3, <1>4, <1>5, <1>6
     DEF CreateRead, RenameRead, GoogleRead, SeedRead, ReserveRead, Begin

LEMMA NamingEnds ==
  ASSUME TypeOK, RequestInv, NEW h \in Handlers,
         Collides(h) \/ ReserveLock(h) \/ ReserveRefused(h)
  PROVE  TypeOK' /\ RequestInv'
<1>1. CASE Collides(h) \/ ReserveRefused(h)
  <2>1. Fits(h, Idle)
    BY DEF Fits, Idle, Holding
  <2> QED
    BY <1>1, <2>1, RequestTaken DEF Collides, ReserveRefused, End
<1>2. CASE ReserveLock(h)
  <2> DEFINE q == request[h]
             r == [q EXCEPT !.kind = "reserve"]
  <2>1. q \in Request /\ q.kind = "snapshot"
    BY <1>2, Busy DEF ReserveLock
  <2>2. r \in Request /\ r.kind = "reserve" /\ r.user = q.user /\ r.name = q.name
    BY <2>1 DEF Request
  <2>3. request' = [request EXCEPT ![h] = r]
    BY <1>2 DEF ReserveLock
  <2>4. name[q.user] = q.name /\ ~NameLocked(q.name) /\ Exists(q.user)
    BY <1>2, <2>1 DEF ReserveLock, RequestInv
  <2> HIDE DEF q, r
  <2>5. Fits(h, r)
    BY <2>2, <2>4 DEF Fits, NameLocked, Holding
  <2> QED
    BY <1>2, <2>3, <2>5, RequestTaken DEF ReserveLock
<1> QED
  BY <1>1, <1>2

(***************************************************************************)
(* Steps that change the accounts.                                         *)
(***************************************************************************)
\* Requests in hand go on or end; no account ceases to be; who is about to
\* have a name reserved keeps it.
LEMMA RequestsKept ==
  ASSUME RequestInv, UNCHANGED reserved,
         \A g \in Handlers : request'[g] = request[g] \/ request'[g] = Idle,
         \A u \in Users : Exists(u) => Exists(u)',
         \A u \in Users : Exists(u) /\ RowLocked(u) => name'[u] = name[u],
         TypeOK
  PROVE  RequestInv'
<1>1. \A g \in Handlers : request'[g].kind \in {"create", "rename", "snapshot", "reserve"} =>
        /\ request'[g] = request[g]
        /\ request[g].user \in Users
  BY Busy DEF Idle, Request
<1>2. \A g \in Handlers : request'[g].kind \in {"rename", "snapshot", "reserve"} =>
        Exists(request[g].user)'
  BY <1>1 DEF RequestInv, Exists
<1>3. \A g \in Handlers : request'[g].kind = "reserve" =>
        name'[request'[g].user] = request'[g].name
  BY <1>1 DEF RequestInv, RowLocked
<1>4. \A g, h \in Handlers :
        g # h /\ request'[g].kind \in Holding /\ request'[h].kind \in Holding =>
          request'[g].name # request'[h].name
  BY <1>1 DEF RequestInv, Holding
<1>5. \A g \in Handlers : request'[g].kind \in {"rename", "snapshot", "reserve"} =>
        approval'[request'[g].user] # "none"
  BY <1>1, <1>2 DEF Exists
<1> QED
  BY <1>1, <1>3, <1>4, <1>5 DEF RequestInv, Exists, Holding

\* The new row of an account takes a name that was free.
LEMMA Inserted ==
  ASSUME AccountTypes, NEW u \in Users, ~Exists(u), NEW n \in Names, NameFree(n),
         NEW status \in {"active", "pending"}, NEW joined \in SUBSET Workspaces,
         Insert(u, n, status, joined)
  PROVE  /\ AccountTypes'
         /\ \A v \in Users : Exists(v) => Exists(v)' /\ name'[v] = name[v]
<1>1. active' \in [Users -> BOOLEAN]
  BY DEF Insert, AccountTypes
<1>2. /\ approval' = [approval EXCEPT ![u] = status]
      /\ member' = [member EXCEPT ![u] = joined]
      /\ name' = [name EXCEPT ![u] = n]
      /\ deleted' = deleted
  BY DEF Insert
<1>3. /\ approval' \in [Users -> {"none", "pending", "active", "rejected", "disabled"}]
      /\ member' \in [Users -> SUBSET Workspaces]
      /\ name' \in [Users -> Names \union {None}]
      /\ deleted' \in [Users -> BOOLEAN]
  BY <1>2 DEF AccountTypes
<1>4. \A v \in Users : (approval'[v] = "none") = (name'[v] = None)
  BY <1>2 DEF AccountTypes
<1>5. AccountTypes'
  BY <1>1, <1>3, <1>4 DEF AccountTypes
<1>6. \A v \in Users : approval[v] # "none" => approval'[v] # "none" /\ name'[v] = name[v]
  BY <1>2 DEF AccountTypes, Exists
<1> QED
  BY <1>5, <1>6 DEF Exists

(***************************************************************************)
(* What a page is told.  While its session has a workspace, the page was   *)
(* told that one or nothing yet; whoever loses it during the page is not   *)
(* given another.                                                          *)
(***************************************************************************)
PageFits(s, p) ==
  /\ p.shown \subseteq p.scopes
  /\ s.workspace # None => p.scopes \subseteq {s.workspace}
  /\ \A v, w \in p.scopes \ {None} : v = w

PageInv == \A b \in Browsers : PageFits(session[b], page[b])

SignInInv == TypeOK /\ RequestInv /\ PageInv

LEMMA PagesKept == PageInv /\ UNCHANGED browserVars => PageInv'
  BY DEF PageInv, browserVars

LEMMA InsertCommits ==
  ASSUME SignInInv, NEW h \in Handlers, CreateCommit(h) \/ SeedCommit(h)
  PROVE  SignInInv'
<1> DEFINE u == request[h].user
           n == IF request[h].kind = "seed" THEN SeedName ELSE request[h].name
<1>1. request[h] \in Request
  BY Busy DEF SignInInv, CreateCommit, SeedCommit
<1>2. u \in Users /\ n \in Names /\ Reach[u] \in SUBSET Workspaces
  BY <1>1 DEF Request
<1>3. PICK w \in Reach[u] : Insert(u, n, "active", {w})
  BY DEF CreateCommit, SeedCommit
<1>4. ~Exists(u) /\ NameFree(n)
  BY DEF CreateCommit, SeedCommit
<1>5. AccountTypes /\ {w} \in SUBSET Workspaces
  BY <1>2, TypeParts DEF SignInInv
<1> HIDE DEF u, n
<1>6. /\ AccountTypes'
      /\ \A v \in Users : Exists(v) => Exists(v)' /\ name'[v] = name[v]
  BY <1>2, <1>3, <1>4, <1>5, Inserted DEF SignInInv
<1>7. request' = [request EXCEPT ![h] = Idle] /\ UNCHANGED <<reserved, browserVars>>
  BY DEF CreateCommit, SeedCommit, End
<1>8. TypeOK'
  BY <1>6, <1>7, TypeParts, TypePartsNext, BrowserTypesKept DEF SignInInv
<1>9. RequestInv'
  BY <1>6, <1>7, RequestsKept DEF SignInInv, TypeOK
<1> QED
  BY <1>7, <1>8, <1>9, PagesKept DEF SignInInv

LEMMA RenameCommits ==
  ASSUME SignInInv, NEW h \in Handlers, RenameCommit(h)
  PROVE  SignInInv'
<1> DEFINE u == request[h].user
           n == request[h].name
<1>1. request[h] \in Request /\ Exists(u)
  BY Busy DEF SignInInv, RenameCommit, RequestInv
<1>2. u \in Users /\ n \in Names
  BY <1>1 DEF Request
<1>3. /\ name' = [name EXCEPT ![u] = n]
      /\ ~RowLocked(u)
      /\ request' = [request EXCEPT ![h] = Idle]
      /\ UNCHANGED <<accountVars, reserved, browserVars>>
  BY DEF RenameCommit, End
<1> HIDE DEF u, n
<1>4. AccountTypes
  BY TypeParts DEF SignInInv
<1>5. name' \in [Users -> Names \union {None}]
      /\ \A v \in Users : (approval[v] = "none") = (name'[v] = None)
  BY <1>1, <1>2, <1>3, <1>4 DEF AccountTypes, Exists
<1>6. AccountTypes'
  BY <1>3, <1>4, <1>5 DEF AccountTypes, accountVars
<1>7. TypeOK'
  BY <1>3, <1>6, TypeParts, TypePartsNext, BrowserTypesKept DEF SignInInv
<1>8. \A v \in Users : Exists(v) => Exists(v)'
  BY <1>3 DEF Exists, accountVars
<1>9. \A v \in Users : RowLocked(v) => name'[v] = name[v]
  BY <1>3, <1>4 DEF AccountTypes
<1>10. RequestInv'
  BY <1>3, <1>8, <1>9, RequestsKept DEF SignInInv, TypeOK
<1> QED
  BY <1>3, <1>7, <1>10, PagesKept DEF SignInInv

LEMMA ReserveCommits ==
  ASSUME SignInInv, NEW h \in Handlers, ReserveCommit(h)
  PROVE  SignInInv'
<1> DEFINE q == request[h]
<1>1. q \in Request /\ q.kind = "reserve"
  BY Busy DEF SignInInv, ReserveCommit
<1>2. /\ reserved' = [reserved EXCEPT ![q.name] = q.user]
      /\ request' = [request EXCEPT ![h] = Idle]
      /\ UNCHANGED <<accountVars, name, browserVars>>
  BY DEF ReserveCommit, End
<1> HIDE DEF q
<1>3. TypeOK'
  <2>1. reserved' \in [Names -> Users \union {None}]
    BY <1>1, <1>2 DEF SignInInv, TypeOK, Request
  <2> QED
    BY <2>1, <1>2, TypeParts, TypePartsNext, AccountTypesKept, BrowserTypesKept DEF SignInInv
<1>4. \A g \in Handlers : request'[g].kind \in {"create", "rename", "snapshot", "reserve"} =>
        g # h /\ request'[g] = request[g] /\ request[g] \in Request
  BY <1>2, Busy DEF Idle, SignInInv, TypeOK
<1>5. \A g \in Handlers : request'[g].kind = "create" => reserved'[request'[g].name] = None
  <2> SUFFICES ASSUME NEW g \in Handlers, request'[g].kind = "create"
               PROVE  reserved'[request'[g].name] = None
    OBVIOUS
  <2>1. g # h /\ request'[g] = request[g] /\ request[g] \in Request
    BY <1>4
  <2>2. request[g].name # q.name
    BY <1>1, <2>1 DEF q, RequestInv, SignInInv, Holding
  <2>3. reserved'[request[g].name] = reserved[request[g].name]
    BY <1>1, <1>2, <2>1, <2>2 DEF Request, SignInInv, TypeOK
  <2> QED
    BY <2>1, <2>3 DEF RequestInv, SignInInv
<1>6. UNCHANGED <<approval, name>>
  BY <1>2 DEF accountVars
<1>7. RequestInv'
  BY <1>4, <1>5, <1>6 DEF SignInInv, RequestInv, Exists, Holding
<1> QED
  BY <1>2, <1>3, <1>7, PagesKept DEF SignInInv

(***************************************************************************)
(* Sessions.                                                               *)
(***************************************************************************)
\* Steps of a browser that leave the accounts alone.
LEMMA BrowserStep ==
  ASSUME SignInInv, BrowserTypes', PageInv', UNCHANGED <<accountVars, nameVars>>
  PROVE  SignInInv'
<1>1. UNCHANGED <<approval, name, reserved, request>>
  BY DEF accountVars, nameVars
<1>2. TypeOK'
  BY <1>1, TypeParts, TypePartsNext, AccountTypesKept DEF SignInInv
<1> QED
  BY <1>1, <1>2 DEF SignInInv, RequestInv, Exists, Holding

\* What a session points at.
LEMMA SessionFacts ==
  ASSUME TypeOK, NEW b \in Browsers
  PROVE  /\ session[b] \in Session
         /\ session[b].user \in Users \union {None}
         /\ session[b].workspace \in Workspaces \union {None}
         /\ CurrentUser(b) \in Users \union {None}
         /\ CurrentUser(b) # None => CurrentUser(b) = session[b].user
  BY DEF TypeOK, Session, CurrentUser

LEMMA SessionUpdates ==
  ASSUME NEW s \in Session
  PROVE  /\ \A u \in Users \union {None} :
              /\ [s EXCEPT !.user = u] \in Session
              /\ [s EXCEPT !.user = u].workspace = s.workspace
              /\ [s EXCEPT !.user = u].user = u
         /\ \A w \in Workspaces \union {None} :
              /\ [s EXCEPT !.workspace = w] \in Session
              /\ [s EXCEPT !.workspace = w].workspace = w
              /\ [s EXCEPT !.workspace = w].user = s.user
  BY DEF Session

\* How a session goes on from workspace w: it stays there, is without one, or
\* goes to one selected for its account.
GoesOn(w, s) ==
  w # None => s.workspace \in {w, None} \union (IF s.user \in Users THEN Selected(s.user, w) ELSE {})

LEMMA SignsInto ==
  ASSUME TypeOK, NEW b \in Browsers, NEW u \in Users, SignsIn(b, u)
  PROVE  \E s \in Session : SetSession(b, s) /\ GoesOn(session[b].workspace, s)
<1>1. CASE ~CanAccessApp(u) /\ SetSession(b, [session[b] EXCEPT !.user = u])
  <2> DEFINE s == [session[b] EXCEPT !.user = u]
  <2>1. s \in Session /\ s.workspace = session[b].workspace
    BY SessionFacts, SessionUpdates
  <2> QED
    BY <1>1, <2>1 DEF GoesOn
<1>2. CASE SetSession(b, SignedOut)
  <2>1. SignedOut \in Session /\ SignedOut.workspace = None
    BY DEF SignedOut, Session
  <2> QED
    BY <1>2, <2>1 DEF GoesOn
<1>3. CASE \E w \in Selected(u, session[b].workspace) : SetSession(b, [user |-> u, workspace |-> w])
  <2>1. PICK w \in Selected(u, session[b].workspace) : SetSession(b, [user |-> u, workspace |-> w])
    BY <1>3
  <2>2. w \in Workspaces
    BY <2>1, SessionFacts DEF Selected, TypeOK
  <2> DEFINE s == [user |-> u, workspace |-> w]
  <2>3. s \in Session /\ s.workspace = w /\ s.user = u
    BY <2>2 DEF Session
  <2> QED
    BY <2>1, <2>3 DEF GoesOn
<1> QED
  BY <1>1, <1>2, <1>3 DEF SignsIn

\* What a step does to the session and the page of a browser.
BrowserChange(b) ==
  \E s \in Session, p \in Page :
    /\ session' = [session EXCEPT ![b] = s]
    /\ page' = [page EXCEPT ![b] = p]
    /\ PageFits(s, p)
    /\ GoesOn(session[b].workspace, s)

LEMMA BrowserChanges ==
  ASSUME TypeOK, PageInv, NEW b \in Browsers, BrowserChange(b)
  PROVE  BrowserTypes' /\ PageInv'
<1>1. PICK s \in Session, p \in Page :
        session' = [session EXCEPT ![b] = s] /\ page' = [page EXCEPT ![b] = p] /\ PageFits(s, p)
  BY DEF BrowserChange
<1>2. \A c \in Browsers : /\ session'[c] = IF c = b THEN s ELSE session[c]
                          /\ page'[c] = IF c = b THEN p ELSE page[c]
  BY <1>1, TypeParts DEF BrowserTypes
<1>3. PageInv'
  BY <1>1, <1>2 DEF PageInv
<1> QED
  BY <1>1, <1>3, TypeParts DEF BrowserTypes

\* The session changes while no page is under way, or none that asked yet.
LEMMA SetsSession ==
  ASSUME TypeOK, NEW b \in Browsers, page[b].scopes = {}, page[b].shown = {},
         NEW s \in Session, SetSession(b, s), GoesOn(session[b].workspace, s)
  PROVE  BrowserChange(b)
<1>1. page[b] \in Page /\ page' = [page EXCEPT ![b] = page[b]]
  BY DEF TypeOK, SetSession
<1>2. PageFits(s, page[b])
  BY DEF PageFits
<1> QED
  BY <1>1, <1>2 DEF SetSession, BrowserChange

LEMMA NoPageFacts ==
  /\ NoPage \in Page /\ NoPage.scopes = {} /\ NoPage.shown = {}
  /\ \A s \in Session : PageFits(s, NoPage)
  /\ \A u \in Users : /\ [NoPage EXCEPT !.user = u] \in Page
                      /\ \A s \in Session : PageFits(s, [NoPage EXCEPT !.user = u])
  BY DEF NoPage, Page, PageFits

\* What a page's queries make of the page.
LEMMA PageUpdates ==
  ASSUME NEW p \in Page
  PROVE  /\ \A w \in Workspaces \union {None} :
              LET q == [p EXCEPT !.scopes = p.scopes \union {w}] IN
              q \in Page /\ q.scopes = p.scopes \union {w} /\ q.shown = p.shown
         /\ \A w \in Workspaces :
              LET q == [p EXCEPT !.shown = p.shown \union {w}] IN
              q \in Page /\ q.shown = p.shown \union {w} /\ q.scopes = p.scopes
  BY DEF Page

LEMMA SigningSteps ==
  ASSUME TypeOK, NEW b \in Browsers,
         (\E u \in Users : Login(b, u) \/ GoogleLogin(b, u)) \/ LoginPage(b) \/ Logout(b)
  PROVE  BrowserChange(b) /\ UNCHANGED <<accountVars, nameVars>>
<1>1. page[b].scopes = {} /\ page[b].shown = {}
  BY NoPageFacts DEF Login, GoogleLogin, LoginPage, Logout
<1>2. CASE \E u \in Users : Login(b, u) \/ GoogleLogin(b, u)
  <2>1. PICK u \in Users : SignsIn(b, u)
    BY <1>2 DEF Login, GoogleLogin
  <2>2. PICK s \in Session : SetSession(b, s) /\ GoesOn(session[b].workspace, s)
    BY <2>1, SignsInto
  <2> QED
    BY <1>1, <2>2, SetsSession DEF SetSession
<1>3. CASE LoginPage(b)
  <2> DEFINE s == [session[b] EXCEPT !.user = None]
  <2>1. s \in Session /\ s.workspace = session[b].workspace /\ SetSession(b, s)
    BY <1>3, SessionFacts, SessionUpdates DEF LoginPage
  <2> HIDE DEF s
  <2> QED
    BY <1>1, <2>1, SetsSession DEF SetSession, GoesOn
<1>4. CASE Logout(b)
  <2>1. SignedOut \in Session /\ SignedOut.workspace = None
    BY DEF SignedOut, Session
  <2> QED
    BY <1>1, <1>4, <2>1, SetsSession DEF Logout, SetSession, GoesOn
<1> QED
  BY <1>2, <1>3, <1>4

LEMMA GateStep ==
  ASSUME TypeOK, NEW b \in Browsers, Gate(b)
  PROVE  BrowserChange(b) /\ UNCHANGED <<accountVars, nameVars>>
<1> DEFINE u == CurrentUser(b)
<1>1. CASE u # None /\ CanAccessApp(u) /\ member[u] # {}
  <2>1. PICK w \in Selected(u, session[b].workspace) :
          session' = [session EXCEPT ![b] = [session[b] EXCEPT !.workspace = w]]
    BY <1>1, SessionFacts DEF Gate, TypeOK
  <2>2. u \in Users /\ u = session[b].user /\ w \in Workspaces
    BY <1>1, <2>1, SessionFacts DEF Selected, TypeOK
  <2> DEFINE s == [session[b] EXCEPT !.workspace = w]
             p == [NoPage EXCEPT !.user = u]
  <2>3. s \in Session /\ s.workspace = w /\ s.user = u
    BY <2>2, SessionFacts, SessionUpdates
  <2>4. p \in Page /\ PageFits(s, p)
    BY <2>2, <2>3, NoPageFacts
  <2>5. page' = [page EXCEPT ![b] = p]
    BY <1>1 DEF Gate
  <2>6. session' = [session EXCEPT ![b] = s]
    BY <2>1
  <2> HIDE DEF s, p
  <2>7. GoesOn(session[b].workspace, s)
    BY <2>1, <2>2, <2>3 DEF GoesOn
  <2> QED
    BY <2>3, <2>4, <2>5, <2>6, <2>7 DEF BrowserChange, Gate
<1>2. CASE ~(u # None /\ CanAccessApp(u) /\ member[u] # {})
  <2>1. page' = [page EXCEPT ![b] = NoPage]
    BY <1>2 DEF Gate, TypeOK
  <2>2. SignedOut \in Session /\ session[b] \in Session /\ SignedOut.workspace = None
    BY SessionFacts DEF SignedOut, Session
  <2>3. PICK s \in {session[b], SignedOut} : session' = [session EXCEPT ![b] = s]
    BY <1>2 DEF Gate
  <2>4. s \in Session /\ GoesOn(session[b].workspace, s)
    BY <2>2, <2>3 DEF GoesOn
  <2> QED
    BY <2>1, <2>3, <2>4, NoPageFacts DEF BrowserChange, Gate
<1> QED
  BY <1>1, <1>2

LEMMA PageSteps ==
  ASSUME TypeOK, PageInv, NEW b \in Browsers,
         \/ ScopeRead(b) \/ ScopeLost(b) \/ Recheck(b) \/ Reselect(b) \/ PageEnds(b)
         \/ \E w \in Workspaces : Rows(b, w)
  PROVE  BrowserChange(b) /\ UNCHANGED <<accountVars, nameVars>>
<1>1. /\ session[b] \in Session /\ page[b] \in Page /\ PageFits(session[b], page[b])
      /\ session = [session EXCEPT ![b] = session[b]]
      /\ session[b].workspace \in Workspaces \union {None}
      /\ GoesOn(session[b].workspace, session[b])
  <2>1. session[b] \in Session /\ page[b] \in Page /\ PageFits(session[b], page[b])
        /\ session = [session EXCEPT ![b] = session[b]]
    BY SessionFacts DEF TypeOK, PageInv
  <2> QED
    BY <2>1, SessionFacts DEF GoesOn
<1>2. CASE ScopeRead(b)
  <2>0. session[b].workspace \in Workspaces
    BY <1>1, <1>2 DEF ScopeRead, TypeOK, Page
  <2> DEFINE w == session[b].workspace
             p == [page[b] EXCEPT !.scopes = page[b].scopes \union {w}]
  <2>1. p \in Page /\ p.scopes = page[b].scopes \union {w} /\ p.shown = page[b].shown
    BY <1>1, PageUpdates
  <2>2. page' = [page EXCEPT ![b] = p] /\ session' = session
    BY <1>2 DEF ScopeRead
  <2> HIDE DEF p
  <2>3. PageFits(session[b], p)
    BY <1>1, <2>0, <2>1 DEF PageFits
  <2> QED
    BY <1>1, <1>2, <2>1, <2>2, <2>3 DEF BrowserChange, ScopeRead
<1>3. CASE ScopeLost(b)
  <2> DEFINE p == [page[b] EXCEPT !.scopes = page[b].scopes \union {None}]
  <2>1. p \in Page /\ p.scopes = page[b].scopes \union {None} /\ p.shown = page[b].shown
    BY <1>1, PageUpdates
  <2>2. page' = [page EXCEPT ![b] = p]
    BY <1>3 DEF ScopeLost
  <2>3. PICK s \in Session : session' = [session EXCEPT ![b] = s] /\ s.workspace = None
    <3>1. SignedOut \in Session /\ SignedOut.workspace = None
      BY DEF SignedOut, Session
    <3>2. /\ [session[b] EXCEPT !.workspace = None] \in Session
          /\ [session[b] EXCEPT !.workspace = None].workspace = None
      BY <1>1, SessionUpdates
    <3> QED
      BY <1>3, <3>1, <3>2 DEF ScopeLost
  <2> HIDE DEF p
  <2>4. PageFits(s, p) /\ GoesOn(session[b].workspace, s)
    BY <1>1, <2>1, <2>3 DEF PageFits, GoesOn
  <2> QED
    BY <1>3, <2>1, <2>2, <2>3, <2>4 DEF BrowserChange, ScopeLost
<1>4. CASE Recheck(b)
  <2> DEFINE s == [session[b] EXCEPT !.workspace = None]
  <2>1. s \in Session /\ s.workspace = None /\ SetSession(b, s) /\ page[b].scopes = {}
    BY <1>1, <1>4, SessionUpdates DEF Recheck
  <2> HIDE DEF s
  <2>2. page[b].shown = {}
    BY <1>1, <2>1 DEF PageFits
  <2> QED
    BY <2>1, <2>2, SetsSession DEF SetSession, GoesOn
<1>5. CASE Reselect(b)
  <2>1. PICK w \in member[page[b].user] : SetSession(b, [session[b] EXCEPT !.workspace = w])
    BY <1>5 DEF Reselect
  <2>2. w \in Workspaces /\ page[b].scopes = {} /\ session[b].workspace = None
    BY <1>1, <1>5, <2>1 DEF Reselect, TypeOK, Page
  <2> DEFINE s == [session[b] EXCEPT !.workspace = w]
  <2>3. s \in Session /\ SetSession(b, s)
    BY <1>1, <2>1, <2>2, SessionUpdates
  <2> HIDE DEF s
  <2>4. page[b].shown = {} /\ GoesOn(session[b].workspace, s)
    BY <1>1, <2>2 DEF PageFits, GoesOn
  <2> QED
    BY <2>2, <2>3, <2>4, SetsSession DEF SetSession
<1>6. CASE PageEnds(b)
  BY <1>1, <1>6, NoPageFacts DEF PageEnds, BrowserChange
<1>7. ASSUME NEW w \in Workspaces, Rows(b, w)
      PROVE  BrowserChange(b) /\ UNCHANGED <<accountVars, nameVars>>
  <2> DEFINE p == [page[b] EXCEPT !.shown = page[b].shown \union {w}]
  <2>1. p \in Page /\ p.shown = page[b].shown \union {w} /\ p.scopes = page[b].scopes
    BY <1>1, PageUpdates
  <2>2. page' = [page EXCEPT ![b] = p] /\ session' = session /\ w \in page[b].scopes
    BY <1>7 DEF Rows
  <2> HIDE DEF p
  <2>3. PageFits(session[b], p)
    BY <1>1, <2>1, <2>2 DEF PageFits
  <2> QED
    BY <1>1, <1>7, <2>1, <2>2, <2>3 DEF BrowserChange, Rows
<1> QED
  BY <1>2, <1>3, <1>4, <1>5, <1>6, <1>7

LEMMA BrowsingSteps ==
  ASSUME TypeOK, PageInv, NEW b \in Browsers, Browsing(b)
  PROVE  BrowserChange(b) /\ UNCHANGED <<accountVars, nameVars>>
  BY SigningSteps, GateStep, PageSteps, Zenon DEF Browsing

LEMMA GoogleBrowser ==
  ASSUME SignInInv, NEW h \in Handlers, NEW b \in Browsers, GoogleCommit(h, b)
  PROVE  BrowserChange(b)
<1>1. request[h] \in Request
  BY Busy DEF SignInInv, GoogleCommit
<1> DEFINE g == request[h].user
           s == [session[b] EXCEPT !.user = g]
<1>2. g \in Users
  BY <1>1 DEF Request
<1>3. s \in Session /\ s.workspace = session[b].workspace
  BY <1>2, SessionFacts, SessionUpdates DEF SignInInv
<1>4. session' = [session EXCEPT ![b] = s] /\ page' = [page EXCEPT ![b] = NoPage]
  BY DEF GoogleCommit, SignInInv, TypeOK
<1> HIDE DEF s
<1> QED
  BY <1>3, <1>4, NoPageFacts DEF BrowserChange, GoesOn

LEMMA GoogleCommits ==
  ASSUME SignInInv, NEW h \in Handlers, NEW b \in Browsers, GoogleCommit(h, b)
  PROVE  SignInInv'
<1> DEFINE g == request[h].user
           n == request[h].name
<1>1. request[h] \in Request
  BY Busy DEF SignInInv, GoogleCommit
<1>2. /\ g \in Users /\ n \in Names /\ ~Exists(g) /\ NameFree(n) /\ Insert(g, n, "pending", {})
      /\ request' = [request EXCEPT ![h] = Idle] /\ UNCHANGED reserved
  BY <1>1 DEF GoogleCommit, Request, End
<1> HIDE DEF g, n
<1>3. AccountTypes' /\ \A v \in Users : Exists(v) => Exists(v)' /\ name'[v] = name[v]
  BY <1>2, TypeParts, Inserted DEF SignInInv
<1>4. BrowserTypes' /\ PageInv'
  BY GoogleBrowser, BrowserChanges DEF SignInInv
<1>5. TypeOK'
  BY <1>2, <1>3, <1>4, TypeParts, TypePartsNext DEF SignInInv
<1>6. RequestInv'
  BY <1>2, <1>3, RequestsKept DEF SignInInv, TypeOK
<1> QED
  BY <1>4, <1>5, <1>6 DEF SignInInv

(***************************************************************************)
(* What others decide.                                                     *)
(***************************************************************************)
LEMMA DecidingKeeps ==
  ASSUME SignInInv, NEW u \in Users, Deciding(u)
  PROVE  SignInInv'
<1>1. AccountTypes
  BY TypeParts DEF SignInInv
<1>2. UNCHANGED <<name, reserved, request, session, page>>
  BY DEF Deciding, Approve, Withdraw, Toggle, DeleteAccount, RestoreAccount, Move, Decide, nameVars
<1>3. /\ approval' \in [Users -> {"none", "pending", "active", "rejected", "disabled"}]
      /\ \A v \in Users : approval'[v] = "none" <=> approval[v] = "none"
  <2>1. \/ UNCHANGED approval
        \/ \E a \in {"active", "rejected", "disabled"} :
             Exists(u) /\ approval' = [approval EXCEPT ![u] = a]
    BY Zenon DEF Deciding, Approve, Withdraw, Toggle, DeleteAccount, RestoreAccount, Move, Decide
  <2> QED
    BY <1>1, <2>1 DEF AccountTypes, Exists
<1>4. member' \in [Users -> SUBSET Workspaces]
  <2>1. \/ UNCHANGED member
        \/ \E ws \in SUBSET Workspaces : member' = [member EXCEPT ![u] = ws]
    <3>1. CASE Approve(u)
      BY <3>1 DEF Approve
    <3>2. CASE Withdraw(u)
      BY <3>2 DEF Withdraw
    <3>3. ASSUME NEW w \in Workspaces, Move(u, w) PROVE <2>1
      BY <3>3, <1>1 DEF Move, AccountTypes
    <3>4. CASE Toggle(u) \/ DeleteAccount(u) \/ RestoreAccount(u)
      BY <3>4 DEF Toggle, DeleteAccount, RestoreAccount
    <3> QED
      BY <3>1, <3>2, <3>3, <3>4 DEF Deciding
  <2> QED
    BY <1>1, <2>1 DEF AccountTypes
<1>5. active' \in [Users -> BOOLEAN] /\ deleted' \in [Users -> BOOLEAN]
  <2>1. UNCHANGED active \/ \E t \in BOOLEAN : active' = [active EXCEPT ![u] = t]
    BY Zenon DEF Deciding, Approve, Withdraw, Toggle, DeleteAccount, RestoreAccount, Move
  <2>2. UNCHANGED deleted \/ \E t \in BOOLEAN : deleted' = [deleted EXCEPT ![u] = t]
    BY Zenon DEF Deciding, Approve, Withdraw, Toggle, DeleteAccount, RestoreAccount, Move
  <2> QED
    BY <1>1, <2>1, <2>2 DEF AccountTypes
<1>6. AccountTypes'
  BY <1>1, <1>2, <1>3, <1>4, <1>5 DEF AccountTypes
<1>7. TypeOK'
  <2>1. BrowserTypes'
    BY <1>2, TypeParts DEF SignInInv, BrowserTypes
  <2> QED
    BY <1>2, <1>6, <2>1, TypeParts, TypePartsNext DEF SignInInv
<1>8. RequestInv'
  BY <1>2, <1>3, RequestsKept DEF SignInInv, Exists
<1>9. PageInv'
  BY <1>2, PagesKept DEF SignInInv, browserVars
<1> QED
  BY <1>7, <1>8, <1>9 DEF SignInInv

(***************************************************************************)
(* The theorems.                                                           *)
(***************************************************************************)
LEMMA SignInInductive == (Init => SignInInv) /\ (SignInInv /\ [Next]_vars => SignInInv')
<1>1. Init => PageInv
  BY NoPageFacts DEF Init, PageInv, SignedOut, PageFits
<1>2. ASSUME SignInInv, [Next]_vars PROVE SignInInv'
  <2>1. ASSUME NEW h \in Handlers, Naming(h) PROVE SignInInv'
    <3>1. CASE CreateCommit(h) \/ SeedCommit(h) \/ RenameCommit(h) \/ ReserveCommit(h)
      BY <1>2, <3>1, InsertCommits, RenameCommits, ReserveCommits
    <3>2. CASE \E b \in Browsers : GoogleCommit(h, b)
      BY <1>2, <3>2, GoogleCommits
    <3>3. CASE Collides(h) \/ ReserveLock(h) \/ ReserveRefused(h)
      <4>1. TypeOK' /\ RequestInv'
        BY <1>2, <3>3, NamingEnds DEF SignInInv
      <4> QED
        BY <1>2, <3>3, <4>1, PagesKept DEF SignInInv, Collides, ReserveLock, ReserveRefused
    <3>4. CASE \E u \in Users :
                 \/ SeedRead(h, u) \/ ReserveRead(h, u)
                 \/ \E n \in Names : CreateRead(h, u, n) \/ RenameRead(h, u, n) \/ GoogleRead(h, u, n)
      <4>1. TypeOK' /\ RequestInv'
        BY <1>2, <3>4, NamingReads DEF SignInInv
      <4>2. UNCHANGED browserVars
        BY <3>4 DEF CreateRead, RenameRead, GoogleRead, SeedRead, ReserveRead, Begin
      <4> QED
        BY <1>2, <4>1, <4>2, PagesKept DEF SignInInv
    <3>5. \A u \in Users : Wants[u] \subseteq Names
      OBVIOUS
    <3> QED
      BY <2>1, <3>1, <3>2, <3>3, <3>4, <3>5, Zenon DEF Naming
  <2>2. ASSUME NEW b \in Browsers, Browsing(b) PROVE SignInInv'
    BY <1>2, <2>2, BrowsingSteps, BrowserChanges, BrowserStep DEF SignInInv
  <2>3. ASSUME NEW u \in Decided, Deciding(u) PROVE SignInInv'
    BY <1>2, <2>3, DecidingKeeps
  <2>4. CASE UNCHANGED vars
    <3>1. BrowserTypes' /\ PageInv'
      BY <1>2, <2>4, TypeParts, BrowserTypesKept, PagesKept DEF SignInInv, vars
    <3> QED
      BY <1>2, <2>4, <3>1, BrowserStep DEF vars
  <2> QED
    BY <1>2, <2>1, <2>2, <2>3, <2>4 DEF Next
<1> QED
  BY <1>1, <1>2, SignInInit DEF SignInInv

\* Every variable keeps to its type; in particular the account of a rename or
\* of a reservation in progress does not cease to be.
THEOREM TypeCorrect == Spec => []TypeOK
<1>1. SignInInv => TypeOK
  BY DEF SignInInv
<1> QED
  BY <1>1, SignInInductive, PTL DEF Spec

\* A page reads and writes the rows of one workspace only: get_current_workspace_id
\* drops a workspace that is lost from the session and chooses no other, and the
\* statistics pages choose one before their first query.
THEOREM OneWorkspaceKept == Spec => []OneWorkspace
<1>1. SignInInv => OneWorkspace
  <2> SUFFICES ASSUME SignInInv, NEW b \in Browsers, NEW v \in page[b].shown, NEW w \in page[b].shown
               PROVE  v = w
    BY DEF OneWorkspace
  <2>1. page[b].shown \subseteq Workspaces /\ PageFits(session[b], page[b])
    BY DEF SignInInv, TypeOK, Page, PageInv
  <2> QED
    BY <2>1 DEF PageFits
<1> QED
  BY <1>1, SignInInductive, PTL DEF Spec

\* What a request in hand says: the names being created or reserved are
\* pairwise different, which is what the advisory locks are for.
THEOREM RequestsHold == Spec => []RequestInv
<1>1. SignInInv => RequestInv
  BY DEF SignInInv
<1> QED
  BY <1>1, SignInInductive, PTL DEF Spec

\* A name is reserved for the account that bears it then, and no manager's
\* account takes a reserved name, however the look-ups, the locks and the
\* commits of the two interleave.
THEOREM ReservationsKept == Spec => ReservationsHold
<1> DEFINE Holds == \A h \in Handlers :
       /\ Ends(h, "reserve") => name[request[h].user] = request[h].name
       /\ Ends(h, "create") /\ name' # name => reserved[request[h].name] = None
<1>1. SignInInv => [Holds]_vars
  BY DEF SignInInv, RequestInv, Ends
<1> QED
  BY <1>1, SignInInductive, PTL DEF Spec, ReservationsHold

LEMMA WorkspaceSelected ==
  ASSUME SignInInv, Next, NEW b \in Browsers, session[b].workspace # None,
         session'[b].workspace \notin {session[b].workspace, None}
  PROVE  session[b].workspace \notin member[session'[b].user]
<1>1. session' # session
  OBVIOUS
<1>2. PICK c \in Browsers : Browsing(c) \/ \E h \in Handlers : GoogleCommit(h, c)
  BY <1>1 DEF Next, Naming, CreateRead, RenameRead, GoogleRead, SeedRead, ReserveRead, Begin,
       CreateCommit, RenameCommit, SeedCommit, Collides, ReserveLock, ReserveRefused,
       ReserveCommit, browserVars, Deciding, Approve, Withdraw, Toggle, DeleteAccount,
       RestoreAccount, Move, Decide
<1>3. BrowserChange(c)
  BY <1>2, BrowsingSteps, GoogleBrowser DEF SignInInv
<1>4. PICK s \in Session : /\ session' = [session EXCEPT ![c] = s]
                           /\ GoesOn(session[c].workspace, s)
  BY <1>3 DEF BrowserChange
<1>5. \A d \in Browsers : session'[d] = IF d = c THEN s ELSE session[d]
  BY <1>4 DEF SignInInv, TypeOK
<1>6. c = b /\ session'[b] = s
  BY <1>5
<1> QED
  BY <1>4, <1>6 DEF GoesOn, Selected

\* A browser is not moved from its workspace to another while its account is
\* a member of the first.
THEOREM WorkspaceKept == Spec => WorkspaceSticks
<1> DEFINE Sticks == \A b \in Browsers :
       LET w == session[b].workspace
           u == session'[b].user
       IN w # None /\ session'[b].workspace \notin {w, None} => w \notin member[u]
<1>1. SignInInv /\ [Next]_vars => [Sticks]_vars
  <2> SUFFICES ASSUME SignInInv, Next, NEW b \in Browsers, session[b].workspace # None,
                      session'[b].workspace \notin {session[b].workspace, None}
               PROVE  session[b].workspace \notin member[session'[b].user]
    OBVIOUS
  <2> QED
    BY WorkspaceSelected
<1> QED
  BY <1>1, SignInInductive, PTL DEF Spec, WorkspaceSticks
===============================================================================
