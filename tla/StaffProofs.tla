----------------------------- MODULE StaffProofs -----------------------------
(***************************************************************************)
(* Proofs about Staff, for any number of accounts, workspaces and managers'*)
(* requests, an account being a member of as many workspaces as it may.    *)
(***************************************************************************)
EXTENDS Staff, TLAPS

USE StaffConstants DEF Roles, Managers

(***************************************************************************)
(* The requests in hand.                                                   *)
(***************************************************************************)
LEMMA Busy ==
  ASSUME TypeOK, NEW h \in Handlers, request[h].kind # "idle"
  PROVE  request[h] \in Requests /\ request[h] # Idle
  BY DEF TypeOK, Requests, Idle

LEMMA IdleApart == Idle \notin Requests /\ Idle.kind = "idle"
  BY DEF Idle, Requests

\* Goes on, but for what it has read being out of date.
Outdated(g) ==
  /\ request'[g] \in Requests
  /\ request'[g].fresh = FALSE
  /\ request'[g].kind = request[g].kind /\ request'[g].actor = request[g].actor
  /\ request'[g].user = request[g].user /\ request'[g].workspace = request[g].workspace
  /\ request'[g].role = request[g].role /\ request'[g].on = request[g].on

LEMMA AgedOutdated ==
  ASSUME TypeOK, NEW g \in Handlers, request[g] # Idle, request'[g] = Aged(g)
  PROVE  Outdated(g)
<1>1. request[g] \in Requests
  BY DEF TypeOK
<1>2. request'[g] = [request[g] EXCEPT !.fresh = FALSE]
  BY DEF Aged
<1>3. [request[g] EXCEPT !.fresh = FALSE] \in Requests
  BY <1>1, Zenon DEF Requests
<1> QED
  BY <1>1, <1>2, <1>3 DEF Outdated, Requests

\* What a commit leaves of the requests.
AllAged ==
  /\ request' \in [Handlers -> {Idle} \union Requests]
  /\ \A g \in Handlers : request'[g] = Idle \/ Outdated(g)

LEMMA AgedAll ==
  ASSUME TypeOK, NEW D \in SUBSET Handlers,
         request' = [g \in Handlers |-> IF g \in D THEN Idle ELSE Aged(g)]
  PROVE  AllAged
<1>1. \A g \in Handlers : request'[g] = Idle \/ Outdated(g)
  BY AgedOutdated DEF Aged
<1> QED
  BY <1>1 DEF AllAged, Outdated

LEMMA Ages ==
  ASSUME TypeOK, AgeAll \/ \E h \in Handlers : Finish(h)
  PROVE  AllAged
<1>1. PICK D \in SUBSET Handlers : request' = [g \in Handlers |-> IF g \in D THEN Idle ELSE Aged(g)]
  <2>1. ASSUME NEW h \in Handlers, Finish(h)
        PROVE  /\ {h} \in SUBSET Handlers
               /\ request' = [g \in Handlers |-> IF g \in {h} THEN Idle ELSE Aged(g)]
    BY <2>1 DEF Finish
  <2>2. CASE AgeAll
    <3>1. {} \in SUBSET Handlers /\ request' = [g \in Handlers |-> IF g \in {} THEN Idle ELSE Aged(g)]
      BY <2>2 DEF AgeAll
    <3> QED
      BY <3>1, Zenon
  <2> QED
    BY <2>1, <2>2, Zenon
<1> QED
  BY <1>1, AgedAll

(***************************************************************************)
(* The invariant.  What a request was checked for and no commit undoes: a  *)
(* manager creates no owners, demotes only others, and acts on memberships *)
(* of a rank below owner.  A founder is a member of nothing else, and only *)
(* while the portal withholds the account is a membership inactive.        *)
(***************************************************************************)
Lower == {"ADMIN", "STAFF"}

Checked(r) ==
  /\ r.kind = "create" => r.role \in Lower
  /\ r.kind = "edit" => role[r.user] # None /\ (r.user = r.actor => r.role \in Managers)
  /\ r.kind \in {"toggle", "remove", "restore"} =>
       r.user # r.actor /\ memberRole[r.workspace][r.user] \in Lower

RequestInv == \A h \in Handlers : Checked(request[h])

MembershipInv ==
  /\ \A w \in Workspaces, u \in Users : standing[w][u] = "inactive" => approval[u] # "active"
  /\ \A w, v \in Workspaces, u \in Users :
       memberRole[w][u] = "OWNER" /\ v # w => standing[v][u] = "none"

StaffInv == TypeOK /\ RequestInv /\ MembershipInv /\ FounderStays

LEMMA StaffInit == Init => StaffInv
<1> SUFFICES ASSUME Init PROVE StaffInv
  OBVIOUS
<1>1. PICK old \in SUBSET Legacy :
        role = [u \in Users |-> IF u \in old THEN "STAFF" ELSE InitialRole[u]]
  BY DEF Init
<1>2. /\ role \in [Users -> Roles \union {None}]
      /\ active \in [Users -> BOOLEAN]
      /\ approval \in [Users -> {"active", "pending", "rejected", "disabled"}]
      /\ deleted \in [Users -> BOOLEAN]
  BY <1>1 DEF Init
<1>3. /\ standing = [w \in Workspaces |-> [u \in Users |-> IF Home[u] = w THEN "active" ELSE "none"]]
      /\ memberRole = [w \in Workspaces |-> [u \in Users |->
           IF Home[u] = w THEN InitialRole[u] ELSE None]]
  BY DEF Init
<1>4. /\ standing \in [Workspaces -> [Users -> {"none", "active", "inactive", "removed"}]]
      /\ memberRole \in [Workspaces -> [Users -> Roles \union {None}]]
  BY <1>3
<1>5. creator \in [Users -> Users \union {None}] /\ request \in [Handlers -> {Idle}]
  BY DEF Init
<1>6. \A w \in Workspaces, u \in Users :
        /\ (standing[w][u] = "none") = (memberRole[w][u] = None)
        /\ role[u] = None => standing[w][u] = "none"
  BY <1>1, <1>3
<1>7. TypeOK
  BY <1>2, <1>4, <1>5, <1>6 DEF TypeOK
<1>8. RequestInv
  BY <1>5 DEF RequestInv, Checked, Idle
<1>9. MembershipInv
  BY <1>3 DEF MembershipInv
<1>10. FounderStays
  <2> SUFFICES ASSUME NEW w \in Workspaces, NEW u \in Users, memberRole[w][u] = "OWNER"
               PROVE  standing[w][u] # "removed" /\ active[u]
    BY DEF FounderStays
  <2>1. role[u] # None /\ standing[w][u] # "removed"
    BY <1>1, <1>3
  <2>2. active[u]
    BY <2>1, Zenon DEF Init
  <2> QED
    BY <2>1, <2>2
<1> QED
  BY <1>7, <1>8, <1>9, <1>10 DEF StaffInv

(***************************************************************************)
(* Reads.                                                                  *)
(***************************************************************************)
LEMMA RequestMade ==
  ASSUME NEW k \in {"create", "edit", "toggle", "remove", "restore"}, NEW m \in Users,
         NEW u \in Users, NEW w \in Workspaces, NEW r \in Roles, NEW on \in BOOLEAN
  PROVE  Req(k, m, u, w, r, on) \in Requests
  BY Zenon DEF Req, Requests

\* h takes r in hand, which is checked.
Takes(h, r) ==
  /\ r \in Requests
  /\ Read(h, r)
  /\ Checked(r)
  /\ HasPages(r.actor, r.workspace)
  /\ r.kind \in {"toggle", "remove", "restore"} => Agree(r.workspace, r.user)

\* What a manager's read checks.
LEMMA ReadChecks ==
  ASSUME StaffInv, NEW h \in Handlers, Reads(h)
  PROVE  \E r : Takes(h, r)
<1>1. PICK m \in Users, u \in Users, w \in Workspaces :
        \/ \E r \in Roles, on \in BOOLEAN : CreateRead(h, m, w, u, r, on)
        \/ \E r \in Roles : EditRead(h, m, w, u, r)
        \/ \E on \in BOOLEAN : ToggleRead(h, m, w, u, on)
        \/ RemoveRead(h, m, w, u)
        \/ RestoreRead(h, m, w, u)
  BY DEF Reads
<1>2. ASSUME NEW r \in Roles, NEW on \in BOOLEAN, CreateRead(h, m, w, u, r, on)
      PROVE  Takes(h, Req("create", m, u, w, r, on))
  <2> DEFINE q == Req("create", m, u, w, r, on)
  <2>1. q \in Requests
    BY RequestMade
  <2>2. q.kind = "create" /\ q.actor = m /\ q.workspace = w /\ q.role = r
    BY DEF Req
  <2> HIDE DEF q
  <2>3. Read(h, q) /\ HasPages(m, w) /\ r \in Lower
    BY <1>2 DEF CreateRead, AssignableBy, Lower, q
  <2>6. Takes(h, q)
    BY <2>1, <2>2, <2>3 DEF Checked, Takes
  <2> QED
    BY <2>6 DEF q
<1>3. ASSUME NEW r \in Roles, EditRead(h, m, w, u, r)
      PROVE  Takes(h, Req("edit", m, u, w, r, TRUE))
  <2> DEFINE q == Req("edit", m, u, w, r, TRUE)
  <2>1. q \in Requests
    BY RequestMade
  <2>2. q.kind = "edit" /\ q.actor = m /\ q.workspace = w /\ q.role = r /\ q.user = u
    BY DEF Req
  <2> HIDE DEF q
  <2>3. Read(h, q) /\ HasPages(m, w)
    BY <1>3 DEF EditRead, q
  <2>4. role[u] # None
    BY <1>3 DEF EditRead, Member, StaffInv, TypeOK
  <2>5. u = m => r \in Managers
    BY <1>3 DEF EditRead, Demotable, HasPages, IsManager, AssignableBy
  <2>6. Takes(h, q)
    BY <2>1, <2>2, <2>3, <2>4, <2>5 DEF Checked, Takes
  <2> QED
    BY <2>6 DEF q
<1>4. ASSUME NEW k \in {"toggle", "remove", "restore"}, NEW on \in BOOLEAN, NEW e,
             Authorized(m, w, u, e), Read(h, Req(k, m, u, w, "STAFF", on))
      PROVE  Takes(h, Req(k, m, u, w, "STAFF", on))
  <2> DEFINE q == Req(k, m, u, w, "STAFF", on)
  <2>1. q \in Requests
    BY RequestMade
  <2>2. q.kind = k /\ q.actor = m /\ q.workspace = w /\ q.user = u
    BY DEF Req
  <2> HIDE DEF q
  <2>3. Read(h, q)
    BY <1>4 DEF q
  <2>4. HasPages(m, w) /\ Agree(w, u) /\ u # m /\ memberRole[w][u] \in Lower
    BY <1>4 DEF Authorized, Lower
  <2>6. Takes(h, q)
    BY <2>1, <2>2, <2>3, <2>4 DEF Checked, Takes
  <2> QED
    BY <2>6 DEF q
<1> QED
  BY <1>1, <1>2, <1>3, <1>4 DEF ToggleRead, RemoveRead, RestoreRead

(***************************************************************************)
(* The invariant is kept.                                                  *)
(***************************************************************************)
\* No commit undoes what the requests in hand were checked for.
LEMMA ChecksKept ==
  ASSUME StaffInv, AllAged,
         \A u \in Users : role[u] # None => role'[u] # None,
         \A w \in Workspaces, u \in Users : memberRole[w][u] \in Lower => memberRole'[w][u] \in Lower
  PROVE  RequestInv'
<1> SUFFICES ASSUME NEW h \in Handlers, request'[h] # Idle
             PROVE  Checked(request[h])'
  BY IdleApart DEF RequestInv, Checked
<1>1. Outdated(h) /\ Checked(request[h])
  BY DEF AllAged, RequestInv, StaffInv
<1>2. request'[h].user \in Users /\ request'[h].workspace \in Workspaces
  BY <1>1 DEF Outdated, Requests
<1> QED
  BY <1>1, <1>2 DEF Checked, Outdated

LEMMA HandlerStep ==
  ASSUME StaffInv, NEW h \in Handlers, NEW r \in {Idle} \union Requests, Checked(r),
         request' = [request EXCEPT ![h] = r],
         UNCHANGED <<accountVars, memberVars>>
  PROVE  StaffInv'
<1>1. UNCHANGED <<role, active, approval, deleted, creator, standing, memberRole>>
  BY DEF accountVars, memberVars
<1>2. TypeOK'
  BY <1>1 DEF StaffInv, TypeOK
<1>3. RequestInv'
  BY <1>1 DEF StaffInv, TypeOK, RequestInv, Checked
<1>4. MembershipInv' /\ FounderStays'
  BY <1>1 DEF StaffInv, MembershipInv, FounderStays
<1> QED
  BY <1>2, <1>3, <1>4 DEF StaffInv

LEMMA ReadKeeps ==
  ASSUME StaffInv, NEW h \in Handlers, Reads(h) \/ CreateCollides(h)
  PROVE  StaffInv'
<1>1. CASE Reads(h)
  BY <1>1, ReadChecks, HandlerStep DEF Takes, Read
<1>2. CASE CreateCollides(h)
  <2>1. Checked(Idle)
    BY IdleApart DEF Checked
  <2> QED
    BY <1>2, <2>1, HandlerStep DEF CreateCollides
<1> QED
  BY <1>1, <1>2

LEMMA CreateKeeps ==
  ASSUME StaffInv, NEW h \in Handlers, CreateCommit(h)
  PROVE  StaffInv'
<1> DEFINE r == request[h]
<1> USE DEF StaffInv
<1>1. r \in Requests /\ Checked(r) /\ r.kind = "create"
  BY Busy DEF CreateCommit, RequestInv
<1>2. /\ r.user \in Users /\ r.actor \in Users /\ r.workspace \in Workspaces
      /\ r.role \in Lower /\ r.on \in BOOLEAN
  BY <1>1 DEF Requests, Checked
<1>3. /\ role[r.user] = None
      /\ role' = [role EXCEPT ![r.user] = r.role]
      /\ creator' = [creator EXCEPT ![r.user] = r.actor]
      /\ standing' = [standing EXCEPT ![r.workspace][r.user] = "active"]
      /\ memberRole' = [memberRole EXCEPT ![r.workspace][r.user] = r.role]
      /\ UNCHANGED <<approval, deleted>>
  BY DEF CreateCommit, Join
<1>4. active' = [active EXCEPT ![r.user] = r.on]
  BY DEF CreateCommit
<1>5. AllAged
  BY Ages DEF CreateCommit
<1> HIDE DEF r
<1>6. \A w \in Workspaces : standing[w][r.user] = "none" /\ memberRole[w][r.user] = None
  BY <1>2, <1>3 DEF TypeOK
<1>7. TypeOK'
  <2>1. active' \in [Users -> BOOLEAN] /\ deleted' \in [Users -> BOOLEAN]
    BY <1>2, <1>3, <1>4 DEF TypeOK
  <2>2. /\ role' \in [Users -> Roles \union {None}]
        /\ creator' \in [Users -> Users \union {None}]
        /\ standing' \in [Workspaces -> [Users -> {"none", "active", "inactive", "removed"}]]
        /\ memberRole' \in [Workspaces -> [Users -> Roles \union {None}]]
    BY <1>2, <1>3 DEF TypeOK, Lower
  <2>3. \A w \in Workspaces, u \in Users :
          /\ (standing'[w][u] = "none") = (memberRole'[w][u] = None)
          /\ role'[u] = None => standing'[w][u] = "none"
    BY <1>2, <1>3 DEF TypeOK, Lower
  <2> QED
    BY <1>3, <1>5, <2>1, <2>2, <2>3 DEF TypeOK, AllAged
<1>8. RequestInv'
  BY <1>2, <1>3, <1>5, ChecksKept DEF TypeOK, Lower
<1>9. MembershipInv'
  BY <1>2, <1>3, <1>6 DEF MembershipInv, TypeOK, Lower
<1>10. FounderStays'
  <2> SUFFICES ASSUME NEW w \in Workspaces, NEW u \in Users, memberRole'[w][u] = "OWNER"
               PROVE  /\ standing'[w][u] # "removed"
                      /\ active'[u] \/ approval'[u] # "active" \/ deleted'[u]
    BY DEF FounderStays
  <2>1. u # r.user /\ memberRole[w][u] = "OWNER" /\ standing'[w][u] = standing[w][u]
    BY <1>2, <1>3, <1>6 DEF TypeOK, Lower
  <2>2. active'[u] = active[u]
    BY <1>4, <2>1 DEF TypeOK
  <2> QED
    BY <1>3, <2>1, <2>2 DEF FounderStays
<1> QED
  BY <1>7, <1>8, <1>9, <1>10

LEMMA EditKeeps ==
  ASSUME StaffInv, NEW h \in Handlers, EditCommit(h)
  PROVE  StaffInv'
<1> DEFINE r == request[h]
<1> USE DEF StaffInv
<1>1. r \in Requests /\ Checked(r) /\ r.kind = "edit"
  BY Busy DEF EditCommit, RequestInv
<1>2. r.user \in Users /\ r.role \in Roles /\ role[r.user] # None
  BY <1>1 DEF Requests, Checked
<1>3. /\ role' = [role EXCEPT ![r.user] = r.role]
      /\ UNCHANGED <<active, approval, deleted, creator, standing, memberRole>>
  BY DEF EditCommit, memberVars
<1>4. AllAged
  BY Ages DEF EditCommit
<1> HIDE DEF r
<1>5. role' \in [Users -> Roles \union {None}] /\ \A u \in Users : role[u] # None <=> role'[u] # None
  BY <1>2, <1>3 DEF TypeOK
<1>6. TypeOK'
  BY <1>3, <1>4, <1>5 DEF TypeOK, AllAged
<1>7. RequestInv'
  BY <1>3, <1>4, <1>5, ChecksKept
<1>8. MembershipInv' /\ FounderStays'
  BY <1>3 DEF MembershipInv, FounderStays
<1> QED
  BY <1>6, <1>7, <1>8

\* Whoever is a member of a rank below owner is no founder.
LEMMA NoFounder ==
  ASSUME StaffInv, NEW w \in Workspaces, NEW u \in Users, memberRole[w][u] \in Lower,
         NEW v \in Workspaces
  PROVE  memberRole[v][u] # "OWNER"
  BY DEF StaffInv, MembershipInv, TypeOK, Lower

LEMMA ToggleKeeps ==
  ASSUME StaffInv, NEW h \in Handlers, ToggleCommit(h)
  PROVE  StaffInv'
<1> DEFINE r == request[h]
<1> USE DEF StaffInv
<1>1. r \in Requests /\ Checked(r) /\ r.kind = "toggle"
  BY Busy DEF ToggleCommit, RequestInv
<1>2. /\ r.user \in Users /\ r.workspace \in Workspaces /\ r.on \in BOOLEAN
      /\ memberRole[r.workspace][r.user] \in Lower
  BY <1>1 DEF Requests, Checked
<1>3. UNCHANGED <<role, approval, deleted, creator, standing, memberRole>>
  BY DEF ToggleCommit, memberVars
<1>4. active' = [active EXCEPT ![r.user] = r.on]
  BY DEF ToggleCommit
<1>5. AllAged
  BY Ages DEF ToggleCommit
<1> HIDE DEF r
<1>6. TypeOK'
  <2>1. active' \in [Users -> BOOLEAN]
    BY <1>2, <1>4 DEF TypeOK
  <2> QED
    BY <1>3, <1>5, <2>1 DEF TypeOK, AllAged
<1>7. RequestInv'
  BY <1>3, <1>5, ChecksKept
<1>8. MembershipInv'
  BY <1>3 DEF MembershipInv
<1>9. FounderStays'
  <2> SUFFICES ASSUME NEW w \in Workspaces, NEW u \in Users, memberRole[w][u] = "OWNER"
               PROVE  /\ standing[w][u] # "removed"
                      /\ active'[u] \/ approval[u] # "active" \/ deleted[u]
    BY <1>3 DEF FounderStays
  <2>1. u # r.user
    BY <1>2, NoFounder
  <2>2. active'[u] = active[u]
    BY <1>4, <2>1 DEF TypeOK
  <2> QED
    BY <2>2 DEF FounderStays
<1> QED
  BY <1>6, <1>7, <1>8, <1>9

LEMMA MemberKeeps ==
  ASSUME StaffInv, NEW h \in Handlers, MemberCommit(h)
  PROVE  StaffInv'
<1> DEFINE r == request[h]
<1> USE DEF StaffInv
<1>1. r \in Requests /\ Checked(r) /\ r.kind \in {"remove", "restore"}
  BY Busy DEF MemberCommit, RequestInv
<1>2. /\ r.user \in Users /\ r.workspace \in Workspaces
      /\ memberRole[r.workspace][r.user] \in Lower
  BY <1>1 DEF Requests, Checked
<1>3. UNCHANGED <<role, active, approval, deleted, creator, memberRole>>
  BY DEF MemberCommit, accountVars
<1>4. PICK s \in {"active", "removed"} : standing' = [standing EXCEPT ![r.workspace][r.user] = s]
  BY DEF MemberCommit
<1>5. AllAged
  BY Ages DEF MemberCommit
<1> HIDE DEF r
<1>6. TypeOK'
  <2>1. standing' \in [Workspaces -> [Users -> {"none", "active", "inactive", "removed"}]]
    BY <1>2, <1>4 DEF TypeOK
  <2>2. \A w \in Workspaces, u \in Users : standing'[w][u] = "none" <=> standing[w][u] = "none"
    BY <1>2, <1>4 DEF TypeOK, Lower
  <2> QED
    BY <1>3, <1>5, <2>1, <2>2 DEF TypeOK, AllAged
<1>7. RequestInv'
  BY <1>3, <1>5, ChecksKept
<1>8. MembershipInv' /\ FounderStays'
  <2>1. \A w \in Workspaces, u \in Users :
          standing'[w][u] = standing[w][u] \/ (w = r.workspace /\ u = r.user /\ standing'[w][u] = s)
    BY <1>2, <1>4 DEF TypeOK
  <2>2. \A v \in Workspaces : memberRole[v][r.user] # "OWNER"
    BY <1>2, NoFounder
  <2> QED
    BY <1>3, <2>1, <2>2 DEF MembershipInv, FounderStays
<1> QED
  BY <1>6, <1>7, <1>8

LEMMA RepairKeeps ==
  ASSUME StaffInv, NEW o \in Users, NEW w \in Workspaces, Repair(o, w)
  PROVE  StaffInv'
<1> DEFINE found == {u \in Users : Repairable(o, w, u)}
<1> USE DEF StaffInv
<1>1. /\ standing' = [standing EXCEPT ![w] = [u \in Users |-> IF u \in found THEN "active" ELSE @[u]]]
      /\ memberRole' = [memberRole EXCEPT ![w] =
           [u \in Users |-> IF u \in found THEN role[u] ELSE @[u]]]
  BY DEF Repair
<1>2. UNCHANGED <<role, active, approval, deleted, creator>> /\ AllAged
  BY Ages DEF Repair, accountVars
<1>3. \A u \in found : /\ standing[w][u] = "none" /\ role[u] \in Lower
                       /\ approval[u] = "active"
                       /\ \A v \in Workspaces : standing[v][u] # "active"
  BY DEF Repairable, Lower
<1>4. \A u \in found, v \in Workspaces : memberRole[v][u] # "OWNER"
  BY <1>3 DEF FounderStays, MembershipInv, TypeOK
<1> HIDE DEF found
<1>5. \A v \in Workspaces, u \in Users :
        /\ v # w \/ u \notin found =>
             standing'[v][u] = standing[v][u] /\ memberRole'[v][u] = memberRole[v][u]
        /\ v = w /\ u \in found => standing'[v][u] = "active" /\ memberRole'[v][u] = role[u]
  BY <1>1 DEF TypeOK
<1>6. TypeOK'
  <2>1. standing' \in [Workspaces -> [Users -> {"none", "active", "inactive", "removed"}]]
    BY <1>1 DEF TypeOK
  <2>2. memberRole' \in [Workspaces -> [Users -> Roles \union {None}]]
    BY <1>1 DEF TypeOK
  <2>3. \A v \in Workspaces, u \in Users :
          /\ (standing'[v][u] = "none") = (memberRole'[v][u] = None)
          /\ role[u] = None => standing'[v][u] = "none"
    BY <1>3, <1>5 DEF TypeOK, Lower
  <2> QED
    BY <1>2, <2>1, <2>2, <2>3 DEF TypeOK, AllAged
<1>7. RequestInv'
  BY <1>2, <1>3, <1>5, ChecksKept
<1>8. MembershipInv' /\ FounderStays'
  BY <1>2, <1>3, <1>4, <1>5 DEF MembershipInv, FounderStays, Lower
<1> QED
  BY <1>6, <1>7, <1>8

\* The portal changes no role and drops no membership; it leaves memberships
\* inactive only with the account it disables.
LEMMA PortalKeeps ==
  ASSUME StaffInv, NEW u \in Users, Portal(u)
  PROVE  StaffInv'
<1> USE DEF StaffInv
<1>1. UNCHANGED <<role, creator, memberRole>> /\ AllAged
  BY Ages DEF Portal, Approve, Disable, DeleteAccount, RestoreAccount, memberVars
<1>2. CASE Approve(u) \/ Disable(u)
  <2>1. PICK s \in {"active", "inactive"} :
          /\ Memberships(u, s)
          /\ approval' = [approval EXCEPT ![u] = IF s = "active" THEN "active" ELSE "disabled"]
          /\ active' = [active EXCEPT ![u] = (s = "active")]
    BY <1>2 DEF Approve, Disable
  <2>2. UNCHANGED deleted
    BY <1>2 DEF Approve, Disable
  <2>3. \A w \in Workspaces, v \in Users :
          standing'[w][v] = IF v = u /\ standing[w][v] # "none" THEN s ELSE standing[w][v]
    BY <2>1 DEF Memberships
  <2>4. TypeOK'
    <3>1. standing' \in [Workspaces -> [Users -> {"none", "active", "inactive", "removed"}]]
      BY <2>1 DEF Memberships, TypeOK
    <3>2. active' \in [Users -> BOOLEAN]
      BY <2>1 DEF TypeOK
    <3>3. approval' \in [Users -> {"active", "pending", "rejected", "disabled"}]
      BY <2>1 DEF TypeOK
    <3>4. \A w \in Workspaces, v \in Users : standing'[w][v] = "none" <=> standing[w][v] = "none"
      BY <2>3
    <3> QED
      BY <1>1, <2>2, <3>1, <3>2, <3>3, <3>4 DEF TypeOK, AllAged
  <2>5. RequestInv'
    BY <1>1, ChecksKept
  <2>6. MembershipInv'
    BY <1>1, <2>1, <2>3 DEF MembershipInv, TypeOK
  <2>7. FounderStays'
    <3> SUFFICES ASSUME NEW w \in Workspaces, NEW v \in Users, memberRole[w][v] = "OWNER"
                 PROVE  /\ standing'[w][v] # "removed"
                        /\ active'[v] \/ approval'[v] # "active" \/ deleted[v]
      BY <1>1, <2>2 DEF FounderStays
    <3>1. standing'[w][v] # "removed"
      BY <2>3 DEF FounderStays
    <3>2. CASE v = u
      BY <2>1, <3>1, <3>2 DEF TypeOK
    <3>3. CASE v # u
      <4>1. active'[v] = active[v] /\ approval'[v] = approval[v]
        BY <2>1, <3>3 DEF TypeOK
      <4> QED
        BY <3>1, <4>1 DEF FounderStays
    <3> QED
      BY <3>2, <3>3
  <2> QED
    BY <2>4, <2>5, <2>6, <2>7
<1>3. CASE DeleteAccount(u) \/ RestoreAccount(u)
  <2>1. UNCHANGED <<approval, standing>>
    BY <1>3 DEF DeleteAccount, RestoreAccount, memberVars
  <2>2. PICK d \in BOOLEAN :
          /\ deleted' = [deleted EXCEPT ![u] = d]
          /\ active' = [active EXCEPT ![u] = (~d /\ approval[u] = "active")]
    <3>1. CASE DeleteAccount(u)
      <4>1. (~TRUE /\ approval[u] = "active") = FALSE
        OBVIOUS
      <4> QED
        BY <3>1, <4>1 DEF DeleteAccount
    <3>2. CASE RestoreAccount(u)
      <4>1. (~FALSE /\ approval[u] = "active") = (approval[u] = "active")
        OBVIOUS
      <4> QED
        BY <3>2, <4>1 DEF RestoreAccount
    <3> QED
      BY <1>3, <3>1, <3>2
  <2>3. TypeOK'
    <3>1. active' \in [Users -> BOOLEAN] /\ deleted' \in [Users -> BOOLEAN]
      BY <2>2 DEF TypeOK
    <3> QED
      BY <1>1, <2>1, <3>1 DEF TypeOK, AllAged
  <2>4. RequestInv'
    BY <1>1, ChecksKept
  <2>5. MembershipInv'
    BY <1>1, <2>1 DEF MembershipInv
  <2>6. FounderStays'
    <3> SUFFICES ASSUME NEW w \in Workspaces, NEW v \in Users, memberRole[w][v] = "OWNER"
                 PROVE  /\ standing[w][v] # "removed"
                        /\ active'[v] \/ approval[v] # "active" \/ deleted'[v]
      BY <1>1, <2>1 DEF FounderStays
    <3>1. CASE v = u
      <4>1. active'[u] = (~d /\ approval[u] = "active") /\ deleted'[u] = d
        BY <2>2 DEF TypeOK
      <4> QED
        BY <3>1, <4>1 DEF FounderStays
    <3>2. CASE v # u
      <4>1. active'[v] = active[v] /\ deleted'[v] = deleted[v]
        BY <2>2, <3>2 DEF TypeOK
      <4> QED
        BY <4>1 DEF FounderStays
    <3> QED
      BY <3>1, <3>2
  <2> QED
    BY <2>3, <2>4, <2>5, <2>6
<1> QED
  BY <1>2, <1>3 DEF Portal

LEMMA StaffInductive == StaffInv /\ [Next]_staffVars => StaffInv'
<1> SUFFICES ASSUME StaffInv, [Next]_staffVars PROVE StaffInv'
  OBVIOUS
<1>1. ASSUME NEW h \in Handlers, Reads(h) \/ Commits(h) PROVE StaffInv'
  BY <1>1, ReadKeeps, CreateKeeps, EditKeeps, ToggleKeeps, MemberKeeps DEF Commits
<1>2. CASE UNCHANGED staffVars
  <2>1. UNCHANGED <<role, active, approval, deleted, creator, standing, memberRole, request>>
    BY <1>2 DEF staffVars
  <2> QED
    BY <2>1 DEF StaffInv, TypeOK, RequestInv, Checked, MembershipInv, FounderStays
<1> QED
  BY <1>1, <1>2, RepairKeeps, PortalKeeps DEF Next

\* Every variable keeps to its type: a membership has a role exactly while
\* there is one, and only accounts that exist are members.
THEOREM TypeCorrect == Spec => []TypeOK
<1>1. StaffInv => TypeOK
  BY DEF StaffInv
<1> QED
  BY <1>1, StaffInit, StaffInductive, PTL DEF Spec

\* The founder of a workspace is neither removed from it nor deactivated by
\* its managers, whatever an edit has made of the founder's account: every
\* request that removes or deactivates was checked against the membership,
\* whose rank no request changes.
THEOREM FoundersStay == Spec => []FounderStays
<1>1. StaffInv => FounderStays
  BY DEF StaffInv
<1> QED
  BY <1>1, StaffInit, StaffInductive, PTL DEF Spec

(***************************************************************************)
(* What a request no commit has overtaken has read is still true.          *)
(***************************************************************************)
FreshInv ==
  \A h \in Handlers : request[h] # Idle /\ request[h].fresh =>
    /\ HasPages(request[h].actor, request[h].workspace)
    /\ request[h].kind \in {"toggle", "remove", "restore"} =>
         Agree(request[h].workspace, request[h].user)

LEMMA FreshInductive == StaffInv /\ FreshInv /\ [Next]_staffVars => FreshInv'
<1> SUFFICES ASSUME StaffInv, FreshInv, [Next]_staffVars PROVE FreshInv'
  OBVIOUS
<1> USE DEF StaffInv
<1>1. AllAged => FreshInv'
  BY DEF AllAged, Outdated, FreshInv
<1>2. ASSUME NEW h \in Handlers, NEW r, request' = [request EXCEPT ![h] = r],
             UNCHANGED <<accountVars, memberVars>>,
             r # Idle /\ r.fresh =>
               /\ HasPages(r.actor, r.workspace)
               /\ r.kind \in {"toggle", "remove", "restore"} => Agree(r.workspace, r.user)
      PROVE  FreshInv'
  <2>1. UNCHANGED <<role, active, approval, deleted, standing, memberRole>>
    BY <1>2 DEF accountVars, memberVars
  <2>2. \A m, w : (HasPages(m, w) <=> HasPages(m, w)') /\ (Agree(w, m) <=> Agree(w, m)')
    BY <2>1 DEF HasPages, IsManager, CanAccessApp, Member, Agree
  <2> SUFFICES ASSUME NEW g \in Handlers, request'[g] # Idle, request'[g].fresh
               PROVE  /\ HasPages(request'[g].actor, request'[g].workspace)
                      /\ request'[g].kind \in {"toggle", "remove", "restore"} =>
                           Agree(request'[g].workspace, request'[g].user)
    BY <2>1 DEF FreshInv, HasPages, IsManager, CanAccessApp, Member, Agree
  <2>3. CASE g = h
    <3>1. request'[g] = r
      BY <1>2, <2>3 DEF TypeOK
    <3> QED
      BY <1>2, <3>1
  <2>4. CASE g # h
    <3>1. request'[g] = request[g]
      BY <1>2, <2>4 DEF TypeOK
    <3> QED
      BY <3>1 DEF FreshInv
  <2> QED
    BY <2>3, <2>4
<1>3. ASSUME NEW h \in Handlers, Reads(h) PROVE FreshInv'
  <2>1. PICK r : Takes(h, r)
    BY <1>3, ReadChecks
  <2> QED
    BY <1>2, <2>1 DEF Takes, Read
<1>4. ASSUME NEW h \in Handlers, Commits(h) PROVE FreshInv'
  BY <1>1, <1>2, <1>4, Ages DEF Commits, CreateCommit, CreateCollides, EditCommit, ToggleCommit,
       MemberCommit
<1>5. ASSUME \/ \E o \in Users, w \in Workspaces : Repair(o, w)
             \/ \E u \in PortalUsers : Portal(u)
      PROVE  FreshInv'
  BY <1>1, <1>5, Ages DEF Repair, Portal, Approve, Disable, DeleteAccount, RestoreAccount
<1>6. CASE UNCHANGED staffVars
  <2>1. UNCHANGED <<role, active, approval, deleted, standing, memberRole, request>>
    BY <1>6 DEF staffVars
  <2> QED
    BY <2>1 DEF FreshInv, HasPages, IsManager, CanAccessApp, Member, Agree
<1> QED
  BY <1>3, <1>4, <1>5, <1>6 DEF Next

LEMMA StaffFreshInductive ==
  /\ Init => StaffInv /\ FreshInv
  /\ StaffInv /\ FreshInv /\ [Next]_staffVars => (StaffInv /\ FreshInv)'
<1>1. Init => FreshInv
  BY DEF Init, FreshInv
<1> QED
  BY <1>1, StaffInit, StaffInductive, FreshInductive

(***************************************************************************)
(* What the steps of managers may do.                                      *)
(***************************************************************************)
LEMMA PortalShows ==
  ASSUME TypeOK, NEW u \in Users, Portal(u)
  PROVE  PortalStep
<1>1. CASE Approve(u) \/ Disable(u)
  BY <1>1 DEF Approve, Disable, PortalStep, TypeOK
<1>2. CASE DeleteAccount(u) \/ RestoreAccount(u)
  <2>1. deleted'[u] # deleted[u]
    BY <1>2 DEF DeleteAccount, RestoreAccount, TypeOK
  <2> QED
    BY <2>1 DEF PortalStep
<1> QED
  BY <1>1, <1>2 DEF Portal

\* A commit that is not stale, and what it rests on.
LEMMA OnTime ==
  ASSUME StaffInv, FreshInv, ~StaleCommit, NEW h \in Handlers, Finish(h),
         request[h].kind # "idle"
  PROVE  /\ request[h] # Idle /\ request[h] \in Requests /\ request'[h] = Idle
         /\ Checked(request[h])
         /\ HasPages(request[h].actor, request[h].workspace)
         /\ request[h].kind \in {"toggle", "remove", "restore"} =>
              Agree(request[h].workspace, request[h].user)
<1>1. request[h] # Idle /\ request[h] \in Requests
  BY Busy DEF StaffInv
<1>2. request'[h] = Idle
  BY DEF Finish
<1>3. request[h].fresh
  BY <1>1, <1>2 DEF StaleCommit
<1> QED
  BY <1>1, <1>2, <1>3 DEF FreshInv, StaffInv, RequestInv

\* Commits of managers about an account that is there.
Acts(h) == EditCommit(h) \/ ToggleCommit(h) \/ MemberCommit(h)

\* A step that is none of the portal's, by its kind.
LEMMA StaffSteps ==
  ASSUME StaffInv, Next, ~PortalStep
  PROVE  \/ UNCHANGED <<accountVars, memberVars>>
         \/ \E h \in Handlers : CreateCommit(h) \/ Acts(h)
         \/ \E o \in Users, w \in Workspaces : Repair(o, w)
<1>1. ASSUME NEW h \in Handlers, Reads(h)
      PROVE  UNCHANGED <<accountVars, memberVars>>
  BY <1>1, ReadChecks DEF Takes, Read
<1> QED
  BY <1>1, PortalShows DEF Next, Commits, CreateCollides, Acts, StaffInv

\* Lists opened by owners and accounts created take nobody's pages away.
LEMMA PagesKept ==
  ASSUME TypeOK, NEW w \in Workspaces, NEW m \in Users, HasPages(m, w),
         \/ UNCHANGED <<accountVars, memberVars>>
         \/ \E h \in Handlers : CreateCommit(h)
         \/ \E o \in Users, v \in Workspaces : Repair(o, v)
  PROVE  HasPages(m, w)'
<1> USE DEF HasPages, IsManager, CanAccessApp, Member
<1>1. CASE UNCHANGED <<accountVars, memberVars>>
  BY <1>1 DEF accountVars, memberVars
<1>2. ASSUME NEW h \in Handlers, CreateCommit(h) PROVE HasPages(m, w)'
  <2> DEFINE r == request[h]
  <2>1. r \in Requests /\ role[r.user] = None
    BY <1>2, Busy DEF CreateCommit
  <2>2. m # r.user /\ r.user \in Users /\ r.workspace \in Workspaces
    BY <2>1 DEF Requests
  <2>3. active' = [active EXCEPT ![r.user] = r.on]
    BY <1>2 DEF CreateCommit
  <2>4. /\ role' = [role EXCEPT ![r.user] = r.role]
        /\ standing' = [standing EXCEPT ![r.workspace][r.user] = "active"]
        /\ UNCHANGED <<approval, deleted>>
    BY <1>2 DEF CreateCommit, Join
  <2> HIDE DEF r
  <2>5. active'[m] = active[m]
    BY <2>2, <2>3 DEF TypeOK
  <2>6. role'[m] = role[m] /\ standing'[w][m] = standing[w][m]
    BY <2>2, <2>4 DEF TypeOK
  <2> QED
    BY <2>4, <2>5, <2>6
<1>3. ASSUME NEW o \in Users, NEW v \in Workspaces, Repair(o, v) PROVE HasPages(m, w)'
  <2>1. standing'[w][m] = "active"
    BY <1>3 DEF Repair, TypeOK
  <2> QED
    BY <1>3, <2>1 DEF Repair, accountVars
<1> QED
  BY <1>1, <1>2, <1>3

\* Who commits a request keeps its own pages.
LEMMA ActorKept ==
  ASSUME StaffInv, FreshInv, ~StaleCommit, NEW h \in Handlers, Acts(h),
         NEW m \in Users, m = request[h].actor, NEW w \in Workspaces, w = request[h].workspace
  PROVE  HasPages(m, w)'
<1> DEFINE r == request[h]
<1> USE DEF StaffInv, HasPages, IsManager, CanAccessApp, Member
<1>1. /\ r \in Requests /\ Checked(r) /\ HasPages(m, w)
      /\ r.kind \in {"edit", "toggle", "remove", "restore"}
  BY OnTime DEF Acts, EditCommit, ToggleCommit, MemberCommit
<1>2. r.user \in Users
  BY <1>1 DEF Requests
<1>3. CASE EditCommit(h)
  <2>1. /\ role' = [role EXCEPT ![r.user] = r.role] /\ r.kind = "edit"
        /\ UNCHANGED <<active, approval, deleted, standing>>
    BY <1>3 DEF EditCommit, memberVars
  <2>2. r.user = m => r.role \in Managers
    BY <1>1, <2>1 DEF Checked
  <2> HIDE DEF r
  <2>3. role'[m] \in Managers
    BY <1>1, <1>2, <2>1, <2>2 DEF TypeOK
  <2> QED
    BY <1>1, <2>1, <2>3
<1>4. CASE ToggleCommit(h)
  <2>1. active' = [active EXCEPT ![r.user] = r.on] /\ r.kind = "toggle"
    BY <1>4 DEF ToggleCommit
  <2>2. UNCHANGED <<role, approval, deleted, standing>>
    BY <1>4 DEF ToggleCommit, memberVars
  <2>3. active'[m] = active[m]
    BY <1>1, <1>2, <2>1 DEF TypeOK, Checked
  <2> QED
    BY <1>1, <2>2, <2>3
<1>5. CASE MemberCommit(h)
  <2>1. UNCHANGED <<role, active, approval, deleted>> /\ r.kind \in {"remove", "restore"}
    BY <1>5 DEF MemberCommit, accountVars
  <2>2. standing'[w][m] = standing[w][m]
    BY <1>1, <1>2, <1>5 DEF MemberCommit, Checked, TypeOK
  <2> QED
    BY <1>1, <2>1, <2>2
<1> QED
  BY <1>3, <1>4, <1>5 DEF Acts

\* Whatever the managers of a workspace do to one another, one of them keeps
\* its pages, so long as each acts on what is true when it commits: the one
\* who commits does, since nobody demotes, deactivates or removes itself.
THEOREM ManagerKept == Spec => LastManagerKept
<1> DEFINE Kept == \A w \in Workspaces : HasManager(w) /\ ~HasManager(w)' =>
             PortalStep \/ StaleCommit \/ FromElsewhere(w)
<1>1. StaffInv /\ FreshInv /\ [Next]_staffVars => [Kept]_staffVars
  <2> SUFFICES ASSUME StaffInv, FreshInv, Next, NEW w \in Workspaces, HasManager(w),
                      ~PortalStep, ~StaleCommit, ~FromElsewhere(w)
               PROVE  HasManager(w)'
    OBVIOUS
  <2>1. PICK m \in Users : HasPages(m, w)
    BY DEF HasManager
  <2>2. ASSUME HasPages(m, w)' PROVE HasManager(w)'
    BY <2>2 DEF HasManager
  <2>3. ASSUME NEW h \in Handlers, Acts(h) PROVE HasManager(w)'
    <3>1. /\ request[h] # Idle /\ request[h] \in Requests /\ request'[h] = Idle
      BY <2>3, OnTime DEF Acts, EditCommit, ToggleCommit, MemberCommit
    <3>2. request[h].workspace = w /\ request[h].actor \in Users
      BY <3>1 DEF FromElsewhere, Requests
    <3>3. PICK a \in Users : a = request[h].actor
      BY <3>2
    <3>4. HasPages(a, w)'
      BY <2>3, <3>2, <3>3, ActorKept
    <3> QED
      BY <3>4 DEF HasManager
  <2> QED
    BY <2>1, <2>2, <2>3, StaffSteps, PagesKept DEF StaffInv
<1> QED
  BY <1>1, StaffFreshInductive, PTL DEF Spec, LastManagerKept

Untouched(u) ==
  /\ \A w \in Workspaces : standing[w][u] # "none" /\ ~Agree(w, u) =>
       standing'[w][u] = standing[w][u]
  /\ ApartEverywhere(u) => active'[u] = active[u]

\* An account whose two roles have come apart is out of its managers' reach:
\* each request that touches a membership, or the activity of an account, has
\* found the two roles of that membership to agree.
THEOREM MismatchStays == Spec => MismatchFreezes
<1> DEFINE Frozen == \A u \in Users :
       \/ /\ \A w \in Workspaces : standing[w][u] # "none" /\ ~Agree(w, u) =>
                standing'[w][u] = standing[w][u]
          /\ ApartEverywhere(u) => active'[u] = active[u]
       \/ PortalStep \/ StaleCommit
<1>1. StaffInv /\ FreshInv /\ [Next]_staffVars => [Frozen]_staffVars
  <2> SUFFICES ASSUME StaffInv, FreshInv, Next, ~PortalStep, ~StaleCommit, NEW u \in Users
               PROVE  Untouched(u)
    BY DEF Untouched
  <2> USE DEF StaffInv, Untouched
  <2>1. CASE UNCHANGED <<accountVars, memberVars>>
    BY <2>1 DEF accountVars, memberVars
  <2>2. ASSUME NEW h \in Handlers, CreateCommit(h) PROVE Untouched(u)
    <3> DEFINE r == request[h]
    <3>1. r \in Requests /\ role[r.user] = None
      BY <2>2, Busy DEF CreateCommit
    <3>2. r.user \in Users /\ r.workspace \in Workspaces
      BY <3>1 DEF Requests
    <3>3. \A w \in Workspaces : standing[w][r.user] = "none"
      BY <3>1, <3>2 DEF TypeOK
    <3>4. active' = [active EXCEPT ![r.user] = r.on]
      BY <2>2 DEF CreateCommit
    <3>5. standing' = [standing EXCEPT ![r.workspace][r.user] = "active"]
      BY <2>2 DEF CreateCommit, Join
    <3> HIDE DEF r
    <3>6. CASE u = r.user
      BY <3>3, <3>6 DEF ApartEverywhere
    <3>7. CASE u # r.user
      <4>1. active'[u] = active[u]
        BY <3>2, <3>4, <3>7 DEF TypeOK
      <4>2. \A w \in Workspaces : standing'[w][u] = standing[w][u]
        BY <3>2, <3>5, <3>7 DEF TypeOK
      <4> QED
        BY <4>1, <4>2
    <3> QED
      BY <3>6, <3>7
  <2>3. ASSUME NEW h \in Handlers, Acts(h) PROVE Untouched(u)
    <3> DEFINE r == request[h]
    <3>1. /\ r \in Requests /\ Checked(r)
          /\ r.kind \in {"toggle", "remove", "restore"} => Agree(r.workspace, r.user)
      BY <2>3, OnTime DEF Acts, EditCommit, ToggleCommit, MemberCommit
    <3>2. r.user \in Users /\ r.workspace \in Workspaces
      BY <3>1 DEF Requests
    <3>3. CASE EditCommit(h)
      BY <3>3 DEF EditCommit, memberVars
    <3>4. CASE ToggleCommit(h)
      <4>1. UNCHANGED standing /\ active' = [active EXCEPT ![r.user] = r.on] /\ r.kind = "toggle"
        BY <3>4 DEF ToggleCommit, memberVars
      <4>2. Agree(r.workspace, r.user) /\ standing[r.workspace][r.user] # "none"
        BY <3>1, <3>2, <4>1 DEF Checked, TypeOK, Lower
      <4>3. ~ApartEverywhere(r.user)
        BY <3>2, <4>2 DEF ApartEverywhere
      <4>4. u # r.user => active'[u] = active[u]
        BY <4>1 DEF TypeOK
      <4> QED
        BY <4>1, <4>3, <4>4
    <3>5. CASE MemberCommit(h)
      <4>1. UNCHANGED active /\ r.kind \in {"remove", "restore"}
        BY <3>5 DEF MemberCommit, accountVars
      <4>2. PICK s : standing' = [standing EXCEPT ![r.workspace][r.user] = s]
        BY <3>5 DEF MemberCommit
      <4>3. \A w \in Workspaces : w # r.workspace \/ u # r.user => standing'[w][u] = standing[w][u]
        BY <3>2, <4>2 DEF TypeOK
      <4> QED
        BY <3>1, <4>1, <4>3
    <3> QED
      BY <2>3, <3>3, <3>4, <3>5 DEF Acts
  <2>4. ASSUME NEW o \in Users, NEW w \in Workspaces, Repair(o, w) PROVE Untouched(u)
    <3>1. UNCHANGED active
      BY <2>4 DEF Repair, accountVars
    <3>2. \A v \in Workspaces : standing[v][u] # "none" => standing'[v][u] = standing[v][u]
      BY <2>4 DEF Repair, Repairable, TypeOK
    <3> QED
      BY <3>1, <3>2
  <2> QED
    BY <2>1, <2>2, <2>3, <2>4, StaffSteps
<1> QED
  BY <1>1, StaffFreshInductive, PTL DEF Spec, MismatchFreezes

\* Removal from a workspace is lifted by a manager's restore or by the portal
\* enabling the account; the repair of memberships, for one, does not.
THEOREM RemovalStays == Spec => RemovalLifted
<1> DEFINE Lifted == \A w \in Workspaces, u \in Users :
       standing[w][u] = "removed" /\ standing'[w][u] # "removed" =>
         Committed({"restore"}, u) \/ approval'[u] # approval[u]
<1>1. StaffInv /\ [Next]_staffVars => [Lifted]_staffVars
  <2> SUFFICES ASSUME StaffInv, Next, NEW w \in Workspaces, NEW u \in Users,
                      standing[w][u] = "removed", standing'[w][u] # "removed",
                      approval'[u] = approval[u]
               PROVE  Committed({"restore"}, u)
    OBVIOUS
  <2> USE DEF StaffInv
  <2>1. standing' # standing
    OBVIOUS
  <2>2. ASSUME NEW v \in Users, Portal(v) PROVE FALSE
    <3>1. CASE Approve(v) \/ Disable(v)
      <4>1. v = u
        BY <3>1 DEF Approve, Disable, Memberships
      <4> QED
        BY <3>1, <4>1 DEF Approve, Disable, TypeOK
    <3>2. CASE DeleteAccount(v) \/ RestoreAccount(v)
      BY <2>1, <3>2 DEF DeleteAccount, RestoreAccount, memberVars
    <3> QED
      BY <2>2, <3>1, <3>2 DEF Portal
  <2>3. ASSUME NEW o \in Users, NEW v \in Workspaces, Repair(o, v) PROVE FALSE
    BY <2>3 DEF Repair, Repairable, TypeOK
  <2>4. ASSUME NEW h \in Handlers, CreateCommit(h) PROVE FALSE
    <3>1. request[h] \in Requests /\ role[request[h].user] = None
      BY <2>4, Busy DEF CreateCommit
    <3>2. u # request[h].user
      BY <3>1 DEF TypeOK
    <3> QED
      BY <2>4, <3>2 DEF CreateCommit, Join, TypeOK
  <2>5. ASSUME NEW h \in Handlers, Reads(h) PROVE FALSE
    BY <2>1, <2>5, ReadChecks DEF Takes, Read, memberVars
  <2>6. ASSUME NEW h \in Handlers, CreateCollides(h) \/ EditCommit(h) \/ ToggleCommit(h) PROVE FALSE
    BY <2>1, <2>6 DEF CreateCollides, EditCommit, ToggleCommit, memberVars
  <2>7. PICK h \in Handlers : MemberCommit(h)
    BY <2>2, <2>3, <2>4, <2>5, <2>6 DEF Next, Commits
  <2>8. request[h] \in Requests /\ request[h] # Idle /\ request'[h] = Idle
    BY <2>7, Busy DEF MemberCommit, Finish
  <2>9. request[h].kind = "restore" /\ request[h].user = u
    BY <2>7, <2>8 DEF MemberCommit, TypeOK, Requests
  <2> QED
    BY <2>8, <2>9 DEF Committed
<1>2. Init => StaffInv
  BY StaffInit
<1>3. StaffInv /\ [Next]_staffVars => StaffInv'
  BY StaffInductive
<1> QED
  BY <1>1, <1>2, <1>3, PTL DEF Spec, RemovalLifted
===============================================================================
