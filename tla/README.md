# SpaManager: TLA+ models and proofs

SpaManager is a multi-tenant Flask application for spas: each workspace (tenant) has
owners and staff, customers, services, appointments and invoices, and an approval portal
removes owners, workspaces and accounts for good. This directory models the parts of it
whose correctness depends on the order of steps of several actors. TLC checks every module
on small instances, and TLAPS proves for all values of the constants every property the
runs check, but for the one of liveness.

    tlc -workers 2 -config PurgeRace.cfg MCPurgeWorkflow    # one run (see "Runs")
    tlapm PurgeWorkflowProofs.tla                           # the proofs

`PROJECT.json` lists components, runs, findings, hazards and theorems, maps each definition
to the lines it models, and gives for every property a mutant of the model that breaks it.

Paths such as `services/user_service.py` are relative to the repository's root.

## 1. The system

### How it runs

Gunicorn runs two synchronous workers (`Procfile`) and kills one whose request takes more
than 120 seconds; a worker executes one request at a time, from the gate `require_login`
(`app.py`) to the response. The database is PostgreSQL
at its default isolation, READ COMMITTED (SQLite in tests and on a developer's machine).
A service usually commits once; the purge of a workspace uses several sessions and commits in
a row. Rows that must not change under a transaction are locked with `with_for_update`; much
older code reads without a lock and relies on the commit coming soon. There is no background
job: nothing happens except by a request or by an operator's command.

### Components

State is in tables unless another place is named.

| component | state | operations | what makes it correct |
|---|---|---|---|
| Permanent workspace purge: `services/purge_*.py`, `routes/approval.py` | requests, holds, authorizations, the terminal marker of a workspace, request events | create, approve, reject, cancel; place and release a hold; issue, claim, revoke; execute; record failure, reconcile | a workspace is destroyed at most once, for its present deletion, approved, not held, under an authorization that was not revoked; a claim ends |
| Re-authentication throttle (in both `*_reauth_service.py`) | one row per actor: count, first failure, lock | wrong and right answer | guesses in a window are bounded; no failure is lost |
| Owner and workspace lifecycle: `user_service.py`, `workspace_service.py` | `deleted_at`, `deleted_by_id`, approval status, memberships, slugs | delete and restore an owner with the workspaces, approve, reject, disable, enable, found a workspace | no workspace stays active without an owner, none is lost in the bin, purged stays purged |
| Account purge: `account_purge_*.py` | requests, holds, authorizations | create, review; place, release; issue, claim, start, park, revoke | one open request; the executor is not the approver; a claim has one owner, and what it was judged by holds when it commits |
| Identity reservation: `account_identity_reservation_service.py` | reserved user names and e-mails | reserve, check | what is reserved is the target's own name, and nobody is given it |
| Staff and users: `user_service.py` | users, memberships | create, update, activate, remove, restore, reset a password | a manager is left; the founder stays; a removed member stays out; an account whose roles differ is left alone |
| Authentication and sessions: `auth_service.py`, `app.py` | the session cookie | login, logout, change password, rename, gate, choice of a workspace | a page keeps to one workspace, and the next page to that of before |
| Login rate limit: `login_rate_limit_service.py` | a worker's memory | failure, success, check | attempts are bounded |
| Google sign-in: `core/auth/google_oauth.py` | pending owners | callback | as sessions |
| CSRF protection | a token in the session | check | none beyond the request |
| Appointments, customers, services, invoices, recycle bin | a table each, soft-deleted rows | create, update, delete, restore, delete permanently | no double booking; nothing with a history is removed; a restore keeps its references valid |
| Backup catalogue and database restore: `backup_service.py`, `backup_repository.py` | files and `metadata.json` | back up, upload, scan, edit, delete, restore | the catalogue tells what is in the directory; a restore does not damage the database |
| Spreadsheet import: `import_service.py` | an analysed file between two requests | analyse, execute | telephone and e-mail stay unique |
| Data audit and repair: `data_audit_service.py` | none | read; repair | what is wrong is reported |
| Settings, activity log | rows | write, append | |
| Dashboard, statistics, lists; dashboard cache | a cache of 30 seconds in each worker | read | the figures agree with one another |
| Diagnostics, export, migrations, shell, validators, templates, tests | | | |

`PROJECT.json` names the files of each, and its status: modelled, partly, or not.

### How they interact

* Every tenant request passes the gate, which loads the user, the membership and the
  workspace and refuses one that is deleted. Handlers then write through a query scoped to
  that workspace without looking at its deletion again. A handler that passed the gate just
  before a deletion therefore writes after it.
* Logout, password change and password reset revoke the actor's execution authorizations, in
  the purge of workspaces, in the transaction that also writes the activity log.
* Restoring an owner restores the workspaces of that deletion and voids their purge
  requests; a purged workspace or a purge of unknown outcome refuses the restore.
* The purge removes the memberships of its workspace; an owner left without any founds a new
  workspace at the next page. Disabling a user makes every membership inactive, approving
  makes every one active.
* The two purges share the throttle row of an actor and update it by different code.
* The purge of an account looks at the memberships, deletion and holds that the staff
  module and the portal change.
* Customers, services, appointments, invoices and the recycle bin refuse each other's
  deletions by counting references, without locks. The statistics and lists rest on that:
  each filters by other deletions, and they agree only while nothing in use is in the bin.
* Managers act on accounts and memberships, the portal on the same rows by other rules; both
  change what the next request of a session is served.
* A visit to the settings page scans the backup folders and rewrites the catalogue; a restore
  replaces the database under every other request.

### What is hard here

* **Interleavings at READ COMMITTED**: checks by unlocked reads (last owner, slug, slot,
  telephone number, user name, last manager), two tabs with one nonce, two deletions of one
  owner; two workers that rewrite one catalogue.
* **One operation in several transactions**: claim, destructive transaction, follow-up.
  Between them a logout, a restore, a hold, another handler or a crash may come.
* **Unknown outcomes**: a commit that fails or whose answer is lost; a worker killed between
  emptying a file and writing it.
* **Stale data**: an approval for an earlier deletion or for other rows; a restore that
  chose its workspaces before another deletion stamped them.
* **Boundaries of time**: retention, freshness, failure window and lock.
* **Long legal sequences** that leave one part of the state behind another (stamps and
  memberships of an owner, generations of an authorization).

All of these are hazards in `PROJECT.json`, at the line where they bite, with the property
that would catch them, or the reason why none does.

## 2. The modules

| module | models | used by |
|---|---|---|
| `PurgeWorkflow` | the workspace purge end to end, with deletion, restore, logout and tenant writes | `MCPurgeWorkflow`, `PurgeWorkflowProofs` |
| `PurgePromise` | what a purge promises, abstractly | `PurgeWorkflow` (`INSTANCE ... WITH`) |
| `ReauthThrottle` | the throttle row under both services | `ReauthThrottleProofs` |
| `OwnerLifecycle` | owners and workspaces under concurrent handlers | `MCOwnerLifecycle`, `OwnerLifecycleProofs` |
| `AccountPurge` | requests, holds and authorizations of the account purge | `MCAccountPurge`, `AccountPurgeProofs` |
| `Staff` | managers and the portal on each other's accounts and memberships | `MCStaff`, `StaffProofs` |
| `SignIn` | how accounts get their names, reservations, and sessions up to the page served | `MCSignIn`, `SignInProofs` |
| `BackupCatalog` | the backup folders, their catalogue, and restores, by several workers | `MCBackupCatalog`, `BackupCatalogProofs` |
| `Records` | the rows of a workspace, and how a handler's writes reach them | `CustomerRecords` |
| `CustomerRecords` | customers and their import from a file | `Bookings` |
| `Bookings` | services, appointments, invoices, the recycle bin, and the whole next-state relation | `Reports` |
| `Reports` | statistics, lists and the data audit over those rows | `MCBookings`, `BookingsProofs` |

`OwnerLifecycle` and `Staff` state the types of their variables in `TypeOK`, which their runs
leave to the proofs; the runs check the properties that say more.

The `MC` modules only give values to constants and define symmetry. A module named
`...Proofs` holds the theorems about a component, their proofs, and the inductive invariants
that only the proofs need.

### PurgeWorkflow

One workspace, its deletions one after the other, and any number of handlers. Each action is
one database transaction: the code serialises them on row locks taken in the order request,
workspace, terminal marker (authorization rows and holds are locked too), so each takes
effect at its commit. Between transactions a handler holds nothing.

| variable | in the code |
|---|---|
| `workspace.life`, `.deleted` | `workspaces.deleted_at`, `deleted_by_id`: a deletion is its ordinal, which stands for the pair that the code compares as provenance |
| `workspace.purgeRequest` | the terminal marker (`workspace_purge_states`), 0 for none |
| `rows` | the tenant's rows, and the logo reference, which blocks a purge |
| `writing` | a tenant handler past the gate that has not committed |
| `elapsed` | the database clock has passed the retention date |
| `hold` | `workspace_legal_holds` |
| `request` | one purge request per deletion; `manifest` is what it would destroy, `clear` the hold snapshot, `doneBy` the execution it completed by |
| `auth` | the authorization row: state, generation, actor, whether it is still fresh |
| `worker` | a handler between its claim and its last transaction |
| `revoked` | history only: the generations ever revoked |

| actions | code |
|---|---|
| `SoftDelete`, `Restore` | `soft_delete_owner_workspace`, `restore_owner_workspace` with `invalidate_requests_for_workspace_restore` |
| `WriteBegin`, `WriteLand` | the gate and the commit of a tenant handler |
| `CreateRequest`, `Approve`, `Reject`, `Cancel` | `purge_request_service.py` |
| `PlaceHold`, `ReleaseHold` | `purge_legal_hold_service.py` |
| `Issue`, `IssueUndelivered`, `Expire`, `Claim`, `RevokeActor` | `purge_reauth_service.py`, and the callers of its revocations |
| `PurgeCommit`, `PurgeCommitUnanswered`, `PurgeCommitLost`, `FailAfterStart`, `PreflightReject`, `FailBeforeStart` | the ways in which `execute_workspace_purge` ends its destructive transaction |
| `RevokeForRequest`, `MarkClaimUnresolved`, `RecordFailure`, `ReconcileCommit` | the follow-up transaction it owes in each case |
| `Crash` | the process dies between two transactions |

Assumed, with the reason:

* No tenant request lives as long as the retention period (30 days, against a request timeout
  of 120 seconds): `RetentionElapses` requires `~writing`. Without that assumption
  `ApprovalIsCurrent` would not hold.
* An approval owner cannot be disabled or deleted by the portal, so who may act does not
  change.
* `EXECUTING` and `SERVICE_STARTED` exist only inside the destructive transaction: another
  transaction waits for its locks and never sees them, so neither is a state of the model.
* The early return for a request that is already completed is unreachable after a claim: a
  claim needs `APPROVED`.
* The order of the row locks is not modelled, hence deadlock between transactions is not
  either; a victim's rollback is one of the failures above.

### PurgePromise

Four facts: the phase (live, trashed, destroyed), the content, whether the present content is
approved for destruction, and whether a hold stands. Content is destroyed only when trashed,
approved and not held; it does not change once approved; the approval ends with the restore;
nothing follows the destruction. `KeepsPromise` maps the request that is executable to
`approved` and any active hold to `held`. A handler that acted on a hold snapshot, on an
approval of an earlier deletion, or on rows that changed would take a step `PurgePromise`
does not have.

### ReauthThrottle

One row (`count`, `first`, `locked`) and the clock. Both services hold the row locked from
the read to the commit, so an answered password is one action. `WorkspaceWrong` has the
rollback described in section 5. `wrong` is history: the wrong answers since the last
right one. The three parameters are scaled down but keep their order, `Window <= Lockout`
(10 and 15 minutes in the code).

### OwnerLifecycle

Handlers inside READ COMMITTED transactions. The long ones are cut where stale data matters:
a deletion into the read, the flush that locks the user's row and looks at the workspaces,
and the commit; a restore into the reads and the commit, which locks the workspaces; the
founding of a workspace into the look at memberships, the look for a free slug, and the
insert. Approving, rejecting and disabling are one action, and need a free handler, so with
one handler all requests run one after the other. `users.is_active` of an owner is left out:
where it is read `deleted_at` and the approval status are read too, and these handlers keep it
consistent with them. Any deleted workspace may be purged here: when it may be is the matter of
`PurgeWorkflow`.

### AccountPurge

One removed member and the requests for its account. A call that judges whether the target
may be purged (a new request, its approval, the password check that issues an authorization,
the claim) reads row after row `FOR UPDATE` and commits in the same transaction. It is two
steps: the judgement, at the moment the last lock is held, and the commit, or a rollback.
In between come only steps that ask for no locked row: the clock, and the release of a hold for
another workspace. A restore, a deletion, a hold for the target or another call waits
(`Free`). The other calls write only what they have just locked, and are one
step each. Facts about the target that no handler changes (provenance, provider, no other
workspace) are taken to be in order, the others change at any time (`Others`). A session acts
with the generation its own last call returned. The version of a request is left out: it
changes exactly when the state leaves `REQUESTED`. No executor exists in the repository, so a
started authorization stays so until it is parked or revoked.

| variable | in the code |
|---|---|
| `membership`, `deleted`, `requesterOk` | what is judged of the target and of who asked |
| `request`, `approver`, `hold`, `auth` | the four tables of this purge |
| `caller` | what a session was told of its authorization |
| `txn` | a call between its judgement and its commit: it holds `Rows` |
| `claimedBy` | history only: whose claim stands |

| actions | code |
|---|---|
| `JudgeCreate`/`Create`, `JudgeApproval`/`Approve`, `Reject`, `Cancel` | `account_purge_request_service.py` |
| `Place`, `Release` | `account_purge_legal_hold_service.py` |
| `JudgeIssue`/`Issue`, `JudgeClaim`/`Claim`, `Start`, `Unresolve`, `Revoke`, `Expire` | `account_purge_reauth_service.py` |
| `Others` | removal, restore, disabling and deletion by `user_service.py` |

### Records, CustomerRecords, Bookings

The business records of one workspace. `Records` holds the state and what the database and
SQLAlchemy do with it, and has no idea of the operations; `CustomerRecords` and `Bookings` add
those.

| variable | in the code |
|---|---|
| `row` | the rows of `customers`, `services`, `appointments`, and of `invoices` with their `invoice_details`; `deleted` is `deleted_at`; a row is `Unused` before and `Erased` after its life |
| `today` | `local_today()` |
| `handler` | the INSERTs and changed columns a handler will send at its commit |

| actions | code |
|---|---|
| `CreateCustomer`, `UpdateCustomer`, `DeleteCustomer`, `RestoreCustomer` | `customer_service.py` up to the commit |
| `ImportCustomers` | `analyze_file` and `execute_import` up to the commit |
| `CreateService`, `DeleteService`, `RestoreService` | `service_service.py` |
| `ImportServices` | the import of services: the rows it makes |
| `CreateAppointment`, `UpdateAppointment`, `DeleteAppointment`, `RestoreAppointment` | `appointment_service.py` with its validator; `update_status` is an update |
| `CreateInvoice`, `DeleteInvoice`, `RestoreInvoice` | `invoice_service.py` with its validator |
| `Erase` | `RecycleBinService.permanent_delete`, atomic: it locks the row |
| `Commit`, `Rollback` | `db.session.commit()`; an exception |

Each operation but the permanent deletion is two steps, because everything it checks it reads
without a lock. All reads of a handler are one step, that is, they are taken to see the same
rows. Taken from the database: ids are not reused, a foreign key refuses a reference to a row
that is gone, SQLAlchemy refuses an update of such a row and sends only the columns that
differ (the edit form of an appointment sends the ids as text, which always differ; it matters
only for two editors of one appointment). A file that is refused as a whole (all or nothing)
is no step. Left out: names (and so the comparison by name when services are imported),
prices, notes, amounts and `update_service`.

### Reports

Functions of the committed rows, one per query, without state of their own. A sum of money is
the set of the invoices it adds up and a count the set of what it counts, which tells two
queries apart whenever they can differ. `Audit` is the set of issues that
`run_data_consistency_audit` would print. `FiguresAgree` relates nine queries of four services;
`RacesAreReported` says what overlapping requests can leave behind and that the audit shows it.

### Staff

Accounts with two roles, that of the account and that of the membership, and the requests of
managers in two steps: a read with all checks, and a commit that writes what was decided then.
`fresh` is history: no other request has committed since the read. The portal's handlers are
one step. An account from the time before memberships (`Legacy`) is what the repair at the list
of users is for. `LastManagerKept` excepts a request made in another workspace, because the
code counts the managers that are left over all workspaces: see the observations. Since an
account may have several memberships, `MismatchFreezes` freezes each membership whose role is
not the account's, and the account's activity when that is so of all of them.

| actions | code |
|---|---|
| `CreateRead`, `EditRead`, `ToggleRead`, `RemoveRead`, `RestoreRead` and the commits | `create_user`, `update_user`, `toggle_active`, `soft_delete_user`, `restore_user`, with the checks of `routes/user.py` |
| `Repair` | `repair_legacy_owner_created_memberships`, from the list of users |
| `Approve`, `Disable`, `DeleteAccount`, `RestoreAccount` | the portal (`routes/approval.py`) |

### SignIn

A name stands for the user name and the e-mail alike: both are checked first and guarded by an
index afterwards. It can come to an account in five ways (created, changed by the holder,
seeded at start-up, by Google; a manager's change is a rename here), and a reservation takes it
away for good. Each way is a look-up and a commit; the index refuses the loser of a race
(`Collides`), which all but the Google callback answer. What managers and the portal decide
comes at any time.

A page request passes `Gate`. From there it asks for its workspace as often as it likes
(`ScopeRead`, `ScopeLost`: the membership is queried each time), and reads or writes rows by a
filter it was given before (`Rows`); a removal can come between the two. The account is the row
the gate read (SQLAlchemy's identity map), or that row afresh. The statistics pages alone may
choose another workspace, before their first query (`Recheck`, `Reselect`).

| variable | in the code |
|---|---|
| `approval`, `active`, `deleted`, `member`, `name` | `users` and the active rows of `workspace_members` |
| `reserved` | `account_identity_reservations` |
| `request` | a handler between its checks and its commit; it holds the advisory locks of its name and of a target |
| `session` | the cookie of a browser |
| `page` | its present request: the account it was admitted as, the workspaces it was told to filter by, those whose rows it touched |

| actions | code |
|---|---|
| `CreateRead`/`CreateCommit`, `RenameRead`/`RenameCommit`, `SeedRead`/`SeedCommit`, `GoogleRead`/`GoogleCommit`, `Collides` | `create_user`, `update_profile`, `seed_owner_if_empty`, the Google callback |
| `ReserveRead`, `ReserveLock`, `ReserveRefused`, `ReserveCommit` | `reserve_target_identities_in_transaction` |
| `Login`, `LoginPage`, `GoogleLogin`, `Logout` | `auth_service.py`, `routes/auth.py`, `google_oauth.py` |
| `Gate`; `ScopeRead`, `ScopeLost`, `Rows`; `Recheck`, `Reselect`; `PageEnds` | `require_login`; `get_current_workspace_id`, `scoped_query`, `assign_workspace`; `routes/statistics.py`; the answer |
| `Approve`, `Withdraw`, `Toggle`, `Move`, `DeleteAccount`, `RestoreAccount` | what others decide about an account |

### BackupCatalog

The files of both folders, the catalogue of the present one, and each worker's next step.
Loading, emptying and writing the catalogue are steps of their own, and a worker may be killed
before each. A file is what the database was when it was copied, torn, or empty; names are made
from the second, so two in one second are one name. `alone` is history: no other worker was at
work since the job began.

| actions | code |
|---|---|
| `Create`, `Delete`/`Drop`, `EditNotes` | `backup_service.py` |
| `Save`, `Truncate`, `Write` | `backup_repository.py` |
| `Sync`, `Scan` | `sync_backups`, on each visit to the settings page |
| `UploadFile`, `Inspect`, `CheckOther`, `Accept` | `upload_backup` of `routes/setting.py` |
| `Restore`, `Confirm`, `RestoreUpload`, `Validate`, `Copy` | the three restores and `restore_service.py` |
| `Crash` | a worker is killed |

## 3. Runs

`CHECK_DEADLOCK FALSE` in every configuration: the system really may stop (a purged workspace
has nothing left to do, and the bounded counters run out), and nothing in it waits for a
partner. What must not stop is said by `ClaimResolves`.

| run | bounds | question |
|---|---|---|
| `purge_race` | 2 owners, 2 handlers, 1 hold, 2 rows, 1 deletion, 2 generations, crashes | Do handlers that race over one request, with revocations and reissues between, ever complete under a revoked or shared authorization, or reopen what is decided or frozen? |
| `purge_lifecycle` | 2 owners (1 without a password), 1 handler, 2 deletions, 1 generation, crashes | Does an approval stay tied to its deletion and rows through restore and second deletion? Does the workflow implement `PurgePromise`? |
| `purge_resolves` | as `purge_race`, no crashes, fair handlers, 1 owner with a password | Does every claim end? |
| `throttle_shared` | limit 3, window 2, lock 3, 8 instants, 7 wrong answers | Do two services that count differently into one row keep it meaningful? Are guesses bounded? |
| `owners` | 3 owners, 4 workspaces (2 to be founded), 2 handlers, 2 deletions | Do the stamps of owners and workspaces, and the memberships, stay together where requests do not overtake one another? Do restores that work from stale reads bring back what is not theirs? |
| `account_purge` | 2 approval owners, 2 sessions, 2 requests, 2 holds, 5 generations | Do judgements under row locks hold until the commit, against what the rest of the program does to the target? Is one request open, a claim owned by one session and never replaced, and made by somebody other than the approver? |
| `staff` | an owner, an admin, one account from before or yet to be created, 1 workspace, 2 handlers | Is a manager left, does the founder stay, who lifts a removal, and what happens to an account whose roles differ? |
| `sign_in` | 3 accounts (local, to be created or seeded, Google), 3 names, 2 of them for each account to ask for, 2 workspaces, 2 handlers, 1 browser | Are reservations kept through interleaved checks and commits? Does a page keep to one workspace while memberships come and go between its queries, and the session to that of before? |
| `backups` | 2 workers, 2 contents of the database, 3 identifiers, 3 jobs, 2 seconds, crashes | Does a visit to the settings page repair the catalogue? Which restores can damage the database? |
| `bookings_serial` | 2 customers, 1 service, 2 appointments, 1 invoice, 1 telephone number, 1 address, 2 days, files of 2 rows, 1 handler | Does the web of refusals hold over any sequence of requests: no bookings of what is in the bin, contacts unique, slots doubled by a restore only? Do statistics, lists and dashboard agree? |
| `bookings_race` | 2 customers, 1 service, 1 appointment, 1 invoice, 1 telephone number, 2 handlers | Do references stay valid when checks are stale at the commit? Does the audit show what overlapping requests leave behind? |
| `import_overwrites` | 2 customers, files of 1 row, all three modes | the finding |

What each property says is stated above it in its module, with the code it is about.

**Why the bounds are enough.** Two handlers and two generations are what every race over an
authorization needs: one handler with the earlier generation, one with the present. A third
would repeat the role of one of them. Two deletions make one earlier request and one present
one; more only add earlier ones. Two rows are one ordinary row and the logo, which is the only
one treated apart. In the throttle, 8 instants hold two whole windows and a lock, and 7 wrong
answers are more than twice the limit, so the bound `2 * MaxFailed` can be reached and
crossed. For owners, a workspace with two owners, one with a single owner and a workspace not
founded yet are the cases `OnlyOwnedBy` and `NoMembership` tell apart; two deletions are one of
each co-owner, or one, a restore and another of the same owner. In the account purge a claim
that is revoked, reissued and claimed again ends at generation 5. Among bookings every check is about at most two rows of a table and one slot or one contact that they compete
for; the second day makes a slot that another appointment may move to, and one that is past.
Among staff a manager can be above, beside or below another, and the
third account is the one that is created, repaired, removed or promoted. Names are three, so
that a rename, a creation and a reservation can each want one that another holds or wants; which an account may ask for is a bound
(`Wants`), chosen so that any two of the ways meet at one name.
Three jobs of two workers are a scan, what disturbs it, and what the two leave for a later
visit. All bounds are
constants that the modules name (`Max...`); where all values matter, see the proofs.

**Symmetry** is used in runs without liveness: handlers, holds, sessions and approval owners
are interchangeable, owners in `PurgeWorkflow` only among those with a password; so are the
rows of one table, workers, and contents of the database.

**Fairness.** `FairSpec` assumes weak fairness of `Execute(w)`, the steps a handler owes once
it has claimed. Flask runs a handler synchronously from the claim to the response and no step
of it waits for another request except on row locks that short transactions hold. Nothing is
assumed about people: requests, approvals, restores and logouts may never come. Crashes are
excluded in `purge_resolves`, and so are failing follow-up transactions, which `Crash`
stands for: with them a claim really can stay (a hazard, listed without property).

## 4. What is proved

The theorems, and the lemmas they rest on, hold for all values of the constants that satisfy the
named assumptions: any sets of owners, handlers, workers, holds, rows, names or files, any
bounds, crashes or none.

| module | assumptions | theorem: property |
|---|---|---|
| `PurgeWorkflowProofs` | `PurgeConstants` | `TypeCorrect`: `TypeOK`; `DestroyedOnce`: `SingleDestruction`; `ApprovalStaysCurrent`: `ApprovalIsCurrent`; `PurgedStaysEmpty`: `PurgedWorkspaceEmpty`; `Refinement`: `KeepsPromise`; `RevocationIsFinal`: `RevokedNeverCompletes`; `OneClaimant`: `SingleClaimant`; `DecisionsStand`: `TerminalAbsorbing`; `UnknownStaysFrozen`: `OutcomeUnknownFreezes` |
| `AccountPurgeProofs` | `AccountConstants` | `TypeCorrect`: `TypeOK`; `OneRequest`: `OneOpenRequest`; `ExecutorDiffers`: `ExecutorIsAnother`; `ClaimOwned`: `ClaimIsOwned`; `JudgementsHold`: what a call judged holds until its commit; `ClaimStands`: `ClaimNotReplaced`; `ClaimEligible`: `ClaimOnEligible` |
| `ReauthThrottleProofs` | `ThrottleConstants` | `TypeCorrect`: `TypeOK`; `EveryAnswerCounted`: `WindowCounted`; `FewGuesses`: `GuessesBounded` |
| `OwnerLifecycleProofs` | `OwnerConstants` | `TypeCorrect`: its types; `PurgedStays`: `PurgedStaysDeleted`; `RestoresOwn`: `RestoresOwnDeletion`; `ProvenanceShared`: `SharedProvenance`; `LastOwnerTakes`: `LastOwnerTakesWorkspace`; `FoundsOnce`: `FoundedOnce` |
| `StaffProofs` | `StaffConstants` | `TypeCorrect`: its types; `FoundersStay`: `FounderStays`; `ManagerKept`: `LastManagerKept`; `MismatchStays`: `MismatchFreezes`; `RemovalStays`: `RemovalLifted` |
| `SignInProofs` | `SignInConstants` | `TypeCorrect`: `TypeOK`; `RequestsHold`: what a request in hand says; `ReservationsKept`: `ReservationsHold`; `OneWorkspaceKept`: `OneWorkspace`; `WorkspaceKept`: `WorkspaceSticks` |
| `BackupCatalogProofs` | `BackupConstants` | `WholeRestores`: `RestoresKeepWhole`; `SyncTellsTheTruth`: `SyncRepairs` |
| `BookingsProofs` | `RecordConstants`, `MarkConstants`, `CustomerConstants` | `TypeCorrect`: `TypeOK`; `RacesReported`: `RacesAreReported`; with `Serial`, `BinHasNoHistory`: `DeletedHasNoHistory`; `OneStory`: `FiguresAgree`; `SlotsByRestoreOnly`: `DoubleBookedByRestore`; and without overwriting imports, `ContactsAreUnique`: `ContactsUnique` |

The assumptions say that identifiers of different kinds differ, that marks such as `None`,
`Unused` or `Torn` are none of the values they are a mark beside, and that bounds are natural
numbers. Those that say more say it of the code: `ThrottleConstants` that the window is no
longer than the lock (10 and 15 minutes), `SignInConstants` and `StaffConstants` that the
accounts at the beginning have names of their own, or a role if they have a home. Four
theorems of `BookingsProofs` have hypotheses of their own. `Serial` (there is one handler, so
requests do not overlap) cannot be dropped: with two handlers the properties fail, as section
5 tells. Nor can `"overwrite" \notin ImportModes`: that is the finding.

### The arguments

**The workspace purge.** `SingleDestruction`, `ApprovalIsCurrent` and `PurgedWorkspaceEmpty`
are not inductive alone. `DestructionInv` joins them with `QuietRetention`: once the retention
of the present deletion is over no tenant handler is in flight. With it the rows cannot change
under an approved request, because an approval needs the retention over; hence the manifest is
all there is, and the purge that removes the manifest leaves nothing. `SingleDestruction`
needs `ApprovalIsCurrent` so that the request which completes is that of the present deletion,
and `ApprovalIsCurrent` needs `SingleDestruction` so that no restore or write comes after.

`AuthorizationInv` strengthens the two properties about claims with two that order
generations: a revoked generation is behind the row for good (`RevokedIsPast`), and a
generation a handler has claimed is behind the row or no longer active (`ClaimIsPast`). Hence
no second handler can claim it, and `mark_service_started`, which compares state, generation
and actor, refuses a revoked one. It uses `DestructionInv`: a completed request belongs to a
consumed authorization, which is not revoked afterwards.

The two properties about steps need little more than to know that a request which is frozen or
being worked on was made once (`FrozenWasMade`); without it the absence of a request would be
a status that the creation of one leaves.

`Refinement` goes group of actions by group of actions, as `Next` is built: each is shown to
take a step of `PurgePromise` or none, and `PromiseStutter` collects the steps that do not
touch what the abstraction sees.

**The account purge.** `LockInv` says that one call at a time holds a judgement (`OneTxn`), and
that what it judged is true still (`JudgementsStand`): each step that could change it asks for
one of the rows judged, and finds it locked (`AsksForRow`), but for the clock, which takes
nothing away that a commit needs. `ClaimNotReplaced` and `ClaimOnEligible` are about commits, whose guards
say nothing of the target or the authorization: they follow from this invariant, and fail when
the rows are read without locks (the mutants `LocksNothing` and `LocksRequests`).
`ClaimInv` adds to `ExecutorIsAnother` and `ClaimIsOwned` that there is
an authorization only after an approval, so that its holder was compared with an approver, and
that no session knows a generation the row has not reached. A reissue raises the generation,
so whoever still holds the former one is refused.

**The throttle.** `RowInv` ties the parts of the row to one another and to the history.
`GuessesBounded` is about any period as long as the window, but the row knows only the one it
is counting. `WindowInv` bounds the answers since the row began by its count, and
`PeriodInv` keeps, for each earlier answer, the bound up to the moment the row began anew: two
beginnings are at least a window apart, after a lock too (`Window <= Lockout`), so a period
contains at most one, with fewer answers than the limit before it and at most the limit from
it on.

**Owners and workspaces.** `StampInv`: the stamp on an owner, and the stamp a handler holds, is
one of a deletion of that owner. From it follow the two theorems that need no order of
requests. For the others `FreshInv` says what the history variables are for: what a handler
that was not overtaken has read is true still; `SharedProvenance` is then kept by a deletion
(it stamps workspaces of that owner) and by a restore (it takes all that carry the stamp).

**Staff.** `StaffInv` joins `FounderStays` with what every request in hand has checked of ranks
that no request changes (`RequestInv`), and with two facts of memberships: an inactive one
belongs to an account that is not approved, and a founder has no second workspace.
`FreshInv` does as for owners. `ManagerKept` rests on the actor of the commit: it has the pages
of its workspace still, and no request is about its own actor.

**Names and sessions.** The advisory locks show in `RequestInv`: names being created or
reserved are pairwise different, the name of a creation is not reserved, and that of a
reservation is its target's. `PageInv` relates a page to its session: while the session has a
workspace the page was told of no other, and once it has lost it no other follows, as only a
page that has asked for nothing yet may choose. Every step of a browser is a `BrowserChange`,
which keeps that; `WorkspaceKept` follows from the same steps.

**The backup catalogue.** `ShapeInv` gives the shape of a worker's job and keeps identifiers
among those drawn; `AloneInv` makes the history variable mean what it says. `SyncInv` follows
a synchronisation from its scan to the write: what it found is the truth of the folders, which
no other worker changes meanwhile. That the scan computes the truth (`ScanIsTruthful`) rests on
what is shown of the entries it adds, in whatever order, and of those it tests again.
`RestoreInv`: a restore that was tested and left alone copies a whole database.

**Business records.** First for any number of handlers: `PendingInv` says that what a handler
is about to send is a whole new row, or columns of a row of that table, and that no two
handlers insert one row. A commit overlays columns, and a row overlaid with columns of another
row of its table is a row of its table; the references come from either. Nothing refers to a
row that is erased, as the lock makes sure. `RacesReported` follows from the types alone, in
every state: where a report leaves something out a reference leads into the bin, and the audit
looks at every reference.

Then for requests that do not overlap: each operation is shown to have checked what
`InsertChecked` or `UpdateChecked` says of the rows it is about to write (`RequestChecked`, one
lemma for each group of operations), and `SerialInv` that this is so still at the commit,
because nothing else writes. So every step inserts checked rows, updates one, or erases one
(`SerialSteps`), and each property is shown for these three. The imports are proved for files
of any length: rows of a file are compared in pairs, not one after the other.

One proof attempt changed properties: without `FromElsewhere` and `ApartEverywhere`,
`LastManagerKept` and `MismatchFreezes` hold with one workspace only, the bound of the run
`staff`; TLC confirmed it with two (section 5).

### Only model-checked

`ClaimResolves`: liveness under fairness and `ENABLED` are beyond the prover. So is induction
over data, which no property here needs: sums are sets, and histories are compared by their
indices. That an import which overwrites breaks `ContactsUnique` is shown by its run.

## 5. Finding and observations

The run is one that TLC refutes by what the code does, against the text quoted in
`PROJECT.json`.

1. `ContactsUnique` (`import_overwrites`): a file imported to overwrite its duplicates inserts
   them as further customers, because the conflicts are looked up in the wrong record.

Further observations, without a run of their own:

Purges

* A late failing handler parks the claim that another handler holds by now:
  `mark_claim_unresolved` selects the row by its id and state, not by its generation
  (`services/purge_reauth_service.py:689`).
* A wrong password after a lapsed lock or window makes the workspace service expunge the
  throttle row twice (lines 400 or 412, then 447); the second raises, and neither the failure nor the reset is stored,
  where `docs/workspace/PERMANENT_PURGE_SERVICE_IMPLEMENTATION.md:174` promises that five
  failures persist.
* One approval owner can request, approve and execute a purge alone, although the documents
  of the purge speak of three different users.
* With two handlers `SharedProvenance` fails: of two overlapping deletions of one owner the
  second overwrites the owner's stamp and not the workspace's, and no restore finds the
  workspace again. `LastOwnerTakesWorkspace` fails: two overlapping deletions of the two
  owners of a workspace each rely on the other owner. `FoundedOnce` fails at `FoundInsert`.
* `account_purge_requests.executor_id` is never written, so the CHECK that keeps the actors
  apart does not see the executor.

Accounts

* Before a manager is demoted or deactivated the managers that are left are counted over all
  workspaces (`services/user_service.py:571`). Where an account is a manager of two, managers
  of one can therefore take the other's last manager away.
* Two managers who demote each other at the same time leave a workspace without one; an ADMIN
  can change the role of the OWNER's account, which then is out of everybody's reach but the
  portal's. Disabling and approving bring a removed member back.
* Renaming, seeding and the Google callback do not ask for reservations, and the callback does
  not catch the index's refusal: the loser of a race ends in error 500. A renamed default owner is seeded again at the next start.
* `session_revocation_version` is never incremented. Clearing a stale session leaves its
  workspace in the cookie. A page that asked for its workspace before its account was removed
  from it still reads and writes there: nothing looks again at the query or at the commit.

Business records and reports

* With two handlers the properties of `bookings_serial` fail: a customer is deleted while an
  appointment for it is on its way, two handlers book one slot, or create customers with one
  number. The figures then differ, and the audit warns of it; it does not look for slots booked
  twice, and it compares contacts across workspaces.
* An appointment doubled by a restore can be deleted, but not changed, not even to Cancelled:
  `update` wants its slot free whatever the new status. The same holds for one whose day
  is past, by the date check.
* `ReportService.get_revenue_report`, which nothing calls, counts deleted invoices. Rankings
  that are paged have no tie-breaker. Imports do not invalidate the dashboard cache.

Backups

* A restore that loses its file to a deletion between its test and its copy empties the live
  database: `sqlite3.connect` makes an empty file where there is none. The wizard and an
  uploaded restore do not test the file at all, and all uploads share `restore_temp.sqlite`.
* Uploads named `*.sqlite3` are not seen by the scan and marked File Missing. Entries of the
  legacy catalogue win over those of the present one, which alone is written: every scan
  writes, and what was deleted or tested comes back as it was.
* Two backups in one second share a file. A scan during an upload registers the temporary
  file. Notes and checksums save an entry as it was read, so a deleted one comes back. A
  restore clears the dashboard cache of one worker only.

## 6. Not modelled, and the plan

`PROJECT.json` gives the reason for each component left out. In short:

* **Presentation, formatting, wiring, tools**: templates, export, diagnostics, settings, the
  activity log, migrations, the application shell. They decide nothing that modelled state
  depends on.
* **The login rate limit** and **the dashboard cache** live in the memory of one worker, and
  no text says what should hold between two.
* **Amounts** are floating-point numbers, which TLC does not have; with them go revenue by
  period, the audit of totals and the data repair.
* **The order of row locks**: transactions of the two purges are atomic here, so a deadlock
  between them (a logout takes the authorization before the user, an execution the user before
  the authorization) is a hazard without a property.
* **The exchange with Google**, passwords and their change, and the lifetime of a cookie.

What is left: properties that need two requests of different components at once (a removal
by a manager against an account purge, a restore of the database against every handler), a
progress measure of the claim from which `ClaimResolves` would follow step by step, and the
lemmas about rows and columns of `BookingsProofs` as a module of their own once a second one
needs them.
