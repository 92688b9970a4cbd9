# Streak backend: models, checks and proofs

Streak is a Django backend for courier businesses: orders come in through a
dashboard, a public site or GraphQL, dispatchers assign couriers, couriers move
the deliveries and report positions, notifications go out through Celery. This
directory holds TLA+ models of its core, TLC configurations that check them on
small instances, and proofs, checked by TLAPS, of the parts that matter most.

Three facts about the deployment shape everything below. The views run in
autocommit (`ATOMIC_REQUESTS` is not set): every statement outside an explicit
`transaction.atomic` is a commit of its own. And the database is PostgreSQL at
READ COMMITTED: a row that was read without `FOR UPDATE` may have changed when
it is saved. And migration 0002 enables and forces row-level policies on the
tables of the tenants (`README.md:100` of the repository), which bind every
database role but a superuser's and one with BYPASSRLS: which of the two the
deployment has, the repository does not say. Where it matters it is the constant
`PoliciesBind`. The Celery tasks and the sockets' consumers query without an
organization set, so that under a role that is bound a notification is never
found, no due delivery is ever seen and no socket is accepted: the liveness of
`Notifications` and `ScheduledRelease` is stated for an exempt role
(`~PoliciesBind`), and checked with one; under the other nothing is left of it, and
their safety properties are proved for both. `Tenancy` is about a role that is bound,
for which alone the setting of a connection matters. The tables of the clean-up
task (`refresh_tokens`, `impersonation_sessions`) are under no policy.

## Inventory

| Component | State | Operations | Interacts with |
|---|---|---|---|
| Delivery service (`services.py` 39-56, 164-317) | rows of `deliveries` and `couriers`, `delivery_events`, notifications | `create_delivery`, `assign_courier`, `transition_delivery` | called by REST and GraphQL; inserts notifications; broadcasts after commit |
| Courier tracking (`services.py` 320-375) | `location_updated_at`, `tracking_logs` | `record_tracking` | locks the courier row that `assign_courier` locks too |
| Dispatch API (`views.py` 422-470, 1135-1325, 1498-1559) | nothing of its own: copies of rows in the memory of a request | generic PATCH and DELETE, status action, login, profile, own transitions | reads and writes the rows of the service without a lock |
| Notifications (`services.py` 821-833, `tasks.py`) | `notifications`, `notification_attempts`, messages at the broker | callbacks on commit, `send_notification`, generic edits | Celery, Redis, providers |
| Scheduled release (`services.py` 565-598) | `metadata.scheduled_release_at` of a delivery | `release_scheduled_deliveries` | overlaps itself and every request on deliveries |
| Customers and order intake (`services.py` 91-161, `views.py` 935-978, 1098-1132, 1220-1249) | `customers`, `deliveries.customer_id` | `get_or_create_customer`, customer create, edit and delete, GraphQL `create_customer` | precedes `create_delivery` |
| Branches (`views.py` 1007-1075) | `branches` with one default | create, update, deactivate | scopes couriers, deliveries, customers |
| Login and lockout (`security.py` 56-107, 318-410, `views.py` 304-356, 560-620) | `login_security_states`, password and second factor of a user | login, set-up, confirmation, change of password | couriers' login sets their status |
| Sessions (`security.py` 228-252, `views.py` 623-698, `services.py` 601-615) | `refresh_tokens`, `impersonation_sessions` | issue, rotate, revoke, start, end, expire, clean up | a Celery task cleans up |
| Organizations, staff and roles (`views.py` 358-420, 723-790, 1078-1095, `roles.py`, `permissions.py`) | `organizations`, `organization_users`, roles with permissions | sign-up, settings, suspension, staff edits | decides who may send any other request |
| API keys (`views.py` 1618-1645, `security.py` 297-314) | `api_keys` | create, use, edit, revoke, delete | another way to authenticate |
| Courier chat and its sockets (`views.py` 1328-1478, `consumers.py`) | `courier_messages` with read marks, groups of the channel layer | send, list, mark read, edit, connect | broadcasts after each insert |
| Public site (`services.py` 628-740) | site, pages, blocks, service areas | get or create, update, delete | intake of orders |
| Uploads (`services.py` 741-788) | `uploads` | intent, completion | object store |
| Tenancy (`tenant.py`, `middleware.py`, `authentication.py`) | a setting and an attribute of each connection | set, enter, leave, clear | the row-level policies compare with it |
| Analytics (`services.py` 378-562) | snapshots | aggregate, heat map, nearest couriers | reads the rest |
| Domains, audit, observability, administration | append-only rows, counters | records | every request |

What is hard here, and where (the full list, with lines and the properties that
cover each, is `hazards` in `PROJECT.json`):

* transactions that lock rows in different orders, and decide on what they read
  under the lock;
* requests that read, decide and save without a lock, or save every column of an
  older copy;
* `create_delivery`, which commits in pieces and may stop between two of them;
* work that must follow a commit, a broker that hands a message out twice,
  retries after a rollback, workers that die;
* a periodic job that overlaps itself and reads at most so many rows;
* look-up-then-insert without a unique constraint;
* what is remembered outside the database (the tenant of a connection, the
  group of a socket) and must agree with it.

What makes each component right:

* service: stamps, status, timeline, notices and courier of a delivery agree
  with each other; an ended delivery stays as it ended; nobody else is offered it;
* locks: what a transaction decided on holds until it commits; every
  transaction ends; positions are throttled;
* API: an older copy breaks none of the above inside a row, a courier keeps the
  status "delivering" while the lock on it holds;
* notifications: no task before its commit, attempts numbered, sent stays sent,
  sent in the end;
* release: announced once, what is marked was announced unless a request supplied
  the mark, marked in the end;
* customers: a profile that was seen is used, an order's customer exists;
* branches: two are the default at once only if their creations overlapped (that
  the default is active is not promised: a create or PATCH may ask for an inactive
  one, and see Findings);
* login: failures are counted, a lock lasts, a second factor in force was
  confirmed, the password is the last one;
* sessions: a refresh token that was exchanged opens nothing, an expired session is closed;
* organizations: somebody can manage the staff, a suspension stands; a revoked key stays revoked;
* chat: what is marked read was returned to its reader or is lost in a way that is
  known, what is sent reaches an app that listens;
* public site: the areas are those of one update;
* tenancy: a connection works for the organization of its request and for nobody's after it.

## Modules

```
DeliveryStatus                     statuses, VALID_TRANSITIONS, stamps
  DeliveryService                  the three service calls, each call a step
    DeliveryServiceProofs
    DispatchApi                    requests that read before they write
      DispatchApiProofs            (also EXTENDS DeliveryServiceProofs)
    RowLocks                       the same calls, each statement a step
      RowLocksProofs               (also EXTENDS DeliveryServiceProofs)
DeliveryLifecycle                  what the service promises; abstract
Notifications                      NotificationsProofs
ScheduledRelease, Sessions         what the scheduler runs
  Scheduler                        both side by side; SchedulerProofs, MC_Jobs
Customers, Branches, PublicSite, Chat, Tenancy, LoginLock, SecondFactor,
Organizations, ApiKeys             what an organization and its people keep
  Workspace                        all nine side by side; MC_Workspace,
                                   WorkspaceProofs (the first four),
                                   AccountsProofs (the others)
Uploads
MC_*                               instances for TLC
```

**DeliveryService.** `delivery`, `courier` are the tables; `timeline[d]` is the
set of statuses of the delivery's events; `creation[d]` says how far the call of
`create_delivery` came; `outcomes[d]` counts the notifications
`delivery.delivered` and `delivery.failed`; `offered[d]` is the set of couriers a
notification `delivery.assigned` was created for. `InsertDelivery`,
`LogCreation` and `AnnounceCreation` are the commits of `create_delivery`.
`AssignCourier` and `TransitionDelivery` are one step each; `RowLocks` shows
that this is right. A refused call changes nothing and is no step. The stamps
`accepted_at`, `picked_up_at`, `completed_at`, `failed_at`, `cancelled_at` are a
set of statuses, since only whether they are null matters.
`active_delivery_count` is left out: only the order of `nearest_couriers` reads
it. `requested` is a status without any event of its own, approved by a
transition to `pending`.

**DeliveryLifecycle** is the abstract specification: a delivery is opened,
waits, is committed to, moves and ends in one way; it gets at most one carrier,
which it keeps; its outcome is told by the step that ends it. `DeliveryService`
implements it under the mapping `Phase`, `Carrier`, `Told`.

**RowLocks** splits the calls at their `SELECT ... FOR UPDATE` and their COMMIT.
A session holds its transaction, with the copy of the row that the lock
returned; writes become visible at the commit; a refusal (`DeliveryStateError`)
or a lost connection leaves. `record_tracking` holds the courier, and the
foreign key of its log waits for the delivery at the commit, while
`assign_courier` holds the delivery and waits for the courier: `BreakDeadlock`
is PostgreSQL aborting one. `located` and `logs` are `location_updated_at` and
the rows of `tracking_logs`. The generic requests of `DispatchApi` are not part
of this module: they do not lock, and may overwrite rows between its steps.

**DispatchApi** adds `request`: what each worker of the server has read and is
about to write. A generic PATCH is `BeginEdit...` (the row is read, the columns in
`Editable` get any value) and `Save...` (every column is written, or the row is
inserted again if it is gone). The status action is three steps: read the courier,
look for a delivery under way, save. `ServiceCall` lets the service go on in
between.

**Notifications.** `call[n]` is the service call that creates notification `n`,
up to its callbacks after the commit; `queue[n][k]` counts the messages with
retry number `k` at the broker; `task[w]` is what worker `w` runs. `LockRow` is
the `SELECT ... FOR UPDATE` of `send_notification`, `Succeed` and `DispatchFails`
the rest of it. A failure is written and then raised inside the same
`transaction.atomic`, so `DispatchFails` leaves the rows as they were. `Finds` is
what `get()` returns a row for; `RowNotFound` its exception, which is retried like
any other. `Post` inserts a row with whatever status the request says, since the
serializer leaves it writable, and enqueues nothing. Faults
(`crash`, `broker`, `commit`, `death`, `redelivery`) are enabled by name.

**ScheduledRelease.** `job[j]` is the list a run has read and not handled;
`row[d]` keeps the status (pending or not), the scheduled time and whether
`scheduled_release_at` is set, or its metadata are no object at all (`Marks`);
`ready[d]` counts the announcements. Metadata are writable in POST and PATCH, so
`Schedule` and `BeginEdit` may set the mark or take it off; `supplied` remembers the
deliveries whose mark a request has set. `Visible` is what the query of a run can
return; `Abort` is the exception of `get()`, at a row that was deleted or at metadata
that are no object (`Readable`), which ends the run.

**Customers.** `customer` and `order` are tables, `request` what a worker has
read; `origin` is history: which kind of request inserted a profile and which
profiles it saw when it looked. Emails are an address and a spelling, since the
lookups ignore case and the unique constraint does not. The update of name, zone
and branch of a profile that was found is reduced to its effect on the request
(it raises when the row is gone).

**Sessions.** `token` is the table of refresh tokens of one account; `rotation`
what each worker has read, since `CreateNext` and `Revoke` are two commits;
`answered` and `replays` are history. `support` is `impersonation_sessions`,
`closing` the requests that will save an end, `cleanup` the statement the task is
at. Tokens fork when two rotations read one before either revokes it, or when one
dies in between: the property says that nobody forks one whose exchange was
answered.

**Branches.** `branch` is the table, `request` the copy or the open transaction of
a worker. `Create` and `SaveUpdate` write one row in a transaction that stays
open; `StartClear` takes the snapshot of the UPDATE that clears the other defaults
and waits for rows that another transaction has changed (`BreakDeadlock` when both
wait); `Commit` ends it. `company[b]` remembers whose creation was open when `b`
was inserted: no UPDATE sees a row that is inserted meanwhile, so those, and only
those, may share the default.

**PublicSite.** `Get`, `GetPage`, `CreateBlocks` are the commits of a GET;
`BeginUpdate`, `SaveSite`, `DeleteAreas`, `Commit` the transaction of a PATCH,
which holds the lock of the site row from its save on.

**Chat.** One thread and one web socket, of the dispatcher or of the courier
(`listener`). `Insert` and `Broadcast` are two steps of a sender. A list of the
courier is read (`CourierList`), its unread messages are marked by an UPDATE that
commits (`MarkRead`), and then the marks are broadcast and the list is answered
(`Answer`); the broadcast may raise and the process die (`AnswerLost`). The
dispatcher's list has its response first and then looks for what is unread
(`DispatchList`, `DispatchUnread`). `Connect` is one statement
of `connect`, the groups first and then `accept` (`Connected`). `view` is what the
app knows from the list it made on this socket, `unsent` what no broadcast will tell,
`shown[side]` what lists returned to each side and `unseen` what was marked read by
one that did not return it.

**Tenancy.** `setting` is `app.current_org`, `attribute` what
`organization_context` restores it from, `scopes` the contexts and transactions
that a request is in. Authentication sets the one without the other, a rollback
takes the setting back and not the attribute, and statements fail in an aborted
transaction.

**LoginLock** has the row of `login_security_states` of one identity (`states`
is a sequence, since without an organization the unique constraint lets two rows
in); each login checks the lock, gets or creates the row, reads it and saves
what it computed. `streak` counts failures that met no other login. **SecondFactor** has
the row of one user, with the copies that requests made at authentication.

**Organizations.** A sign-up is checked, inserts the organization, roles, owner
and site inside a transaction (`Signing`) and commits; `Die` rolls it back. A
request of the staff is authenticated by who may manage it at that moment, then
reads and saves without a lock. `abandoned` remembers that the last manager went
in a way the views allow: by changing his own row, or through an actor who is no
manager.

**ApiKeys** has one key, the requests that use it and those that change
it.

**Uploads.** `database` tells the backends apart: on PostgreSQL the locking read
of `complete_upload` raises (`CompleteRaises`), on SQLite Django leaves the lock out.

## Runs

| Run | Instance | Shows |
|---|---|---|
| `service` | 2 deliveries, 2 couriers, 2 branches; symmetric | `TimelineTellsStatus`, `OneOutcomeNotice`, `OfferedToItsCourier`, `SameBranch`, `TerminalIsFinal`, refinement of the lifecycle |
| `row_locks` | 1 delivery, 2 couriers, 2 sessions, 2 clock values | `CopyIsCurrent`, `Throttled`, refinement of the service (`CallsAreAtomic`), `EveryCallEnds` |
| `api` | 1 delivery, 2 branches; either 2 workers, 2 edits and a deletion on 1 courier, or 1 worker besides the service with own transitions of 2 couriers, or with the status, login and profile of 1 | `StampsTellStatus`, `TimelineCoversRow`, `CourierExistsInBranch`, `OwnTransitionByHolder`, `StatusLockHeld` |
| `notify` | 2 notifications (one external), 2 workers; 2 faults of any kind and an edit, or an edit and a deletion, or as many failed commits as retries and a deletion; exempt role | `NoTaskBeforeCommit`, `AttemptsNumbered`, `SentIsRecorded`, `SentIsFinal`, `CommittedIsSent` |
| `jobs` | release: 2 deliveries, 2 runs, limit 1, 2 clock values, at most one edit, one deletion and 2 disturbances (edits, deletions, supplied marks, malformed metadata), exempt role; sessions: 3 tokens, 1 support session, 2 workers, 4 clock values | `ReadyOnce`, `ReleasedIsAnnounced`, `DueIsReleased`, `ReplayRefused`, `ExpiredIsClosed` |
| `workspace` | nine components, below | `SeenIsReused`, `AddressOnce`, `OneDefault`, `AreasOfOneUpdate`, `ReadWasShown`, `NothingMissed`, `IdleIsClean`, `MemberKeepsOrg`, `FailuresLock`, `LockEndsByTime`, `EnabledIsConfirmed`, `PasswordStands`, `StaffedUnlessAbandoned`, `SuspensionStands`, `RevokedIsRefused` |
| `notify_logged`, `api_locked`, `release_pending`, `customers_single`, `branch_default`, `uploads` | the least that shows it | violations, see Findings |

`jobs` and `workspace` check several components that share no rows: `Scheduler`
and `Workspace` instantiate them side by side and give their properties the names
under which they are checked and proved. The variable `part` of the instance, chosen in the initial state, says which of them moves; the
others keep their initial state. The reachable states are the sum, and not the
product, of those of the parts, and every property of a part is about its own
variables, so that it holds in the sum if and only if it holds in the part. The
parts of `workspace`, each with 2 workers: customers (2 profiles, 1 phone, 1
address in 2 spellings, an edit or a deletion), branches (3), public site (2
names, 3 updates, a deleted page), chat (2 messages, a page of 1, and one of: an
edit, a deletion, a death, a failed broadcast), tenancy (2 organizations, 3 contexts or transactions inside
each other), login lock (2 failures lock, 3 clock values, 5 logins), account (2
secrets, 2 passwords), staff (2 members, 2 edits, a death) and API key (2 edits).

`CHECK_DEADLOCK FALSE` is used throughout: all instances are finite, and each
ends when its rows are used up, its bounds reached or its requests refused.

Why the bounds are enough. Rows of different deliveries meet only in a courier, so
two deliveries and two couriers give every case of the service, and two branches
the least that can disagree; the proofs cover the rest. Conflicts are between two
transactions, two workers or two runs of a job: a third waits as the second does.
One delivery suffices where a race is about one row. `Editable` is empty in `api`:
an edit that sets status, courier or branch to any value may contradict every rule
by design, and what is asked there is whether saving an *older copy* may. Two
faults let a message be handed out twice and a commit fail after each; as many
failed commits as retries are the limit of `CommittedIsSent`. A delivery that its
courier has accepted never changes hands, so one courier is enough where the
courier's status is at stake. A limit of one row per run, with two deliveries, is
the least at which one delivery hides another from the release. Two profiles are
the least that can be duplicates. `Interval` and `MaxTime` are one clock tick
each: the throttle compares two times, and a tick is as long as the interval.
Three branches let a third take the mark of the default while two others contend
for it. A page of one message, of two, is the least that leaves a message out.
Three tokens let a token and its successor fork. Two failures, a lockout of one
tick and three clock values let a lock be set, run out and be set again beside an
older login. Two members are the least of whom one can remove the other.

Conditions inside properties. `TimelineCoversRow` stops at the first deletion,
since an edit in flight can bring a deleted delivery back without its events.
`OwnTransitionByHolder` excepts edits and deletions, which may take a delivery
from its courier at any time, and `StatusLockHeld` edits, which may make a courier
or a delivery what it was before. `AttemptsNumbered` and `SentIsRecorded` state the
exact count until the first generic edit, and what is left of it after; of a
deleted row that an edit puts back nothing is left, since its attempts are gone.
`SentIsRecorded` is about the notifications of the service: of one that was posted
the row says what the POST said. `ReleasedIsAnnounced` excepts marks that a POST or
PATCH supplied. `DueIsReleased` excepts a delivery that others crowd out of every
run's page (`Crowded`) or behind whose malformed predecessor every run ends
(`Obstructed`), and like `CommittedIsSent` it is checked for a role that the policies
do not bind. `ReadWasShown` counts, beside what lists returned, the answers on their
way, those that were lost after the mark was committed, and what reached the
dispatcher's unread query and not the response before it.
`SeenIsReused` and `AddressOnce` except profiles that were edited.
`PasswordStands`, `SuspensionStands` and `RevokedIsRefused` except the save of a
copy that is older than the change, `StaffedUnlessAbandoned` what the views let a
manager do to himself. `OneDefault` excepts creations that overlap. In each case
the instance has runs on both sides of the condition.

Every property of a passing run has a mutant in its module, named in a comment
there: a dropped guard, a missing lock, a lost reset, a swapped order; TLC finds
the property violated when the mutant takes the place of the definition.

## Fairness

* `RowLocks`: strong fairness of the next statement of each session. PostgreSQL
  queues the waiters of a row lock, so a statement that could have its lock
  again and again gets it; deadlock detection is a background timer, so weak fairness
  of `BreakDeadlock`. No request is ever forced to be made, no connection to be lost.
* `Notifications`: weak fairness of the enqueuing callback (the request's thread
  goes on) and of each worker's next step. Neither faults, edits nor changes of
  the configuration are fair. `CommittedIsSent` is checked with failed commits
  only: after a crash between commit and callback, or a refusal by the broker,
  nothing enqueues the row again, and the code promises nothing.
* `ScheduledRelease`: weak fairness of each run's next step, starting again included: the
  README of the repository has the task scheduled by Celery Beat.
* `Sessions`: weak fairness of the clean-up task, which the same README has
  scheduled; its deaths are not fair, and no request is forced to go on.
* The other modules have safety properties only and no fairness.

## Proofs

`DeliveryServiceProofs` proves, for every set of deliveries, couriers and
branches, that the tables keep their types (`TypeCorrect`), the inductive
invariant (`InvariantHolds`), and from it `StampsAlwaysTellStatus`,
`TimelineAlwaysTellsStatus`, `BranchesAlwaysAgree`, `OutcomeToldOnce`,
`OfferedToOneCourier`, `EndIsFinal` and `ServiceImplementsLifecycle`. The only
assumption is `ServiceAssumption`: NULL is no courier and no branch.

The invariant `Inv` is the conjunction of the five state properties with
`UncalledIsBlank`: without the last, `InsertDelivery` could overwrite a row that
others refer to. The five need each other: that one outcome is told once needs
that ended rows take no transition, the refinement needs `StampsTellStatus` and
`OfferedToItsCourier` for what the carrier is when it is bound again. One lemma
per action says that it keeps `Inv`; `StampsStayMatched` is the arithmetic-free
core, a case distinction over `VALID_TRANSITIONS`, listed once in
`TransitionsListed`. For the refinement one lemma per action maps the step to a
step of the lifecycle or a stutter.

`RowLocksProofs` proves, for any number of sessions, couriers and deliveries, any
targets and any interval, `CopiesStayCurrent`, `LocksMakeCallsAtomic` and
`ThrottleHolds`. `LockInv` adds to `CopyIsCurrent` that what a transaction checked
under its locks holds until it commits (`DecisionHolds`) and that the rows it
named exist (`NamedExist`): with both, a commit is the action of
`DeliveryService` and every other statement a stutter. `ThrottleInv` adds to
`Throttled` that `location_updated_at` is the time of the last log and that a
tracking transaction past its check is alone on its courier, so what it compared
is still true at its commit. Assumptions: `ServiceAssumption` and
`LockAssumption` (the interval is positive, the targets are statuses, NULL is no
delivery and no time).

`LocksImplementLifecycle` composes the two: statement by statement, the
transactions are a behaviour of `DeliveryLifecycle`.

`DispatchApiProofs` is about the service together with the requests of the views,
for any number of workers, edits and deletions and any mix of requests.

* `StampsAreLogged`, `StampsSurviveEdits`, `TimelineAlwaysCovers`. The invariant is
  about every *version* of a delivery, the row and the copies that edits in flight
  hold (`Versions`): each is consistent and within the timeline (`VersionsSound`), so
  saving any of them forgets what happened and makes nothing up. For the stamps,
  which are read-only in the serializer, this needs no hypothesis; for what relates
  them to the status it is `"status" \notin Editable`, an edit saves the status it has
  read. With the status in the body of the PATCH the row says what the body says.
* `CouriersExist`, `CouriersExistInBranch`. All versions of a courier are of one
  branch, also while he is deleted and an edit is about to insert him again, and every
  version of a delivery fits its courier's (`BranchesFit`). That the courier exists
  needs no hypothesis: the foreign key refuses the save of a copy that names one who
  is gone. That the branches agree needs edits that set neither the courier of a
  delivery nor the branch of either.
* `OwnTransitionsByHolder`. Who was found to hold a delivery holds it until an edit
  or a deletion (`HoldersKept`), since `CanAssign` takes it from nobody.
* `StatusLocksHold`. What was under way at the start of a status request leads on
  only (`GoesOn`), and nothing of it is under way with its courier once the request
  has passed its check (`LockKept`).
* `RequestsLeaveLifecycle`. Without edits and deletions every other request is a
  call of the service or writes the status of a courier only, so the lifecycle is
  still implemented. The premise is about the behaviour and not about a constant.

The other proofs are each one inductive invariant of a module, kept by one step
per action, for any number of workers and rows and whatever bound the runs set.

* `NotificationsProofs`: `TasksFollowCommits`, `AttemptsAreNumbered`,
  `SentOnRecord`, `SentStays`. `MessageInv` says that what is at the broker or
  with a worker belongs to a committed call; with it, `BlankBeforeCommit` makes
  the commit insert the row, and `LockedIsCurrent` (what a task computed under
  its lock fits the row, and no other task has the lock) makes the numbering go
  on. `CopyIsBehind` bounds what an edit in flight can bring back. Nothing here
  depends on `PoliciesBind`.
* `SchedulerProofs`: `AnnouncedOnce`, `MarkedIsAnnounced`. `Paid` counts
  every announcement against the mark on the row or against an edit that took a
  mark off; nothing about the runs is needed, since the locked row decides. That a
  mark was announced or supplied needs the same of the copy an edit in flight will
  save (`CopyIsAnnounced`).
  `NoReplayEver`: an exchanged token stays revoked or deleted
  (`AnsweredIsRevoked`), so no rotation in flight has read it later (`NoReplay`).
* `AccountsProofs`, the tenant: `ConnectionsAreClean`, `MembersKeepOrg`. The
  middleware's context is the outermost scope and restores no organization
  (`Outermost`); all scopes inside a member's view restore his (`MemberInside`),
  because nobody is authenticated whose organization is not the one of the headers.
* The staff: `AlwaysStaffed`, `SuspensionsStand`. One sign-up at most is open for a
  subdomain, and none beside an organization (`OneSignup`); members read the
  settings of active organizations only (`MembersReadActive`). The API key:
  `RevokedKeysAreRefused`, since a revoked key is active only through an edit that
  saved an older copy (`ActiveIsRestored`).
* The login: `FailuresAlwaysLock`, `LocksEndByTime`. A login that met no other is
  alone with its copy, which is the row (`Alone`, `AloneIsCurrent`), so the row counts
  at least the failures that followed each other (`StreakIsCounted`). The account:
  `FactorsAreConfirmed`, `PasswordsStand`; what an edit in flight may bring back was
  confirmed as well (`EditsAreConfirmed`).
* `WorkspaceProofs`, branches: `DefaultsMet`. A branch that an UPDATE which clears
  the other defaults does not see was inserted while that creation was open, or is no
  default (`UnseenMet`); of two such UPDATEs one waits for the other, unless their
  creations overlapped (`OneWaits`).
* Chat: `ReadIsShown`, `NothingIsMissed`. What a list will mark it returns or has put
  down as unseen (`MarksItsPage`), and the other side sent it (`MarksTheOthers`), so
  every mark is accounted for (`Accounted`): the message is in an answer that was given
  or is on its way, or is lost with one. An edit in flight never changes who sent a
  message, and what it brings back as read is accounted for too (`EditKeepsSender`).
  What the page of an app that listens leaves out, the socket has brought or will
  bring, no broadcast was sent for, or is older (`LiveCovers`). That the page has a
  newer message than one it leaves out needs the least of a set of numbers
  (`LeastNumber`), from the library's well-founded induction.
* Public site: `AreasAreOneList`. One update at a time has the lock of the site's row,
  and what it deletes are all the areas there are (`SiteInv`).
* Customers: `ProfilesAreReused`, `AddressesAreOnce`. What a request is about to insert
  is unlike every profile it saw (`Looked`), what it saw had been inserted before
  (`WasThere`), emails are unique as the constraint compares them (`UniqueEmails`), and
  the REST requests lower them first (`RestLowers`).

Assumptions on constants, besides those named above: `SchedulerAssumption` and
`WorkspaceAssumption` (keys that the code orders are numbers, page size and
threshold are positive, a thread has finitely many messages) and
`CustomersAssumption` (the stand-ins for a missing phone number or address are none).

Every state and action property that a passing run checks is stated by one of
these theorems. Model-checked only are the liveness properties (`EveryCallEnds`,
`CommittedIsSent`, `DueIsReleased`, `ExpiredIsClosed`): reasoning about fairness and
ENABLED is outside what the prover does. The properties of the runs that expect a
violation do not hold and have no theorem.

## Findings

* `notify_logged`: README.md:23 promises an attempt log; a failed dispatch is
  logged in the transaction that its exception rolls back (`tasks.py` 12-30), so
  only successes are on record, and a notification is never `failed`.
* `api_locked`: the status of a courier "is locked while an active delivery is in
  progress" (`views.py:1178`), but the check reads without a lock; a delivery
  accepted in between leaves its courier off delivering. `StatusLockHeld` is what
  does hold: a delivery that was under way at the start, and is still, keeps the lock.
* `release_pending`: a delivery assigned or cancelled between the query and the
  lock is announced as "ready for dispatch" (`services.py` 582-589): only the flag is read again.
* `customers_single`: "every order attaches to a single, deduplicated customer
  profile" (`views.py:1232`), but two overlapping orders find none and insert one
  each; phone numbers have no unique constraint. `SeenIsReused` is what does hold.
* `branch_default`: "the default branch cannot be deactivated" (`views.py:1071`),
  but `destroy` decides on a copy; a branch that becomes the default before the
  save is an inactive default. `OneDefault` is what does hold.
* `uploads`: completion "validates declared size/checksum, records object state"
  (`README.md:104`), but reads its row with `select_for_update` outside of a
  transaction (`services.py:772`), which Django refuses on PostgreSQL; on SQLite, where the tests
  run, the clause is left out.

Met while modelling, without a sentence of the repository that they contradict
in a run: PUT on a member of the staff has none of the checks of PATCH, so an
actor can suspend himself; a platform user's row in `login_security_states` can
be doubled, since the unique constraint does not bind a NULL organization; a
suspended organization is refused at login, but its tokens go on working; metadata
that are no object end every run of the release before the deliveries due later; a
dispatcher's list marks as read what came between its response and its query for
what is unread; read marks are committed before the answer, so that a failed broadcast
leaves messages read that nobody was given; and the tasks set no organization, so
that under a role that the policies bind `send_notification` finds no row on any retry
(`tasks.py` 12-13, `RowNotFound`) and the release run sees no delivery (`services.py`
568-576, `Visible`), which the tests, on SQLite, cannot show.

## Not modelled

* Analytics: snapshots, heat map and nearest couriers are computed from what
  others store and read by no decision.
* Custom domains: one `CustomDomain.objects.create` (`services.py` 618-625), verified by
  nothing yet.
* Audit log, metrics, health: append-only rows and counters that nothing reads back.
* Administration, seeding and settings: configuration and one-off scripts.

Of the modelled components: the wording of anything, hashes and the encoding of
tokens; the DELETE of an organization by platform staff; permissions other than
`manage_staff` and `manage_settings`, and that each view filters by organization
and branch (the models are of one organization and, but for `Organizations`, let
every request through, which adds behaviours and removes none); pings and payloads
of sockets; generic edits of site blocks; a PATCH that gives a chat message to
another courier (`courier` is writable in `CourierMessageSerializer`), whose thread the
message and its mark move to. Websocket broadcasts are best effort;
that they come after the commit, and are lost with the callback before them, is in
`Notifications`.

## Plan

Done: `DeliveryService`, `DeliveryLifecycle`, `RowLocks`, `DispatchApi`,
`Notifications`, `ScheduledRelease`, `Sessions`, `Customers`, `Branches`,
`PublicSite`, `Chat`, `Tenancy`, `LoginLock`, `SecondFactor`, `Organizations` and
`ApiKeys` with the proofs of their safety properties; `Uploads`, whose run expects a
violation.

1. An abstract mailbox that `Notifications` implements: each notification is
   sent once per message handed out; and its refinement proved.
2. Generic edits in `RowLocks`, to see what an older copy does to the throttle.
3. The courier's login beside an assignment as a property of its own.
