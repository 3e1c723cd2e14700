# A TLA+ model of EasyFrame

EasyFrame is a Python backend (`src/backend`) and a Next.js frontend
(`src/frontend`) for internal applications. `enterprise_platform` is a library of
components behind ports; `blank_app` is the host that implements the ports on
PostgreSQL. Accounts are local, or come from EasyAuth, an external service that
owns logins (OIDC), grants, the catalog of permissions, the directory and
notifications. The backend runs as several uvicorn processes (two by default)
with request threads in each: most of what can go wrong lies between two threads
of one process, or between two processes that share only the database.

This directory models the parts where state is shared, checks them with TLC on
small instances, and proves what matters most with TLAPS for all values of the
constants.

## Inventory

| Component | State | Operations | What makes it correct |
|---|---|---|---|
| Permission snapshots (`authz_snapshot.py`, `authz_hotpath.py`, `authz_catalog_floor.py`, `easyauth_event_routes.py`) | one row per external user, the catalog floor; per process a pull lock, a backoff, a queue of background refreshes | check of a request, login, background refresh, administrator's refresh, `grant.changed`, `catalog.changed` | grants older than an announced change are not served; nothing goes back; replaced grants run out; one pull serves all who wait |
| TTL cache (`ttl_cache.py`, `authz_cache.py`) | value, deadline, generation and flight of each box | load, invalidate; save of a setting | after an announced save no older value is stored; one loader at a time; no waiter is forgotten |
| Manifest push scheduler (`manifest_scheduler.py`) | running, a pending note, a deferred retry | schedule, worker, spawn, respawn, timer | one push at a time, no call is forgotten, retries end |
| Manifest push (`easyauth/manifest_sync.py`) | the row: digest and version accepted, or refused | skip or push, probe and step up after a conflict, write the outcome | the row is true of EasyAuth; a conflict is given up only for another's push |
| Notification outbox (`notification_outbox.py` and its port) | rows with status, attempts, lease, stamp | process a batch, reconcile a batch | status is true of the provider's message and only moves on; every row ends |
| Notification settings and dispatch (`notification_settings.py` and its adapter, `notification_dispatch.py`) | policy of a group, preferences of accounts, under row locks | patch a policy, patch a preference, plan a delivery | patches lose nothing; a plan is what was in force |
| Notification centre (`adapter_platform.py`, `notifications.py`) | notifications, a client's cursor | list by pages, mark read | a walk shows every notification once, in order |
| Local accounts (`local_accounts.py`, `adapter_account.py`) | account rows with flags, expiry, grants and their version | create, update, delete, set permissions | an administrator remains, delegates stay below, versions tell grants apart |
| Account security (`adapter_account.py`, `adapter_support.py`, `passkeys.py`, `auth.py`) | password, TOTP, passkeys, challenges, sessions, time of revocation | login, change, reset, begin, confirm, disable, register | TOTP that is on has its secret, challenges serve once, a factor in force is asked for |
| Login admission (`rate_limit.py`, `login_flow.py`) | failure windows, stripe locks | admit, check, record, clear | no failure beyond the limit, no deadlock of nested stripes |
| OIDC login (`oidc*.py`, `jwks.py`, `oidc_adapter.py`) | state cookies, cache of keys, the account | authorize, callback, silent check, back-channel logout | a login is refused for its state or its key only for a reason |
| Identities (`oidc_adapter.py`, `authz_api.py`) | accounts under two unique constraints | first login, first principal | one account per person; a name is refused only for a race or a clash of fallback names |
| Signed messages (`principal.py`, `webhook.py`) | none | verify a principal, verify a webhook | a kept message is of use for a bounded time |
| Settings of the upstreams (`adapter_platform.py`, `oidc_settings.py`) | a row per upstream with its secret | save, copy back | a secret stays with the address it was entered for |
| Directory sync (`easyauth/directory.py`, `directory_sync.py`) | external accounts | read the pages, project | all or nothing, of one snapshot |
| UI preferences (`adapter_preferences.py`) | JSON per account | merge a patch | concurrent patches lose nothing |
| Read cache of the frontend (`async-data-cache.ts`, `use-async-data.ts`, `platform-api.ts`) | cached answers, requests in flight, a slot per hook | load, invalidate, write through, change of person | no answer lands after what made it stale |
| Shell identity of the frontend (`identity-cache.ts`, `use-shell-identity.ts`, `use-account-preference.ts`) | the identity store, loads and saves under way | load, refresh, end of a session, save a preference | nobody sees another's shell; what is stored is shown |

The other components (authorization core, EasyAuth clients, HTTP assembly,
helpers, migrations, quality gates, pages) keep no state that several actors
share; `PROJECT.json` lists them with the reason.

How they meet: a request resolves its user from the session and, for an external
account, from the snapshot row and the floor, both read through TTL boxes of the
process. A row that is missing, old or below the floor is pulled from EasyAuth
under the pull lock of that process. EasyAuth's webhooks reach any process:
`grant.changed` forces a pull, `catalog.changed` raises the floor. Saving the
address of EasyAuth invalidates the boxes and schedules a manifest push. The
outbox is driven by the host and tells EasyAuth's notify service; its item is
known there by `dedup_key`. Administrators change local accounts in transactions
that only PostgreSQL's row locks keep apart; the owner's own changes of password,
TOTP and passkeys take no row lock, and pass the admission of logins instead. In
the browser, tabs share the token, and the pages of a tab share the read cache
and the identity store, which clears the cache when the person changes.

The hard behaviours, at their lines, are the hazards of `PROJECT.json`.

## Modules

| Module | Role |
|---|---|
| `AuthzSnapshot`, `MCAuthzSnapshot`, `AuthzSnapshotProofs` | permission snapshots |
| `TtlBox`, `MCTtlBox`, `TtlBoxProofs` | TTL cache and the saves that invalidate it |
| `ManifestScheduler`, `MCManifestScheduler`, `ManifestSchedulerProofs` | push scheduler |
| `OutboxPromise` | what the outbox promises: an abstract specification |
| `NotificationOutbox`, `MCNotificationOutbox`, `NotificationOutboxProofs` | the drivers, which implement it |
| `LocalAccounts`, `MCLocalAccounts`, `LocalAccountsProofs` | administration of local accounts |
| `LoginAdmission` | stripes and failure windows, extended by |
| `AccountSecurity`, `MCAccountSecurity`, `AccountSecurityProofs` | the credentials of an account |
| `ManifestSync` | one push of the manifest beside those of other processes |
| `OidcFlow` | logins by OpenID Connect |
| `Identities` | how a person of the upstream gets an account |
| `SignedMessages` | principals and webhook calls by their age |
| `NotificationSettings` | policies, preferences, plans |
| `NotificationCenter` | the list of notifications by pages |
| `PlatformSettings` | saves of the settings of an upstream |
| `DirectorySync` | read and projection of the directory |
| `MCFlows`, `FlowsProofs` | the last eight, from `ManifestSync` on, one beside the other |
| `ReadCache` | hooks, cache and transport of the frontend |
| `ShellIdentity` | whose shell a tab paints, with which preferences |
| `FrontendProofs` | what holds of these two |
| `MCPeople` | `LocalAccounts` and `ReadCache`, one beside the other |
| `MCSessions` | `AccountSecurity` and `ShellIdentity`, one beside the other |

An `MC` module only adds what TLC needs (symmetry, a constant function).
`MCFlows`, `MCPeople` and `MCSessions` check several components in one run: the variable
`part`, chosen in the first state, says which of them moves, and the others stay
in one of their first states. Their reachable states are the disjoint union of
those of the components, so that each property is checked of its component as if
it were alone; the components share no state in the code either, or what they
share is a choice of the module (the settings that a push reads, the eligibility
of an account). The

definitions named after a `Mutant:` comment are no part of a specification; each
is a plausible bug, put in the place of the definition that follows it to see
that a property notices.

### AuthzSnapshot

One user, one app key. A snapshot is known by `grant_version` and
`catalog_version`; `snapshot_version` is the pair. Time is the freshness class
of the row (`fresh`, `near`, `grace`, `expired`) and only `Age` moves it, at any
moment. A pull is three steps of a thread: the lock, the fetch, the write. Each
operation is a begin action and the steps of `Proceed`:

| Action | Code |
|---|---|
| `StartRequest`, `StartLogin` | `ensure_account_snapshot`, unforced and forced |
| `StartAdmin` | `refresh_account_snapshot` of the refresh endpoint, which takes no lock |
| `ServeAndRefresh`, `StartBackground` | serving a row near its end and the `BackgroundRefresher` |
| `DeliverGrant`, `FailGrant`, `Invalidate` | the `grant.changed` webhook, with its second look and its fail-closed write |
| `DeliverCatalog` | `catalog.changed`: floor and rows in one transaction |
| `AcquireAndPull`, `AcquireAndEnd` | the wait for the stripe lock and the second check under it |
| `FetchOk`, `FetchFails` | the HTTP request: what EasyAuth answers is what it knows when it answers |
| `Commit`, `CommitRejected` | `_commit_snapshot_row` with the floor read again under its row lock |
| `Crash` | a process restarts and forgets lock, backoff and threads |

`pulls` counts, per process, the pulls that requests have begun since there was
last a reason for one: `CountPulls`, a conjunct of every step, sets it back when a
fresh row ages or is overtaken by an event, an answer arrives expired, a backoff ends
or the process restarts. EasyAuth is external and truthful: what it answers is what it knows. Nothing in the repository
says that it sends an event again, so that it may send each once, often or never.

A process may decide with any earlier floor, since `_floor_box` may hold one
for ten seconds (`CachedFloor`); a lifetime that EasyAuth's answer has
outlived already on arrival is the choice `late`.

### TtlBox

`load()` is one action per critical section of `_lock` and per step outside it:
hit, lead, wait, the loader's read, the store by generation, the resolving of
the Future. The loader of a box may load another box first (`Inner`): the floor
box of `authz_cache.py` asks the easyauth box. A save is flush, commit, and an
invalidation of every box after each, as the ORM watcher and
`persist_easyauth_setting` do it; the row is locked between flush and commit.
A value is the version of the row it was computed from.

### ManifestScheduler

Every step is one critical section under `_guard`, or one call between two.
Callers, workers and timers are threads of one pool. The push ends in any way;
`Defer` is a retryable answer. The number of starts a `_spawn` loop attempts is
the constant `Attempts` (four in the code), so that small instances exhaust it.
`spent` remembers that a loop has used them up: the code then marks the
scheduler stopped whoever owns the flight, and what is promised of the flight is
promised until then.

### OutboxPromise and NotificationOutbox

`OutboxPromise` has only the status of the items and the provider's messages: an
item moves on, to what its message has reached. `NotificationOutbox` is the two
drivers, the port with its leases and fenced writes as the tests' in-memory
store has them (the repository has no other), and the provider, external, that
takes one message per `dedup_key`, delivers to recipients in any order and may
forget a message. `Promise == INSTANCE OutboxPromise` maps `status` and `msg` to
themselves; everything else is hidden. Delays are abstracted to "due again" and
"the lease is over", both at any time; the lease of a worker that still works on
the row ends early only as a counted fault.

### LocalAccounts

A transaction is: resolve the actor (`Request`), select the administrators
(`SelectAdmins`), lock them in the order of keys (`LockAdmin`), lock the target
and decide (`Create`, `Delete`, `Update`, `SetPermissions`), commit or roll
back. In READ COMMITTED the locking `SELECT` sees the rows of the moment it began, and skips
those that no longer match when their lock is granted; the count sees what
others have committed and its own write. Both are in the model as the database
does it. The operation is chosen when the locks are held; until then the code
does nothing that depends on it. An expiry is `never` or `set`: nothing in these
operations compares it with the time, except the count, whose treatment of an
administrator with an expiry is covered by `AdminIsClean`.

### LoginAdmission and AccountSecurity

`AccountSecurity` EXTENDS `LoginAdmission`: it owns the threads and calls the
operators of the admission (`Take`, `Admitted`, `Record`, `Clear`, `Release`) at the
steps where `login_flow.py` and `assembly/dependencies.py` do. A request of the
owner is: enter a stripe, read the row, verify (a step of its own: a hash, a code
or a signature takes long), write what differs from what was read, as the ORM
does (`Dirty`, `Written`), or commit a challenge (`Consume`). Administrators change the
row in one step under its lock. `sessions_revoked_at` is the set of sessions that
had started by then, so no clock is needed. Whether what a client presents is
right is chosen when it is verified. A second factor has a family of windows and
stripes of its own, taken inside the first.

### ManifestSync

Two processes, whose releases may differ while a deployment rolls out and may
change at a restart. `Begin`, `Load` (skip or choose a version), then each answer of
EasyAuth is an action: `Success`, `Retryable` (with or without an import that was
not heard of), `Unprocessable`, `Conflict` with its probe and its step up, and
`CommitSync`. EasyAuth is external: versions grow and are imported once.

### OidcFlow, Identities, SignedMessages

`OidcFlow` has a flow per state; each kind (interactive, silent) has one cookie in
the browser. `Callback` picks the cookie, checks it and deletes it with its answer;
then the exchange, the key (cached, fetched once more when it is missing; fetches
of several requests store in any order), the account, the id_token and the
session, each a step. `Identities` takes over the choice of a name and the insert of
the account, for the login and the trusted principal, statement by statement. The
fallback name, the shown name with eight characters of the subject, is any function of
the two (`WithSub`): persons may share it, and a local account may bear it.
`SignedMessages` has one message that anybody may keep: when was it accepted
first, and may it be accepted now? Its times are whole seconds; the code compares
fractions of the receiver's clock, which adds less than one to the bound.

### NotificationSettings, NotificationCenter, PlatformSettings, DirectorySync

`NotificationSettings` locks the policy, then the preference, as the adapter does,
and follows one plan, which reads the policy and the preferences in two statements. A
switch is a channel of a scene: the scene may not declare it (`Declared`), and `in_app`
requires an account (`InApp`, `Sends`). What a recipient should get is stated apart from
the code's order of precedence (`Wanted`), and a plan is held against that.
`NotificationCenter` inserts rows whose `created_at` is that of the beginning of a
transaction, so that they appear on either side of a cursor; a page is the first
rows below it, in order (`Pages`). `PlatformSettings` has a
save as a read with its decision and a write of the whole row; the authority of an
upstream is a value, and a secret is named by the authority it was entered for.
`DirectorySync` has one reader, which reads a page per step from a directory that may
keep its snapshot, move on, refuse or fall back, and that labels each page with the
snapshot it comes from: what EasyAuth says of its own pages is taken as true.

### ReadCache and ShellIdentity

`ReadCache` keeps of an answer how old it is against the events that make it stale:
a write, a change of person, and what the tab was told of them. Writes overlap: each
one's answer waits in `writes` until whoever wrote acts on it, by an `invalidate` or
a write-through, in any order, or never, and a person may change or the cache be
cleared in between. Hooks mount, change their key, are disabled, reload, and retire
what they wait for when they are told of an event; the transport merges equal GETs,
also those of other consumers (`Ask`). A render and its effects are one step. Reads
that nothing waits for any more, however many steps away, are left aside (`Tidy`).
`ShellIdentity` has a tab: a load asks `/auth/me` and `/auth/session`, its answers
land one by one or not at all, the effect's end cancels it, and the store is cleared
by the end of a session and by the storage event of another tab. A save of a
preference lands only in the session it was made in. A value of a preference is the
number of the change that made it.

## Runs

| Run | Instance | Shows |
|---|---|---|
| `MCAuthzSnapshot` | two processes, a thread each, two grant and catalog versions, administrator pulls | `LiveRowMeetsFloor`, `AckedGrantIsStored`, `NeverRegresses`: pulls that are answered in one order and written in another, without a common lock |
| `MCAuthzSnapshotOne` | one process, two threads, a restart | `FailedEventFailsClosed`, `OnePullPerOccasion`; `OldGrantsEnd`, `OperationEnds` under `FairSpec` |
| `MCAuthzSnapshotRevived` | two processes | **violated**: `FailedEventFailsClosed` |
| `MCTtlBox` | easyauth and floor box, two loaders, two saves | `CachedIsCurrent`, `SingleFlight`; `LoadEnds` under `FairSpec` |
| `MCManifestScheduler` | three threads, three calls, two attempts, three failures | `OneRunAtATime`, `NoteIsFound`; `CallIsServed`, `Quiesces` under `FairSpec` |
| `MCNotificationOutbox` | two rows for two recipients, two workers, two attempts, two faults; one row mismatched, one with a status the code does not know | `LocalIsTrue`, `AttemptsAreLeft`, and `Promised`: the refinement of `OutboxPromise` |
| `MCNotificationOutboxEnds` | two rows, one worker, claims of one, two attempts, two faults; the message of one row may have a status the code does not know | `Settled`, `Reconciled` under `FairSpec` |
| `MCPeople` | accounts: two transactions, two accounts, a permission of high risk and one of standard risk; reads: a hook, two paths, two reads, two writes to be answered | `LastAdminRemains`, `AdminIsClean`, `VersionTellsGrants`, `DelegateStaysBelow`; `OldNeverLands` |
| `MCLocalAccountsThree` | three transactions, three accounts | **violated**: `LastAdminRemains` |
| `MCSessions` | credentials: two threads of the owner and an administrator: password, TOTP, logout; one stripe, a limit of one failure; shell: two persons, a preference, two loads, two saves | `EnabledHasSecret`, `FailuresBounded`; `ShellIsTrue` |
| `MCAccountSecurityPasskeys` | two threads, a passkey, a challenge, an administrator that takes the account out of use | `ChallengeUsedOnce`, `FactorAsked`; `RequestEnds` under `FairSpec` |
| `MCFlows` | push: two processes of two releases, three versions; OIDC: two flows, two keys; settings: two threads, four switches (two `in_app` that patches touch, one declared of another channel, one undeclared); upstream: two administrators, two addresses; directory: three snapshots of two users, one restart; centre: five notifications of two times, pages of two; messages: times up to 8; identities: two processes, three persons of whom two share the eight characters, three names | `StoredWasImported`, `ConflictNeedsAnother`; `RefusalsAreJust`; `PatchesAreKept`, `PlanWasInForce`; `CredentialFits`; `ProjectionIsOneSnapshot`; `WalkIsExact`; `ReuseIsBounded`; `RefusalIsExplained` |

Type predicates (`TypeOK`, `SyncTypeOK`, ...) document the modules; they are proved,
alone or within the inductive invariants, and no run repeats them.

### What the violated runs show

1. *A failed event is revived.* A worker's pull begins, the user's grants change,
   the webhook reaches the other worker, its pull fails and it expires the row;
   the first pull's answer, from before the change, then has the version of
   the row, so it is written with a new lifetime. Locks are of one process; the
   documentation speaks of a lock in PostgreSQL.
2. *No administrator remains.* With a third administrator coming and going, two
   transactions lock disjoint sets of rows and each counts the other's.

### Behaviours met on the way

What follows the models can do, and the code with them; no property claims the
contrary, and the properties are worded, or the instances chosen, around it.

- `TtlBox`: a load of the floor joins a flight of the easyauth box that began
  before an invalidation, and stores its old answer under the new generation for a
  TTL. `CachedIsCurrent` is therefore about boxes that load the database.
- `ManifestScheduler`: after the last failed start, `_mark_stopped` clears a flight
  that another caller has begun meanwhile, and two pushes run at once. The
  invariants hold until a `_spawn` loop has used up its attempts (`spent`).
- `NotificationOutbox`: only the request is inside the `try`. A message with a status
  outside the map raises out of the round (`notification_outbox.py:397`) before its
  stamp advances. Its row comes first again once its lease is over, and the rows behind
  it may wait for ever, also with claims of one, where the docstring (lines 367-371)
  has the other rows go on. `Stuck` names such a row, and `Reconciled` promises
  nothing while there is one. A send that raises, that comes back without a
  `message_id` or whose worker dies is sent again without being counted:
  `AttemptsAreLeft` is about the retries that are counted.
- `AccountSecurity`: a password verified before an administrator's reset gets a
  session that starts after the revocation, or is written over by
  `change_password`: what was verified is not looked at again before the write.
- `ManifestSync`: processes of two releases overwrite each other's row, so that each
  restart pushes again; a refusal keeps the row as it was when its push began, which
  may be older than what another process has written.
- `PlatformSettings`: rows are written as a whole, so that of two crossing saves, or
  of a save and a copy-back, one is lost. Address and secret are lost together,
  which is why `CredentialFits` holds.
- `ReadCache`: a read that starts after an invalidation may be merged with a GET that
  another consumer (the shell's notifications, the same page remounted or back at
  its key) had sent before the write. It then paints and caches the old answer,
  where `async-data-cache.ts:88` and `docs/SHELL_READ_CACHE.md` expect that no
  answer from before an invalidation lands. Such answers are `stray`, and
  `OldNeverLands` exempts them.
- `ReadCache`: `replaceAsyncData` (`async-data-cache.ts:104-107`) writes with the
  generation of the moment, whenever the write is answered. An answer that comes after
  `clearAsyncDataCache` puts the data of the person before into the cache of the next,
  where line 76 says that the next person must never see them; and of two writes to
  one path whose answers cross, the older one is kept. These answers are `stray`, too.
  An older answer that is put in first is not: the later one is still to come. In the
  repository only tests call `replaceAsyncData`; the pages call `invalidateAsyncData`.
- `ShellIdentity`: an answer of a load that lands between the end of the session and
  the unmounting of the page is written back into the store, and whoever leaves the
  app by the address bar keeps it there. In both cases the next person to log in in
  that tab is painted the shell of the one before until `/auth/me` answers, where
  `identity-cache.ts:201` says that they must never see it (`residue` marks the
  two). A session that was read before a save and lands after it takes the saved
  preference back on the screen until the next load, and one that failed shows the
  defaults: hence `caughtUp`.
- `Identities`: a local account named like the fallback name of a person, or another
  subject with the same first eight characters, make the insert fail every time, with
  no race. `RefusalIsExplained` names this as the one other reason for a refusal.
- `SignedMessages`: each rule on times is harmless alone, but they add up: a principal
  may be used for `Lifetime + Skew - 1` seconds after its first use, a webhook call
  for twice its window.

### Bounds

Every bound is a constant: `Edit`, `MaxGrant`, `MaxCatalog`, `MaxCrash`, `MaxWrites`,
`MaxCalls`, `MaxFailures`, `MaxAttempts`, `MaxFaults`, `MaxVersion`, `Limit`,
`FailureLimit`, `MaxSnapshot`, `MaxRestarts`, `LastStamp`, `NoteCount`, `LastTime`,
`MaxPending`, `MaxChanges`, `MaxLoads`, `MaxSaves`.
Two processes or threads suffice for a race between a pull and an event, a load
and a save, a worker and the one that takes its lease, two patches, two pushes, two
logins; the third thread of the scheduler is its timer, the third transaction the
one that changes the set of administrators. Two versions are an old and a new one;
a third, an event between two, is covered by the proofs. Three versions of a
manifest are one for each release and one that a step up reaches. Two failures
exhaust two attempts of a `_spawn` loop, a third falls on another thread. Two
faults are one that takes a lease away and one that loses the answer of the other
worker. A limit of one failure makes the first of two overlapping logins use it up.
Three snapshots are one per page and one after a restart. Five notifications are
three pages of one account, with two rows of one time across a page's end and one of
another account. Two reads of a hook are the one that is told it is old and the one
that follows it; two writes (`Edit`), answered and told in any order, are two that cross; two loads and two saves of the shell likewise, of two persons. The
times of `SignedMessages` run past the sum of its bounds. Sessions and challenges are
used again once they have expired, so that one of each is no bound on their number.
The proofs do away with the bounds for the safety properties they cover.

Symmetry is used in runs without liveness, over workers, recipients, processes,
transactions, and in `MCFlows`, `MCPeople` and `MCSessions` over the actors and the
things of all components, which is sound as one component moves. Accounts of
`LocalAccounts` are not symmetric, since locks go by the order of keys.
`MCAuthzSnapshot` has a view that leaves out the history variable `failed`, which no
action's guard and no property of that run depends on.

### Fairness

- `AuthzSnapshot`: a thread that has begun goes on (every HTTP request has a
  timeout, so that the lock is released; a contended lock is granted in the end,
  hence strong fairness), and a row goes on ageing, as time does. Nothing is asked
  of EasyAuth: it may fail for ever and send no event, which is why `OldGrantsEnd`
  says that replaced grants go out of service and not that the new ones arrive.
  Nobody has to send a request.
- `TtlBox`: a load that has begun goes on; nobody has to load or save.
- `ManifestScheduler`: threads are scheduled, pushes end by their timeouts,
  timers fire. Nobody has to call, nothing has to fail.
- `NotificationOutbox`: the host calls both drivers again and again (a claim that
  is possible again and again is made: strong fairness, since a claim by the
  other driver takes the row away for a time), a round goes on, leases and delays
  end. The provider need not deliver, recipients need not move.
- `AccountSecurity`: a request that has begun goes on, and a stripe that becomes free
  again and again is granted (strong fairness of a thread's step). Nobody has to
  send a request.
- `LocalAccounts` and the components of `MCFlows` have no liveness: nothing obliges
  an operator, a person or an upstream.

Deadlock is checked for `AuthzSnapshot` and the components of `MCPeople` and
`MCSessions`. Elsewhere the system may rest: all saves made, all calls served,
all rows settled, all flows ended.

## Proofs

All theorems hold for any values of the constants that satisfy the named
assumptions of the modules (bounds are naturals, the special values are no
members of the sets they are told from). None needs finiteness but
`NotificationOutbox`, whose claims count rows.

- `AuthzSnapshotProofs`. `TypeCorrect`; then `RowInv`: the row is at the
  acknowledged version and, while live, at the floor, no webhook runs ahead of
  EasyAuth, and what a webhook has fetched is no older than its event. The last
  two are what makes the first two inductive: `Commit` compares versions, so that
  no write undoes an acknowledged version and the webhook's own write reaches it,
  and it reads the floor again under its lock. `RowNeverRegresses` follows from
  the types and `StoredNewer`, the lemma on the upsert. `RequestsPullOnce`, for any
  processes and pulls of administrators: `PullInv` says that whoever is past the lock
  holds it, and that once a request of a process has pulled, its pull is still under
  way under that lock, or has left a row or a backoff at which no request pulls.
  `FailedEventHolds` is proved for a single process without unlocked
  administrator pulls: `LockInv` adds that whoever is past the lock holds it and
  that an answer in flight is no older than any failed event, since no pull from
  before the event can still hold its answer when the event has failed.
  `MCAuthzSnapshotRevived` shows that the hypothesis is needed.
- `TtlBoxProofs`. `SingleFlightHolds` from the fact that a thread in a flight is
  the leader of the box. `CachedStaysCurrent` from `CurrentInv`: captured
  generations are of the past, and what a loader may still store is the current
  version, or the box has still to be told of a save, or a generation has passed
  since. It holds of all boxes that load the database, whether other boxes are
  computed from them or not; it does not hold of the values of those others (see above).
- `ManifestSchedulerProofs`. `TypeCorrect` includes that a thread about to start a
  worker has attempts left. `FlightInv`: at most one owner, `running` exactly
  while there is one, a note only while running, nobody about to mark the
  scheduler stopped. It is inductive until a loop has used up its
  attempts (`spent`), which is for ever; `SingleFlightHolds` and `NoteHasOwner`
  follow.
- `NotificationOutboxProofs`. `Inv` relates each worker's copies to the rows: who
  sends holds no stale number of attempts while the lease is its own, an answer
  it holds was true of the message, and messages only move on. From it
  `TypeCorrect`, `LocalIsTrueHolds`, `AttemptsAreLeftHolds`, and `PromiseKept`:
  every step of the drivers is a step of `OutboxPromise` or a stutter. The lemma
  on `Clamp` (an incoming status never takes a row back) carries `Apply`.
- `LocalAccountsProofs`. The invariant says that no row is locked by two
  transactions, and that a row a transaction has written is locked by it and right
  against the committed one: clean if it is an administrator's, its version counted
  if its grants changed, not above the delegate who asked. As locked rows do not
  change, what was decided when the draft was written still holds at the commit.
  One lemma says what each operation writes, one what a commit does to the others;
  from them `TypeCorrect`, `AdministratorsAreClean`, `VersionsTellGrants` and
  `DelegatesStayBelow`, for any number of operators, accounts and permissions.
  `LastAdminRemains` relates rows that different transactions lock, and fails with
  three of them. `TwoLeaveAnAdministrator` proves it for two at a time, on any
  accounts (`AtMostTwo` is its hypothesis, and that of the instance of `MCPeople`):
  `PairInv` adds that one of two transactions has locked, or has still to lock, every
  administrator there is (`OneCovers`, for the one that selected last), so that the
  row the other changes is no administrator's that was counted, and what was counted
  still stands at the commit (`CountsStand`).
- `AccountSecurityProofs`. One invariant for all the properties, as the requests
  pass through the same steps. `LocksInv`: who is past its admission holds the stripe
  of its subject, and the window under it has room for its failure until it is
  recorded or let go; from it `NoSubjectGuessesOn`. Conversely a stripe that is held is
  held by a request that works under it (`StripesKept`), so that a chain of waiting
  requests is at most two long: `NobodyWaitsInCircle`, the safety half of `RequestEnds`
  (no lock is lost, no circle of waits), for any threads and any sharing of stripes. `DisableKnows`: a request that
  disables TOTP has seen it on if it is on, as turning it on takes the stripe that
  the request holds, hence its UPDATE clears what it must, and `TotpHasItsSecret`
  follows although owner and administrator write without a common lock.
  `ChallengeInv`: a challenge that is still there was never used, and one that is in use
  is so by one request; `FactorInv`: what a login owes is in force, was so when it read
  the account, and is paid before its session. `ChallengesServeOnce` and `FactorsAreAsked` follow.
- `FlowsProofs`, a section for each component of `MCFlows`.
  `CredentialsFit`: what is in a row, and what a save is going to write, has a secret
  that was entered for its place. `PatchesKept`: who is past a lock holds it, and what
  it has read under it is the row; no preference is written while the group is
  managed. `PlansWereInForce` adds that what the plan would send if it looked for the
  preferences now was in force already (`PlanIsCovered`); the policy that it read may be
  gone by then; that `Effective`, in its order of precedence, is what is wanted is the
  lemma under it. `StoredIsImported` and `AloneIsSettled`: a version that a push is going
  to write was imported with its digest (`PushRecorded`), and alone a probe has found
  the last version, so that the step up is above it (`PushSettles`). `RefusalsJust`: the
  cookie of a flow that ran alone is there (`CookieIsThere`), and the key that is sought
  is published, or was withdrawn meanwhile (`KeyIsKnown`). `ProjectionsAreSnapshots`: the
  users read so far are the first pages of the snapshot that the first page named.
  `WalksAreExact`: what the walk was to show is shown or is still below the cursor
  (`NoneIsPassed`), for any order of insertion. `RefusalsExplained`: what a
  request has found out stays true while nobody passes it (`FoundIsTrue`), so that an
  insert that fails alone fails on a fallback name.
  `ReuseBounded`: two times at which a message is acceptable lie within its bound,
  whatever lifetime, skew and window.
- `FrontendProofs`. `ShellsAreTrue`: a load that may still be taken asks for the person
  of the token while the tab knows it, no save can be taken after a load that is calm,
  and what that load has read is what is stored. `OldStaysOut`: `ReadInv` says which GET
  a hook may take. The read in flight waits for the retired one of its key
  (`FlightFits`), and a GET that the hook itself has sent for what it shows is that of a
  read that matters (`Tracked`): it is the read in flight, or the retired one waits for
  it (`OwnGet`). So when an event retires a read, every older GET of the hook has landed
  before the next read is sent, which therefore joins somebody else's GET or sends
  one of its own (`RetiredFits`, `BeginFits`, `SettleFits`), for any number of reads under way
  and of writes to be answered. What a write-through brings is not old for the cache
  unless it is stray, which is exempt: of it the theorem says no more than that.

The inductive invariants were checked with TLC on instances of the runs before they
were proved. On the way three definitions were made fit to be reasoned about, and one
was wrong: `NotificationSettings.Effective` had a CASE with guards that overlap;
`NotificationCenter` sorted its page with TLC's `SortSeq`, which has no definition to prove from; `LoginAdmission` now
indexes its windows by a pair; and `ReadCache.Tidy` kept reads alive only one step along
the chain of what they wait for. The assumptions on constants are those that the code
gives: bounds and times are naturals, credentials are numbered (`ReadAssumption`), the
kinds of an administrator's change are the four the routes have (`SecurityAssumption`),
special values are told from the others.

Only model-checked:

- the liveness properties `OldGrantsEnd`, `OperationEnds`, `CallIsServed`, `Quiesces`,
  `LoadEnds`, `Settled`, `Reconciled` and `RequestEnds`, which are beyond this proof system;
- `FailedEventFailsClosed` with several processes and `LastAdminRemains` with three
  transactions do not hold: their theorems carry the hypothesis under which they do.

Every safety property of a passing run is a theorem.

## Not modelled, and the plan

Left out of the modelled components: the reset of the floor when EasyAuth's
address changes, users that share a stripe of the pull lock, the pool of the
refresher; the audit rows and listings of accounts; the eviction of a single key of
the full table of failures; the end_session redirect; the count of unread
notifications and the checks of the catalogue of notifications; general settings,
connection tests and the seeding; the notifications of the shell, locales and the
forced change of a password in the frontend.

Not modelled at all, since nothing in them lasts longer than a call or is shared:
the authorization core (pure decisions), the EasyAuth clients (one request each; the
modules take the classes of their answers), the HTTP assembly (routes that check and
call a port), helpers, migrations, the quality gates and the pages.

What is left, in the order of its weight:

1. `AuthzSnapshot` with a second authority, composed with `TtlBox` for the floor,
   in place of "any earlier floor".
2. `ManifestSync` composed with `ManifestScheduler`, which it now abstracts to one push
   at a time per process.
3. The shell's notifications beside `ReadCache`, as one of its consumers.
