---------------------------- MODULE AuthzSnapshot ----------------------------
(***************************************************************************)
(* The permission snapshot of one external user, as the blank host keeps   *)
(* it: a row in PostgreSQL that pulls from EasyAuth overwrite, the catalog *)
(* floor row that webhooks raise, and, in every uvicorn process, a pull    *)
(* lock, a failure backoff, a cached floor and a background refresher.     *)
(*                                                                         *)
(* A pull is three steps of one thread - lock, HTTP fetch, write - and the *)
(* other threads, processes and webhooks run between them.  The row is     *)
(* shared by the processes; the locks are not.                             *)
(*                                                                         *)
(* Abstractions: one user and one app_key; a snapshot's grants are known   *)
(* by its grant_version, and snapshot_version is the pair of the two       *)
(* versions; time is the row's freshness class, which only Age moves.      *)
(***************************************************************************)
EXTENDS Naturals

CONSTANTS Proc,       \* uvicorn worker processes
          Slot,       \* request threads of each process
          MaxGrant,   \* bound on EasyAuth's grant_version
          MaxCatalog, \* bound on EasyAuth's catalog_version
          MaxCrash,   \* bound on process restarts
          AdminPulls, \* whether administrators use the unlocked refresh endpoint
          NoThread    \* value of a free pull lock

ASSUME BoundsAssumption ==
  /\ MaxGrant \in Nat \ {0}
  /\ MaxCatalog \in Nat \ {0}
  /\ MaxCrash \in Nat
  /\ AdminPulls \in BOOLEAN
  /\ NoThread \notin Proc \X Slot

VARIABLES
  remote,     \* EasyAuth: the user's grant_version and the app's catalog_version
  evCatalog,  \* catalog_version at the time of each grant_version
  row,        \* the platform_permission_snapshot row
  floor,      \* the easyauth_catalog_floor setting
  pullLock,   \* per process: holder of the user's pull lock
  backoff,    \* per process: the user is in _failed_pulls
  refresh,    \* per process: the user's key in the BackgroundRefresher
  op,         \* per thread: the operation it runs
  pc,         \* per thread: where the operation stands
  event,      \* per thread: the grant_version its webhook announced
  resp,       \* per thread: the EasyAuth response it holds
  acked,      \* history: highest grant_version of an event answered 200
  failed,     \* history: highest grant_version of an event that failed
  pulls,      \* history: per process, the pulls its requests began since the last occasion for one
  crashes     \* history: process restarts so far

store    == <<row, floor>>
process  == <<pullLock, backoff, refresh>>
thread   == <<op, pc, event, resp>>
history  == <<acked, failed>>
vars     == <<remote, evCatalog, store, process, thread, history, pulls, crashes>>

Thread  == Proc \X Slot
ProcOf(t) == t[1]

Grant   == 1 .. MaxGrant
Catalog == 1 .. MaxCatalog
Life    == {"none", "fresh", "near", "grace", "expired"}
Op      == {"none", "request", "login", "admin", "refresh", "grant"}
Pc      == {"idle", "acquire", "fetch", "commit", "failed", "invalidate"}

NoRow  == [grant |-> 0, catalog |-> 0, life |-> "none"]
NoResp == [grant |-> 0, catalog |-> 0]

TypeOK ==
  /\ remote \in [grant : Grant, catalog : Catalog]
  /\ evCatalog \in [Grant -> Catalog]
  /\ row \in [grant : 0 .. MaxGrant, catalog : 0 .. MaxCatalog, life : Life]
  /\ floor \in 0 .. MaxCatalog
  /\ pullLock \in [Proc -> Thread \cup {NoThread}]
  /\ backoff \in [Proc -> BOOLEAN]
  /\ refresh \in [Proc -> {"none", "queued", "running"}]
  /\ op \in [Thread -> Op]
  /\ pc \in [Thread -> Pc]
  /\ event \in [Thread -> 0 .. MaxGrant]
  /\ resp \in [Thread -> [grant : 0 .. MaxGrant, catalog : 0 .. MaxCatalog]]
  /\ acked \in 0 .. MaxGrant
  /\ failed \in 0 .. MaxGrant
  /\ pulls \in [Proc -> Nat]
  /\ crashes \in 0 .. MaxCrash

Init ==
  /\ remote = [grant |-> 1, catalog |-> 1]
  /\ evCatalog = [g \in Grant |-> 1]
  /\ row = NoRow
  /\ floor = 0
  /\ pullLock = [p \in Proc |-> NoThread]
  /\ backoff = [p \in Proc |-> FALSE]
  /\ refresh = [p \in Proc |-> "none"]
  /\ op = [t \in Thread |-> "none"]
  /\ pc = [t \in Thread |-> "idle"]
  /\ event = [t \in Thread |-> 0]
  /\ resp = [t \in Thread |-> NoResp]
  /\ acked = 0
  /\ failed = 0
  /\ pulls = [p \in Proc |-> 0]
  /\ crashes = 0

-----------------------------------------------------------------------------
(* Reading the row *)

Higher(a, b) == IF a > b THEN a ELSE b

\* classify_snapshot answers FRESH, NEAR_EXPIRY or STALE_GRACE.
Live(r) == r.life \in {"fresh", "near", "grace"}

\* What cached_catalog_floor may answer: the floor, or one it replaced within
\* the TTL of the process's _floor_box.
CachedFloor == 0 .. floor

\* _state_from_row and _can_serve: the grants of the row may be served.
Usable(f) == Live(row) /\ row.catalog >= f

\* _row_is_fresh: an unforced pull is not needed.
RowIsFresh(f) == row.life \in {"fresh", "near"} /\ row.catalog >= f

\* The stored snapshot_version is the one the event announced.
HoldsEvent(g) == row.life # "none" /\ row.grant = g /\ row.catalog = evCatalog[g]

\* Mutant: only the catalog version is compared.
NewerCatalog(new, old) == new.catalog >= old.catalog

\* _newer_or_equal_snapshot: an older response may not overwrite a newer row.
NewerOrEqual(new, old) ==
  \/ new.grant > old.grant
  \/ new.grant = old.grant /\ new.catalog >= old.catalog

-----------------------------------------------------------------------------
(* Thread bookkeeping *)

Goto(t, where) == pc' = [pc EXCEPT ![t] = where]

Begin(t, what, where, g) ==
  /\ op' = [op EXCEPT ![t] = what]
  /\ event' = [event EXCEPT ![t] = g]
  /\ Goto(t, where)
  /\ UNCHANGED resp

\* The operation of t is over: the lock is released (with _lock_for) and a
\* background job gives its key back (_on_done).
End(t) ==
  LET p == ProcOf(t) IN
  /\ op' = [op EXCEPT ![t] = "none"]
  /\ event' = [event EXCEPT ![t] = 0]
  /\ resp' = [resp EXCEPT ![t] = NoResp]
  /\ Goto(t, "idle")
  /\ pullLock' = [pullLock EXCEPT ![p] = IF @ = t THEN NoThread ELSE @]
  /\ refresh' = [refresh EXCEPT ![p] = IF op[t] = "refresh" THEN "none" ELSE @]

\* The webhook of t is answered 200.
Answer(t) == acked' = IF op[t] = "grant" THEN Higher(acked, event[t]) ELSE acked

-----------------------------------------------------------------------------
(* EasyAuth and the clock *)

\* EasyAuth changes the user's grants and will announce it.
RemoteGrant ==
  /\ remote.grant < MaxGrant
  /\ remote' = [remote EXCEPT !.grant = @ + 1]
  /\ evCatalog' = [evCatalog EXCEPT ![remote.grant + 1] = remote.catalog]
  /\ UNCHANGED <<store, process, thread, history, crashes>>

RemoteCatalog ==
  /\ remote.catalog < MaxCatalog
  /\ remote' = [remote EXCEPT !.catalog = @ + 1]
  /\ UNCHANGED <<evCatalog, store, process, thread, history, crashes>>

NextLife(life) ==
  CASE life = "fresh" -> "near" [] life = "near" -> "grace" [] life = "grace" -> "expired"

\* Time passes: the row moves to its next freshness class.
Age ==
  /\ Live(row)
  /\ row' = [row EXCEPT !.life = NextLife(@)]
  /\ UNCHANGED <<remote, evCatalog, floor, process, thread, history, crashes>>

\* 30 s after the last failed pull.
BackoffExpires(p) ==
  /\ backoff[p]
  /\ backoff' = [backoff EXCEPT ![p] = FALSE]
  /\ UNCHANGED <<remote, evCatalog, store, pullLock, refresh, thread, history, crashes>>

-----------------------------------------------------------------------------
(* Operations begin *)

\* A request is served from a row near its expiry or in grace and queues a
\* background refresh, unless the key is already in flight or backing off.
\* (A request served from a fresh row changes nothing.)
ServeAndRefresh(p) ==
  /\ \E f \in CachedFloor : Usable(f)
  /\ row.life \in {"near", "grace"}
  /\ ~backoff[p]
  /\ refresh[p] = "none"
  /\ refresh' = [refresh EXCEPT ![p] = "queued"]
  /\ UNCHANGED <<remote, evCatalog, store, pullLock, backoff, thread, history, crashes>>

\* ensure_account_snapshot(force=False), for a trusted principal or for a
\* request that found no usable row: it goes on to the lock unless the row is
\* fresh or the last pull has just failed.
StartRequest(t) ==
  /\ pc[t] = "idle"
  /\ \E f \in CachedFloor : ~RowIsFresh(f)
  /\ ~backoff[ProcOf(t)]
  /\ Begin(t, "request", "acquire", 0)
  /\ UNCHANGED <<remote, evCatalog, store, process, history, crashes>>

\* An OIDC login: ensure_account_snapshot(force=True).
StartLogin(t) ==
  /\ pc[t] = "idle"
  /\ Begin(t, "login", "acquire", 0)
  /\ UNCHANGED <<remote, evCatalog, store, process, history, crashes>>

\* The administrator's refresh endpoint: a pull without the lock.
StartAdmin(t) ==
  /\ AdminPulls
  /\ pc[t] = "idle"
  /\ Begin(t, "admin", "fetch", 0)
  /\ UNCHANGED <<remote, evCatalog, store, process, history, crashes>>

StartBackground(t) ==
  LET p == ProcOf(t) IN
  /\ refresh[p] = "queued"
  /\ pc[t] = "idle"
  /\ refresh' = [refresh EXCEPT ![p] = "running"]
  /\ Begin(t, "refresh", "acquire", 0)
  /\ UNCHANGED <<remote, evCatalog, store, pullLock, backoff, history, crashes>>

\* A grant.changed webhook: an event comes never, once or several times, in any
\* order, to any process.
DeliverGrant(t, g) ==
  /\ pc[t] = "idle"
  /\ g <= remote.grant
  /\ IF HoldsEvent(g)
       THEN /\ acked' = Higher(acked, g)
            /\ UNCHANGED <<thread, failed>>
       ELSE /\ Begin(t, "grant", "acquire", g)
            /\ UNCHANGED history
  /\ UNCHANGED <<remote, evCatalog, store, process, crashes>>

\* raise_catalog_floor, with the floor row locked: the announced version is
\* written unless the row holds it already, or a higher one.
Raises(c) == c > floor

\* A catalog.changed webhook: one transaction raises the floor and expires the
\* rows of the app; a version already announced changes nothing.
DeliverCatalog(c) ==
  /\ c <= remote.catalog
  /\ Raises(c)
  /\ floor' = c
  /\ row' = [row EXCEPT !.life = IF @ = "none" THEN @ ELSE "expired"]
  /\ UNCHANGED <<remote, evCatalog, process, thread, history, crashes>>

-----------------------------------------------------------------------------
(* A pull, step by step *)

\* Mutant: a request that has waited for the lock pulls without a second look.
PullsUnseen(t, f) ==
  \/ op[t] \in {"login", "request"}
  \/ op[t] = "refresh" /\ ~(Usable(f) /\ row.life = "fresh")
  \/ op[t] = "grant" /\ ~HoldsEvent(event[t])

\* What the operation finds in the row once it holds the lock calls for a pull.
PullNeeded(t, f) ==
  \/ op[t] = "login"
  \/ op[t] = "request" /\ ~RowIsFresh(f) /\ ~backoff[ProcOf(t)]
  \/ op[t] = "refresh" /\ ~(Usable(f) /\ row.life = "fresh")
  \/ op[t] = "grant" /\ ~HoldsEvent(event[t])

LockIsFree(t) ==
  /\ pc[t] = "acquire"
  /\ pullLock[ProcOf(t)] = NoThread

\* The thread takes the pull lock and reads the row again: _refresh_under_lock,
\* _still_needs_refresh, _refresh_grant_after_flight.
AcquireAndPull(t) ==
  /\ LockIsFree(t)
  /\ \E f \in CachedFloor : PullNeeded(t, f)
  /\ pullLock' = [pullLock EXCEPT ![ProcOf(t)] = t]
  /\ Goto(t, "fetch")
  /\ UNCHANGED <<remote, evCatalog, store, backoff, refresh, op, event, resp, history, crashes>>

AcquireAndEnd(t) ==
  /\ LockIsFree(t)
  /\ \E f \in CachedFloor : ~PullNeeded(t, f)
  /\ End(t)
  /\ Answer(t)
  /\ UNCHANGED <<remote, evCatalog, store, backoff, failed, crashes>>

\* EasyAuth answers with the state it has now; the answer travels back.
FetchOk(t) ==
  /\ pc[t] = "fetch"
  /\ resp' = [resp EXCEPT ![t] = [grant |-> remote.grant, catalog |-> remote.catalog]]
  /\ Goto(t, "commit")
  /\ UNCHANGED <<remote, evCatalog, store, process, op, event, history, crashes>>

Ensures(t) == op[t] \in {"request", "login", "refresh"}

\* Mutant: a failed pull does not only keep the last good row, it renews it.
PullFailsRenews(t) ==
  /\ IF op[t] = "grant"
       THEN /\ Goto(t, "failed")
            /\ UNCHANGED <<op, event, resp, process, row>>
       ELSE /\ backoff' = [backoff EXCEPT ![ProcOf(t)] = @ \/ Ensures(t)]
            /\ row' = [row EXCEPT !.life = IF Live(row) THEN "fresh" ELSE @]
            /\ End(t)
  /\ UNCHANGED <<remote, evCatalog, floor, history, crashes>>

\* The pull ends in an HTTPException.  ensure_account_snapshot remembers it and
\* keeps the last good row; the administrator gets the error; the webhook looks
\* at the row once more.
PullFails(t) ==
  /\ IF op[t] = "grant"
       THEN /\ Goto(t, "failed")
            /\ UNCHANGED <<op, event, resp, process>>
       ELSE /\ backoff' = [backoff EXCEPT ![ProcOf(t)] = @ \/ Ensures(t)]
            /\ End(t)
  /\ UNCHANGED <<remote, evCatalog, store, history, crashes>>

\* Refused, unreachable, timed out, or a response that is already expired.
FetchFails(t) ==
  /\ pc[t] = "fetch"
  /\ PullFails(t)

\* Mutant: the last writer wins.
StoredAlways(r, late) ==
  [grant |-> r.grant, catalog |-> r.catalog, life |-> IF late THEN "expired" ELSE "fresh"]

\* The upsert of _commit_snapshot_row, with the floor and the row locked.
\* fetched_at is the time of the write: the row is fresh, unless the response
\* expired on its way (late).
Stored(r, late) ==
  IF NewerOrEqual(r, row)
    THEN [grant |-> r.grant, catalog |-> r.catalog, life |-> IF late THEN "expired" ELSE "fresh"]
    ELSE row

\* Mutant: the floor is not read again under the lock.
CommitUnguarded(t) ==
  /\ pc[t] = "commit"
  /\ \E late \in BOOLEAN : row' = Stored(resp[t], late)
  /\ backoff' = [backoff EXCEPT ![ProcOf(t)] = @ /\ ~Ensures(t)]
  /\ End(t)
  /\ Answer(t)
  /\ UNCHANGED <<remote, evCatalog, floor, failed, crashes>>

\* The response is written and the operation has succeeded.
Commit(t) ==
  LET p == ProcOf(t) IN
  /\ pc[t] = "commit"
  /\ resp[t].catalog >= floor
  /\ \E late \in BOOLEAN : row' = Stored(resp[t], late)
  /\ backoff' = [backoff EXCEPT ![p] = @ /\ ~Ensures(t)]
  /\ End(t)
  /\ Answer(t)
  /\ UNCHANGED <<remote, evCatalog, floor, failed, crashes>>

\* The response is older than the announced catalog: 409.
CommitRejected(t) ==
  /\ pc[t] = "commit"
  /\ resp[t].catalog < floor
  /\ PullFails(t)

\* Mutant: the webhook keeps the lock until another process stores the version.
FailGrantWaits(t) ==
  /\ pc[t] = "failed"
  /\ IF HoldsEvent(event[t])
       THEN End(t) /\ Answer(t)
       ELSE UNCHANGED <<thread, pullLock, refresh, acked>>
  /\ UNCHANGED <<remote, evCatalog, store, backoff, failed, crashes>>

\* The webhook's pull failed: perhaps another process has stored the version.
FailGrant(t) ==
  /\ pc[t] = "failed"
  /\ IF HoldsEvent(event[t])
       THEN End(t) /\ Answer(t)
       ELSE /\ Goto(t, "invalidate")
            /\ UNCHANGED <<op, event, resp, pullLock, refresh, acked>>
  /\ UNCHANGED <<remote, evCatalog, store, backoff, failed, crashes>>

\* Mutant: the failed pull keeps the last good row, as a login does.
InvalidateKeepsRow(t) ==
  /\ pc[t] = "invalidate"
  /\ failed' = Higher(failed, event[t])
  /\ End(t)
  /\ UNCHANGED <<remote, evCatalog, store, backoff, acked, crashes>>

\* _invalidate_external_snapshot: expires_at = fetched_at, and the webhook is
\* answered with the error.
Invalidate(t) ==
  /\ pc[t] = "invalidate"
  /\ row' = [row EXCEPT !.life = IF @ = "none" THEN @ ELSE "expired"]
  /\ failed' = Higher(failed, event[t])
  /\ End(t)
  /\ UNCHANGED <<remote, evCatalog, floor, backoff, acked, crashes>>

\* A process dies and starts again: its threads and its memory are gone.
Crash(p) ==
  /\ crashes < MaxCrash
  /\ crashes' = crashes + 1
  /\ pullLock' = [pullLock EXCEPT ![p] = NoThread]
  /\ backoff' = [backoff EXCEPT ![p] = FALSE]
  /\ refresh' = [refresh EXCEPT ![p] = "none"]
  /\ op' = [t \in Thread |-> IF ProcOf(t) = p THEN "none" ELSE op[t]]
  /\ pc' = [t \in Thread |-> IF ProcOf(t) = p THEN "idle" ELSE pc[t]]
  /\ event' = [t \in Thread |-> IF ProcOf(t) = p THEN 0 ELSE event[t]]
  /\ resp' = [t \in Thread |-> IF ProcOf(t) = p THEN NoResp ELSE resp[t]]
  /\ UNCHANGED <<remote, evCatalog, store, history>>

-----------------------------------------------------------------------------
(* The pulls the requests of a process begin (history) *)

\* An answer that has expired on its way is stored: it served nobody.
StoresExpired(t) ==
  /\ Commit(t)
  /\ NewerOrEqual(resp[t], row)
  /\ row'.life = "expired"

\* What entitles the requests of p to one more pull: the row is no longer
\* fresh, the last answer was of no use, the backoff is over, p is new.
Occasion(p) ==
  \/ RowIsFresh(floor) /\ ~RowIsFresh(floor)'
  \/ \E t \in Thread : StoresExpired(t)
  \/ BackoffExpires(p)
  \/ Crash(p)

RequestPulls(p) == \E t \in Thread : ProcOf(t) = p /\ op[t] = "request" /\ AcquireAndPull(t)

CountPulls ==
  pulls' = [p \in Proc |-> IF Occasion(p) THEN 0
                           ELSE IF RequestPulls(p) THEN pulls[p] + 1 ELSE pulls[p]]

-----------------------------------------------------------------------------
Start(t) ==
  \/ StartRequest(t) \/ StartLogin(t) \/ StartAdmin(t) \/ StartBackground(t)
  \/ \E g \in Grant : DeliverGrant(t, g)

\* The steps a thread takes once its operation has begun.
Proceed(t) ==
  \/ AcquireAndPull(t) \/ AcquireAndEnd(t)
  \/ FetchOk(t) \/ FetchFails(t)
  \/ Commit(t) \/ CommitRejected(t)
  \/ FailGrant(t) \/ Invalidate(t)

\* What EasyAuth, the clock and the processes do between the steps of threads.
Around ==
  \/ RemoteGrant \/ RemoteCatalog \/ Age
  \/ \E c \in Catalog : DeliverCatalog(c)
  \/ \E p \in Proc : BackoffExpires(p) \/ ServeAndRefresh(p) \/ Crash(p)

Next ==
  /\ Around \/ \E t \in Thread : Start(t) \/ Proceed(t)
  /\ CountPulls

Spec == Init /\ [][Next]_vars

\* A thread that has begun goes on: an HTTP timeout bounds every pull, and so
\* the time the lock is held; a contended lock is granted in the end.  Time
\* passes.  EasyAuth may be down for ever, and no event need arrive.
Fairness ==
  /\ \A t \in Thread : SF_vars(Proceed(t) /\ CountPulls)
  /\ WF_vars(Age /\ CountPulls)

FairSpec == Spec /\ Fairness

-----------------------------------------------------------------------------
(* Safety *)

\* No grants below the announced catalog version can be served, in any process
\* and whatever floor it has cached: a live row is at the floor or above it.
\* (catalog.changed against the writes in flight.)
LiveRowMeetsFloor == Live(row) => row.catalog >= floor

\* A grant.changed event that was answered 200 is in the row, and stays there:
\* no pull that began before the event can undo it.
AckedGrantIsStored == acked <= row.grant

\* A grant.changed event whose pull failed has taken the old grants out of
\* service: only grants of that version or a later one are served again.
\* (_invalidate_external_snapshot and "the pull in flight before the event".)
FailedEventFailsClosed == Live(row) => row.grant >= failed

\* The row never goes back to an older (grant_version, catalog_version),
\* whichever of the concurrent pulls writes last.
NeverRegresses ==
  [][ \/ row'.grant > row.grant
      \/ row'.grant = row.grant /\ row'.catalog >= row.catalog ]_row

\* However many requests queue for a pull of the user, their process asks
\* EasyAuth once per occasion: a request that had to wait for a pull, whoever
\* made it and whether it succeeded or failed, does not pull again behind it.
\* (The second look of _refresh_under_lock at the row and the backoff.)
OnePullPerOccasion == \A p \in Proc : pulls[p] <= 1

(* Liveness *)

\* Grants that EasyAuth has replaced go out of service for good, even if every
\* event about them is lost, EasyAuth is down for ever and answers that were
\* under way arrive late: a failed pull keeps the last good row, but never
\* longer than its own lifetime and grace.
OldGrantsEnd ==
  \A g \in 2 .. MaxGrant : (remote.grant >= g) ~> [](Live(row) => row.grant >= g)

\* Every operation ends: none is left waiting for the pull lock.
OperationEnds == \A t \in Thread : (pc[t] # "idle") ~> (pc[t] = "idle")
==============================================================================
