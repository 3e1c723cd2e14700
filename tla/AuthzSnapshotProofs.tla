------------------------- MODULE AuthzSnapshotProofs -------------------------
(* Proofs about AuthzSnapshot, for any number of processes and threads. *)
EXTENDS AuthzSnapshot, TLAPS

-----------------------------------------------------------------------------
(* Type correctness *)

LEMMA LifeTyped ==
  ASSUME NEW life \in {"fresh", "near", "grace"}
  PROVE  NextLife(life) \in {"near", "grace", "expired"}
BY DEF NextLife

LEMMA ProcOfThread ==
  ASSUME NEW t \in Thread PROVE ProcOf(t) \in Proc
BY DEF Thread, ProcOf

LEMMA HigherTyped ==
  ASSUME NEW m \in Nat, NEW a \in 0 .. m, NEW b \in 0 .. m
  PROVE  Higher(a, b) \in 0 .. m /\ a <= Higher(a, b) /\ b <= Higher(a, b)
BY DEF Higher

\* What ends an operation keeps the types of the variables it writes.
LEMMA EndTyped ==
  ASSUME TypeOK, NEW t \in Thread, End(t)
  PROVE  /\ op' \in [Thread -> Op]
         /\ pc' \in [Thread -> Pc]
         /\ event' \in [Thread -> 0 .. MaxGrant]
         /\ resp' \in [Thread -> [grant : 0 .. MaxGrant, catalog : 0 .. MaxCatalog]]
         /\ pullLock' \in [Proc -> Thread \cup {NoThread}]
         /\ refresh' \in [Proc -> {"none", "queued", "running"}]
<1> DEFINE p == ProcOf(t)
<1>1. p \in Proc
  BY ProcOfThread
<1>2. op' \in [Thread -> Op] /\ pc' \in [Thread -> Pc] /\ event' \in [Thread -> 0 .. MaxGrant]
  BY BoundsAssumption DEF TypeOK, End, Goto, Op, Pc
<1>3. resp' \in [Thread -> [grant : 0 .. MaxGrant, catalog : 0 .. MaxCatalog]]
  BY BoundsAssumption DEF TypeOK, End, NoResp
<1>4. pullLock' \in [Proc -> Thread \cup {NoThread}]
  BY <1>1 DEF TypeOK, End
<1>5. refresh' \in [Proc -> {"none", "queued", "running"}]
  BY <1>1 DEF TypeOK, End
<1> QED BY <1>2, <1>3, <1>4, <1>5

LEMMA AnswerTyped ==
  ASSUME TypeOK, NEW t \in Thread, Answer(t)
  PROVE  acked' \in 0 .. MaxGrant
BY HigherTyped, BoundsAssumption DEF TypeOK, Answer

LEMMA InitTyped == Init => TypeOK
BY BoundsAssumption DEF Init, TypeOK, NoRow, NoResp, Grant, Catalog, Life, Op, Pc

LEMMA StepTyped == TypeOK /\ [Next]_vars => TypeOK'
<1> SUFFICES ASSUME TypeOK, [Next]_vars PROVE TypeOK'
  OBVIOUS
<1> USE BoundsAssumption DEF BoundsAssumption, store, process, thread, history
<1>0. pulls' \in [Proc -> Nat]
  BY DEF Next, CountPulls, vars, TypeOK
<1> USE <1>0
<1>1. CASE RemoteGrant
  <2>1. remote' \in [grant : Grant, catalog : Catalog]
    <3>1. remote.grant + 1 \in Grant
      BY <1>1 DEF RemoteGrant, TypeOK, Grant
    <3> QED BY <1>1, <3>1 DEF RemoteGrant, TypeOK
  <2>2. evCatalog' \in [Grant -> Catalog]
    BY <1>1 DEF RemoteGrant, TypeOK
  <2> QED BY <1>1, <2>1, <2>2 DEF RemoteGrant, TypeOK
<1>2. CASE RemoteCatalog
  BY <1>2 DEF RemoteCatalog, TypeOK, Catalog
<1>3. CASE Age
  <2>1. NextLife(row.life) \in Life
    BY <1>3, LifeTyped DEF Age, Live, Life
  <2>2. row' \in [grant : 0 .. MaxGrant, catalog : 0 .. MaxCatalog, life : Life]
    BY <1>3, <2>1 DEF Age, TypeOK
  <2> QED BY <1>3, <2>2 DEF Age, TypeOK
<1>4. ASSUME NEW c \in Catalog, DeliverCatalog(c) PROVE TypeOK'
  BY <1>4 DEF DeliverCatalog, Raises, TypeOK, Catalog, Life
<1>5. ASSUME NEW p \in Proc, BackoffExpires(p) PROVE TypeOK'
  BY <1>5 DEF BackoffExpires, TypeOK
<1>6. ASSUME NEW p \in Proc, ServeAndRefresh(p) PROVE TypeOK'
  BY <1>6 DEF ServeAndRefresh, TypeOK
<1>7. ASSUME NEW p \in Proc, Crash(p) PROVE TypeOK'
  BY <1>7 DEF Crash, TypeOK, NoResp, Op, Pc
<1>8. ASSUME NEW t \in Thread, Start(t) PROVE TypeOK'
  <2>1. CASE StartRequest(t)
    BY <2>1 DEF StartRequest, Begin, Goto, TypeOK, Op, Pc
  <2>2. CASE StartLogin(t)
    BY <2>2 DEF StartLogin, Begin, Goto, TypeOK, Op, Pc
  <2>3. CASE StartAdmin(t)
    BY <2>3 DEF StartAdmin, Begin, Goto, TypeOK, Op, Pc
  <2>4. CASE StartBackground(t)
    BY <2>4, ProcOfThread DEF StartBackground, Begin, Goto, TypeOK, Op, Pc
  <2>5. ASSUME NEW g \in Grant, DeliverGrant(t, g) PROVE TypeOK'
    <3>1. CASE HoldsEvent(g)
      <4>1. acked' \in 0 .. MaxGrant
        BY <2>5, <3>1, HigherTyped DEF DeliverGrant, TypeOK, Grant
      <4> QED BY <2>5, <3>1, <4>1 DEF DeliverGrant, TypeOK
    <3>2. CASE ~HoldsEvent(g)
      <4>1. Begin(t, "grant", "acquire", g)
        BY <2>5, <3>2 DEF DeliverGrant
      <4>2. event' \in [Thread -> 0 .. MaxGrant]
        BY <4>1 DEF Begin, TypeOK, Grant
      <4>3. op' \in [Thread -> Op] /\ pc' \in [Thread -> Pc]
        BY <4>1 DEF Begin, Goto, TypeOK, Op, Pc
      <4> QED BY <2>5, <3>2, <4>1, <4>2, <4>3 DEF DeliverGrant, Begin, TypeOK
    <3> QED BY <3>1, <3>2
  <2> QED BY <1>8, <2>1, <2>2, <2>3, <2>4, <2>5 DEF Start
<1>9. ASSUME NEW t \in Thread, Proceed(t) PROVE TypeOK'
  <2>1. CASE AcquireAndPull(t)
    BY <2>1 DEF AcquireAndPull, LockIsFree, Goto, TypeOK, Pc
  <2>2. CASE AcquireAndEnd(t)
    BY <2>2, EndTyped, AnswerTyped DEF AcquireAndEnd, TypeOK
  <2>3. CASE FetchOk(t)
    <3>1. resp' \in [Thread -> [grant : 0 .. MaxGrant, catalog : 0 .. MaxCatalog]]
      BY <2>3 DEF FetchOk, TypeOK, Grant, Catalog
    <3> QED BY <2>3, <3>1 DEF FetchOk, Goto, TypeOK, Pc
  <2>4. ASSUME PullFails(t) PROVE TypeOK'
    <3>1. CASE op[t] = "grant"
      BY <2>4, <3>1 DEF PullFails, Goto, TypeOK, Pc
    <3>2. CASE op[t] # "grant"
      BY <2>4, <3>2, EndTyped DEF PullFails, Ensures, TypeOK
    <3> QED BY <3>1, <3>2
  <2>5. CASE Commit(t)
    <3>1. row' \in [grant : 0 .. MaxGrant, catalog : 0 .. MaxCatalog, life : Life]
      BY <2>5 DEF Commit, Stored, TypeOK, Life
    <3> QED BY <2>5, <3>1, EndTyped, AnswerTyped DEF Commit, Ensures, TypeOK
  <2>6. CASE FailGrant(t)
    <3>1. CASE HoldsEvent(event[t])
      BY <2>6, <3>1, EndTyped, AnswerTyped DEF FailGrant, TypeOK
    <3>2. CASE ~HoldsEvent(event[t])
      BY <2>6, <3>2 DEF FailGrant, Goto, TypeOK, Pc
    <3> QED BY <3>1, <3>2
  <2>7. CASE Invalidate(t)
    <3>1. row' \in [grant : 0 .. MaxGrant, catalog : 0 .. MaxCatalog, life : Life]
      BY <2>7 DEF Invalidate, TypeOK, Life
    <3>2. failed' \in 0 .. MaxGrant
      BY <2>7, HigherTyped DEF Invalidate, TypeOK
    <3> QED BY <2>7, <3>1, <3>2, EndTyped DEF Invalidate, TypeOK
  <2> QED BY <1>9, <2>1, <2>2, <2>3, <2>4, <2>5, <2>6, <2>7
          DEF Proceed, FetchFails, CommitRejected
<1>10. CASE UNCHANGED vars
  BY <1>10 DEF vars, TypeOK
<1> QED BY <1>1, <1>2, <1>3, <1>4, <1>5, <1>6, <1>7, <1>8, <1>9, <1>10 DEF Next, Around

\* The variables keep their types, whatever threads and processes interleave.
THEOREM TypeCorrect == Spec => []TypeOK
BY InitTyped, StepTyped, PTL DEF Spec

-----------------------------------------------------------------------------
(* The row against webhooks and concurrent pulls, with any number of processes *)

\* No webhook runs ahead of EasyAuth.
EventsAreReal == \A t \in Thread : event[t] <= remote.grant

\* A webhook writes nothing older than the event it was called for.
ResponseCoversEvent ==
  \A t \in Thread : pc[t] = "commit" /\ op[t] = "grant" => resp[t].grant >= event[t]

\* The inductive invariant: the floor and the acknowledged events are in the
\* row, and what a webhook holds will keep it so.
RowInv ==
  /\ TypeOK
  /\ LiveRowMeetsFloor
  /\ AckedGrantIsStored
  /\ EventsAreReal
  /\ ResponseCoversEvent

LEMMA InitRowInv == Init => RowInv
BY InitTyped DEF Init, RowInv, LiveRowMeetsFloor, Live, AckedGrantIsStored, EventsAreReal,
   ResponseCoversEvent, NoRow

\* The upsert yields the response or a row that is newer.
LEMMA StoredNewer ==
  ASSUME TypeOK, NEW t \in Thread, NEW late \in BOOLEAN, row' = Stored(resp[t], late)
  PROVE  /\ row'.grant >= row.grant
         /\ row'.grant >= resp[t].grant
         /\ row'.grant = row.grant => row'.catalog >= row.catalog
         /\ row' = row \/ row'.catalog = resp[t].catalog
BY DEF TypeOK, Stored, NewerOrEqual

\* What an operation that ends leaves behind for the other threads.
LEMMA EndFrame ==
  ASSUME TypeOK, NEW t \in Thread, End(t), NEW u \in Thread
  PROVE  /\ event'[u] = IF u = t THEN 0 ELSE event[u]
         /\ pc'[u] = IF u = t THEN "idle" ELSE pc[u]
         /\ op'[u] = IF u = t THEN "none" ELSE op[u]
         /\ u # t => resp'[u] = resp[u]
BY DEF TypeOK, End, Goto

LEMMA StepRowInv == RowInv /\ [Next]_vars => RowInv'
<1> SUFFICES ASSUME RowInv, [Next]_vars PROVE RowInv'
  OBVIOUS
<1> USE DEF store, process, thread, history
<1>0. TypeOK /\ TypeOK'
  BY StepTyped DEF RowInv
<1>1. LiveRowMeetsFloor'
  <2>1. CASE Age
    BY <2>1, <1>0, LifeTyped DEF Age, RowInv, LiveRowMeetsFloor, Live, TypeOK
  <2>2. ASSUME NEW c \in Catalog, DeliverCatalog(c) PROVE LiveRowMeetsFloor'
    BY <2>2, <1>0 DEF DeliverCatalog, Raises, LiveRowMeetsFloor, Live, TypeOK
  <2>3. ASSUME NEW t \in Thread, Commit(t) PROVE LiveRowMeetsFloor'
    BY <2>3, <1>0, StoredNewer DEF Commit, RowInv, LiveRowMeetsFloor, Live
  <2>4. ASSUME NEW t \in Thread, Invalidate(t) PROVE LiveRowMeetsFloor'
    BY <2>4, <1>0 DEF Invalidate, LiveRowMeetsFloor, Live, TypeOK
  <2>5. CASE UNCHANGED <<row, floor>>
    BY <2>5 DEF RowInv, LiveRowMeetsFloor, Live
  <2> QED BY <2>1, <2>2, <2>3, <2>4, <2>5 DEF Next, Around, vars, RemoteGrant, RemoteCatalog,
            BackoffExpires, ServeAndRefresh, Crash, Start, StartRequest, StartLogin, StartAdmin,
            StartBackground, DeliverGrant, Proceed, AcquireAndPull, AcquireAndEnd, FetchOk,
            FetchFails, CommitRejected, PullFails, FailGrant
<1>2. EventsAreReal'
  <2>0. /\ remote.grant \in Nat /\ remote'.grant \in Nat
        /\ \A t \in Thread : event[t] \in Nat /\ event'[t] \in Nat
    BY <1>0, BoundsAssumption DEF BoundsAssumption, TypeOK, Grant
  <2>1. ASSUME NEW t \in Thread, End(t), UNCHANGED remote PROVE EventsAreReal'
    BY <2>0, <2>1, <1>0, EndFrame DEF RowInv, EventsAreReal
  <2>2. ASSUME NEW t \in Thread, NEW g \in 0 .. remote.grant, NEW what, NEW where,
               Begin(t, what, where, g), UNCHANGED remote
        PROVE  EventsAreReal'
    BY <2>2, <1>0 DEF RowInv, EventsAreReal, Begin, TypeOK
  <2>3. CASE UNCHANGED event /\ remote'.grant >= remote.grant
    BY <2>0, <2>3 DEF RowInv, EventsAreReal
  <2>4. ASSUME NEW p \in Proc, Crash(p) PROVE EventsAreReal'
    BY <2>4, <1>0 DEF Crash, RowInv, EventsAreReal, TypeOK, Grant
  <2>5. ASSUME NEW t \in Thread, Start(t) PROVE EventsAreReal'
    <3>1. 0 \in 0 .. remote.grant
      BY <2>0
    <3>2. ASSUME NEW g \in Grant, DeliverGrant(t, g) PROVE EventsAreReal'
      BY <3>2, <2>2, <2>3, <1>0, SMTT(30) DEF DeliverGrant, TypeOK, Grant
    <3> QED BY <2>5, <2>2, <3>1, <3>2
            DEF Start, StartRequest, StartLogin, StartAdmin, StartBackground
  <2>6. CASE RemoteGrant \/ RemoteCatalog
    BY <2>0, <2>6, <2>3, <1>0 DEF RemoteGrant, RemoteCatalog, TypeOK
  <2>7. remote.grant >= remote.grant
    BY <1>0 DEF TypeOK, Grant
  <2> QED BY <2>1, <2>3, <2>4, <2>5, <2>6, <2>7 DEF Next, Around, vars, Age, DeliverCatalog, Raises,
            BackoffExpires, ServeAndRefresh, Proceed, AcquireAndPull, AcquireAndEnd, FetchOk,
            FetchFails, Commit, CommitRejected, PullFails, FailGrant, Invalidate
<1>3. ResponseCoversEvent'
  <2>1. ASSUME NEW t \in Thread, End(t) PROVE ResponseCoversEvent'
    BY <2>1, <1>0, EndFrame DEF RowInv, ResponseCoversEvent
  <2>2. ASSUME NEW t \in Thread, NEW what, NEW where, NEW g, where # "commit",
               Begin(t, what, where, g)
        PROVE  ResponseCoversEvent'
    BY <2>2, <1>0 DEF RowInv, ResponseCoversEvent, Begin, Goto, TypeOK
  <2>3. ASSUME NEW t \in Thread, NEW where, where # "commit", Goto(t, where),
               UNCHANGED <<op, event, resp>>
        PROVE  ResponseCoversEvent'
    BY <2>3, <1>0 DEF RowInv, ResponseCoversEvent, Goto, TypeOK
  <2>4. ASSUME NEW t \in Thread, FetchOk(t) PROVE ResponseCoversEvent'
    BY <2>4, <1>0 DEF FetchOk, RowInv, ResponseCoversEvent, EventsAreReal, Goto, TypeOK, Grant
  <2>5. CASE UNCHANGED <<op, pc, event, resp>>
    BY <2>5 DEF RowInv, ResponseCoversEvent
  <2>6. ASSUME NEW p \in Proc, Crash(p) PROVE ResponseCoversEvent'
    BY <2>6, <1>0 DEF Crash, RowInv, ResponseCoversEvent, TypeOK
  <2>7. ASSUME NEW t \in Thread, Start(t) PROVE ResponseCoversEvent'
    BY <2>7, <2>2, <2>5 DEF Start, StartRequest, StartLogin, StartAdmin, StartBackground, DeliverGrant
  <2>8. ASSUME NEW t \in Thread, Proceed(t) PROVE ResponseCoversEvent'
    BY <2>8, <2>1, <2>3, <2>4 DEF Proceed, AcquireAndPull, AcquireAndEnd, FetchFails, Commit,
       CommitRejected, PullFails, FailGrant, Invalidate
  <2> QED BY <2>5, <2>6, <2>7, <2>8 DEF Next, Around, vars, RemoteGrant, RemoteCatalog, Age,
            DeliverCatalog, Raises, BackoffExpires, ServeAndRefresh
<1>4. AckedGrantIsStored'
  <2>1. ASSUME row'.grant = row.grant, UNCHANGED acked PROVE AckedGrantIsStored'
    BY <2>1 DEF RowInv, AckedGrantIsStored
  <2>2. ASSUME NEW t \in Thread, Answer(t), row'.grant >= row.grant,
               op[t] = "grant" => event[t] <= row'.grant
        PROVE  AckedGrantIsStored'
    BY <2>2, <1>0 DEF RowInv, AckedGrantIsStored, Answer, Higher, TypeOK
  <2>3. ASSUME NEW t \in Thread, Commit(t) PROVE AckedGrantIsStored'
    BY <2>3, <2>2, <1>0, StoredNewer DEF Commit, RowInv, ResponseCoversEvent, TypeOK
  <2>4. ASSUME NEW t \in Thread, AcquireAndEnd(t) PROVE AckedGrantIsStored'
    BY <2>4, <2>2, <1>0 DEF AcquireAndEnd, PullNeeded, HoldsEvent, TypeOK
  <2>5. ASSUME NEW t \in Thread, FailGrant(t) PROVE AckedGrantIsStored'
    <3>0. row' = row
      BY <2>5 DEF FailGrant
    <3>1. CASE HoldsEvent(event[t])
      <4>1. row.grant = event[t] /\ row.grant \in Nat
        BY <3>1, <1>0, BoundsAssumption DEF BoundsAssumption, HoldsEvent, TypeOK
      <4>2. Answer(t)
        BY <2>5, <3>1 DEF FailGrant
      <4> QED BY <3>0, <4>1, <4>2, <2>2
    <3>2. CASE ~HoldsEvent(event[t])
      BY <2>5, <3>0, <3>2, <2>1 DEF FailGrant
    <3> QED BY <3>1, <3>2
  <2>6. ASSUME NEW t \in Thread, NEW g \in Grant, DeliverGrant(t, g) PROVE AckedGrantIsStored'
    BY <2>6, <2>1, <1>0 DEF DeliverGrant, HoldsEvent, Higher, RowInv, AckedGrantIsStored, TypeOK, Grant
  <2>7. CASE Age \/ \E t \in Thread : Invalidate(t)
    BY <2>7, <2>1, <1>0 DEF Age, Invalidate, TypeOK
  <2>8. ASSUME NEW c \in Catalog, DeliverCatalog(c) PROVE AckedGrantIsStored'
    BY <2>8, <2>1, <1>0 DEF DeliverCatalog, Raises, TypeOK
  <2> QED BY <2>1, <2>3, <2>4, <2>5, <2>6, <2>7, <2>8 DEF Next, Around, vars, RemoteGrant, RemoteCatalog,
            BackoffExpires, ServeAndRefresh, Crash, Start, StartRequest, StartLogin, StartAdmin,
            StartBackground, Proceed, AcquireAndPull, FetchOk, FetchFails, CommitRejected, PullFails
<1> QED BY <1>0, <1>1, <1>2, <1>3, <1>4 DEF RowInv

\* RowInv is an invariant of every instance of the specification.
THEOREM RowInvariant == Spec => []RowInv
BY InitRowInv, StepRowInv, PTL DEF Spec

\* catalog.changed against the writes in flight: no live row is below the floor.
THEOREM FloorRespected == Spec => []LiveRowMeetsFloor
BY RowInvariant, PTL DEF RowInv

\* grant.changed answered 200: the event's grants are in the row for good.
THEOREM AcknowledgedStays == Spec => []AckedGrantIsStored
BY RowInvariant, PTL DEF RowInv

\* No step takes the row back to an older (grant_version, catalog_version).
THEOREM RowNeverRegresses == Spec => NeverRegresses
<1> DEFINE A == \/ row'.grant > row.grant
                \/ row'.grant = row.grant /\ row'.catalog >= row.catalog
<1>1. TypeOK /\ [Next]_vars => [A]_row
  <2> SUFFICES ASSUME TypeOK, [Next]_vars, row' # row PROVE A
    OBVIOUS
  <2> USE DEF store
  <2>1. ASSUME row'.grant = row.grant, row'.catalog = row.catalog PROVE A
    BY <2>1 DEF TypeOK
  <2>2. ASSUME NEW t \in Thread, Commit(t) PROVE A
    <3>1. row.grant \in Nat /\ row'.grant \in Nat
      BY StepTyped, BoundsAssumption DEF BoundsAssumption, TypeOK
    <3>2. /\ row'.grant >= row.grant
          /\ row'.grant = row.grant => row'.catalog >= row.catalog
      BY <2>2, StoredNewer DEF Commit
    <3> QED BY <3>1, <3>2
  <2>3. CASE Age \/ (\E c \in Catalog : DeliverCatalog(c)) \/ \E t \in Thread : Invalidate(t)
    BY <2>1, <2>3 DEF Age, DeliverCatalog, Raises, Invalidate, TypeOK
  <2> QED BY <2>2, <2>3 DEF Next, Around, vars, RemoteGrant, RemoteCatalog, BackoffExpires,
            ServeAndRefresh, Crash, Start, StartRequest, StartLogin, StartAdmin, StartBackground,
            DeliverGrant, Proceed, AcquireAndPull, AcquireAndEnd, FetchOk, FetchFails,
            CommitRejected, PullFails, FailGrant
<1> QED BY <1>1, TypeCorrect, PTL DEF Spec, NeverRegresses

-----------------------------------------------------------------------------
(* What the pull lock gives: within one process, and without the unlocked      *)
(* refresh endpoint, no pull outlives a failed event.                          *)

Pulling == {"fetch", "commit", "failed", "invalidate"}

\* Whoever is past the lock holds it; only administrators pull without it.
LockHeld ==
  \A t \in Thread :
    /\ pc[t] \in Pulling => pullLock[ProcOf(t)] = t \/ op[t] = "admin"
    /\ op[t] = "admin" => AdminPulls

\* A response in flight is at least as new as every event that failed.
ResponseAfterFailure == \A t \in Thread : pc[t] = "commit" => resp[t].grant >= failed

LockInv ==
  /\ RowInv
  /\ LockHeld
  /\ failed <= remote.grant
  /\ ResponseAfterFailure
  /\ FailedEventFailsClosed

LEMMA InitLockInv == Init => LockInv
<1> SUFFICES ASSUME Init PROVE LockInv
  OBVIOUS
<1>1. LockHeld /\ ResponseAfterFailure /\ FailedEventFailsClosed
  BY DEF Init, LockHeld, Pulling, ResponseAfterFailure, FailedEventFailsClosed, Live, NoRow
<1>2. failed <= remote.grant
  BY DEF Init
<1> QED BY InitRowInv, <1>1, <1>2 DEF LockInv

\* The lock is taken by the thread that pulls, and only it lets go.
LEMMA StepLockHeld == TypeOK /\ LockHeld /\ [Next]_vars => LockHeld'
<1> SUFFICES ASSUME TypeOK, LockHeld, [Next]_vars, NEW u \in Thread
             PROVE  /\ pc'[u] \in Pulling => pullLock'[ProcOf(u)] = u \/ op'[u] = "admin"
                    /\ op'[u] = "admin" => AdminPulls
  BY DEF LockHeld
<1> DEFINE G == /\ pc'[u] \in Pulling => pullLock'[ProcOf(u)] = u \/ op'[u] = "admin"
                /\ op'[u] = "admin" => AdminPulls
<1> USE DEF process, thread, Pulling
<1>1. ASSUME NEW t \in Thread, End(t) PROVE G
  <2>1. ProcOf(t) \in Proc /\ ProcOf(u) \in Proc
    BY ProcOfThread
  <2>2. u # t /\ pullLock[ProcOf(u)] = u => pullLock'[ProcOf(u)] = u
    BY <1>1, <2>1 DEF End, TypeOK
  <2> QED BY <1>1, <2>2, EndFrame DEF LockHeld
<1>2. ASSUME NEW t \in Thread, NEW what, NEW where, NEW g, Begin(t, what, where, g),
             UNCHANGED pullLock,
             \/ where = "acquire" /\ what # "admin"
             \/ where = "fetch" /\ what = "admin" /\ AdminPulls
      PROVE  G
  BY <1>2 DEF Begin, Goto, TypeOK, LockHeld
<1>3. ASSUME NEW t \in Thread, NEW where, pc[t] \in Pulling, Goto(t, where),
             UNCHANGED <<op, pullLock>>
      PROVE  G
  BY <1>3 DEF Goto, TypeOK, LockHeld
<1>4. ASSUME NEW t \in Thread, AcquireAndPull(t) PROVE G
  <2>1. ProcOf(t) \in Proc /\ ProcOf(u) \in Proc
    BY ProcOfThread
  <2>2. pullLock'[ProcOf(t)] = t /\ pullLock[ProcOf(t)] = NoThread
    BY <1>4, <2>1 DEF AcquireAndPull, LockIsFree, TypeOK
  <2>3. u # NoThread
    BY BoundsAssumption DEF BoundsAssumption, Thread
  <2>4. u # t /\ pullLock[ProcOf(u)] = u => pullLock'[ProcOf(u)] = u
    BY <1>4, <2>1, <2>2, <2>3 DEF AcquireAndPull, TypeOK
  <2> QED BY <1>4, <2>2, <2>4 DEF AcquireAndPull, Goto, TypeOK, LockHeld
<1>5. ASSUME NEW p \in Proc, Crash(p) PROVE G
  BY <1>5, ProcOfThread DEF Crash, TypeOK, LockHeld
<1>6. CASE UNCHANGED <<op, pc, pullLock>>
  BY <1>6 DEF LockHeld
<1>7. ASSUME NEW t \in Thread, Start(t) PROVE G
  BY <1>7, <1>2, <1>6 DEF Start, StartRequest, StartLogin, StartAdmin, StartBackground, DeliverGrant
<1>8. ASSUME NEW t \in Thread, Proceed(t) PROVE G
  BY <1>8, <1>1, <1>3, <1>4 DEF Proceed, AcquireAndEnd, FetchOk, FetchFails, Commit,
     CommitRejected, PullFails, FailGrant, Invalidate
<1> QED BY <1>5, <1>6, <1>7, <1>8 DEF Next, Around, vars, RemoteGrant, RemoteCatalog, Age,
          DeliverCatalog, Raises, BackoffExpires, ServeAndRefresh

OneProcess == \A p, q \in Proc : p = q

\* With one process and no unlocked pull, the threads past the lock are one.
LEMMA OnePuller ==
  ASSUME OneProcess, AdminPulls = FALSE, TypeOK, LockHeld,
         NEW t \in Thread, pc[t] \in Pulling, NEW u \in Thread, pc[u] \in Pulling
  PROVE  t = u
BY ProcOfThread DEF OneProcess, LockHeld

LEMMA StepLockInv ==
  ASSUME OneProcess, AdminPulls = FALSE, LockInv, [Next]_vars
  PROVE  LockInv'
<1> USE DEF store, process, thread, history
<1>0. TypeOK /\ RowInv' /\ TypeOK' /\ LockHeld /\ LockHeld'
  BY StepRowInv, StepTyped, StepLockHeld DEF LockInv, RowInv
<1>1. /\ remote.grant \in Nat /\ remote'.grant \in Nat /\ failed \in Nat /\ failed' \in Nat
      /\ row.grant \in Nat /\ row'.grant \in Nat
      /\ \A t \in Thread : event[t] \in Nat /\ resp[t].grant \in Nat /\ resp'[t].grant \in Nat
  BY <1>0, BoundsAssumption, SMTT(30) DEF BoundsAssumption, TypeOK, Grant
<1>2. \A t \in Thread : Invalidate(t) => failed' = Higher(failed, event[t]) /\ remote' = remote
  BY DEF Invalidate
<1>3. (\A t \in Thread : ~Invalidate(t)) => failed' = failed
  BY DEF Next, Around, vars, RemoteGrant, RemoteCatalog, Age, DeliverCatalog, Raises, BackoffExpires,
     ServeAndRefresh, Crash, Start, StartRequest, StartLogin, StartAdmin, StartBackground,
     DeliverGrant, Proceed, AcquireAndPull, AcquireAndEnd, FetchOk, FetchFails, Commit,
     CommitRejected, PullFails, FailGrant
<1>4. remote'.grant >= remote.grant
  <2>1. CASE RemoteGrant
    BY <2>1, <1>0, <1>1 DEF RemoteGrant, TypeOK
  <2>2. CASE RemoteCatalog
    BY <2>2, <1>0, <1>1 DEF RemoteCatalog, TypeOK
  <2>3. CASE UNCHANGED remote
    BY <2>3, <1>1
  <2> QED BY <2>1, <2>2, <2>3 DEF Next, Around, vars, Age, DeliverCatalog, Raises, BackoffExpires,
            ServeAndRefresh, Crash, Start, StartRequest, StartLogin, StartAdmin, StartBackground,
            DeliverGrant, Proceed, AcquireAndPull, AcquireAndEnd, FetchOk, FetchFails, Commit,
            CommitRejected, PullFails, FailGrant, Invalidate
<1>5. failed' <= remote'.grant
  BY <1>1, <1>2, <1>3, <1>4 DEF LockInv, RowInv, EventsAreReal, Higher
<1>6. ResponseAfterFailure'
  <2>1. ASSUME NEW t \in Thread, Invalidate(t), NEW u \in Thread, pc'[u] = "commit" PROVE FALSE
    <3>1. pc[t] = "invalidate" /\ End(t)
      BY <2>1 DEF Invalidate
    <3>2. u # t /\ pc[u] = "commit"
      BY <2>1, <3>1, <1>0, EndFrame
    <3> QED BY <3>1, <3>2, <1>0, OnePuller DEF Pulling
  <2>2. ASSUME NEW t \in Thread, FetchOk(t) PROVE ResponseAfterFailure'
    BY <2>2, <1>0, <1>1 DEF FetchOk, Goto, LockInv, ResponseAfterFailure, TypeOK
  <2>3. ASSUME NEW u \in Thread, pc'[u] = "commit", \A t \in Thread : ~Invalidate(t) /\ ~FetchOk(t)
        PROVE  pc[u] = "commit" /\ resp'[u] = resp[u]
    <3>1. ASSUME NEW t \in Thread, End(t) PROVE pc[u] = "commit" /\ resp'[u] = resp[u]
      BY <3>1, <2>3, <1>0, EndFrame
    <3>2. ASSUME NEW t \in Thread, NEW where, where # "commit", Goto(t, where), UNCHANGED resp
          PROVE  pc[u] = "commit" /\ resp'[u] = resp[u]
      BY <3>2, <2>3, <1>0 DEF Goto, TypeOK
    <3>3. ASSUME NEW p \in Proc, Crash(p) PROVE pc[u] = "commit" /\ resp'[u] = resp[u]
      BY <3>3, <2>3, <1>0 DEF Crash, TypeOK
    <3>4. ASSUME NEW t \in Thread, Start(t) PROVE pc[u] = "commit" /\ resp'[u] = resp[u]
      BY <3>4, <3>2, <2>3 DEF Start, StartRequest, StartLogin, StartAdmin, StartBackground,
         DeliverGrant, Begin
    <3>5. ASSUME NEW t \in Thread, Proceed(t) PROVE pc[u] = "commit" /\ resp'[u] = resp[u]
      BY <3>5, <3>1, <3>2, <2>3 DEF Proceed, AcquireAndPull, AcquireAndEnd, FetchFails, Commit,
         CommitRejected, PullFails, FailGrant
    <3> QED BY <2>3, <3>3, <3>4, <3>5 DEF Next, Around, vars, RemoteGrant, RemoteCatalog, Age,
              DeliverCatalog, Raises, BackoffExpires, ServeAndRefresh
  <2> QED BY <2>1, <2>2, <2>3, <1>3 DEF LockInv, ResponseAfterFailure
<1>7. FailedEventFailsClosed'
  <2>1. ASSUME NEW t \in Thread, Commit(t) PROVE FailedEventFailsClosed'
    <3>1. resp[t].grant >= failed /\ row'.grant >= resp[t].grant /\ failed' = failed
      BY <2>1, <1>0, StoredNewer DEF Commit, LockInv, ResponseAfterFailure
    <3> QED BY <3>1, <1>1 DEF FailedEventFailsClosed
  <2>2. ASSUME NEW t \in Thread, Invalidate(t) PROVE FailedEventFailsClosed'
    BY <2>2, <1>0 DEF Invalidate, FailedEventFailsClosed, Live, TypeOK
  <2>3. CASE \A t \in Thread : ~Commit(t) /\ ~Invalidate(t)
    <3>1. Live(row)' => Live(row) /\ row'.grant = row.grant
      <4>1. CASE Age
        BY <4>1, <1>0 DEF Age, Live, TypeOK
      <4>2. ASSUME NEW c \in Catalog, DeliverCatalog(c) PROVE ~Live(row)'
        BY <4>2, <1>0 DEF DeliverCatalog, Raises, Live, TypeOK
      <4>3. CASE UNCHANGED row
        BY <4>3 DEF Live
      <4> QED BY <2>3, <4>1, <4>2, <4>3 DEF Next, Around, vars, RemoteGrant, RemoteCatalog,
                BackoffExpires, ServeAndRefresh, Crash, Start, StartRequest, StartLogin,
                StartAdmin, StartBackground, DeliverGrant, Proceed, AcquireAndPull,
                AcquireAndEnd, FetchOk, FetchFails, CommitRejected, PullFails, FailGrant
    <3> QED BY <2>3, <3>1, <1>3 DEF LockInv, FailedEventFailsClosed
  <2> QED BY <2>1, <2>2, <2>3
<1> QED BY <1>0, <1>5, <1>6, <1>7 DEF LockInv

\* In one process, a grant.changed event whose pull failed has taken the older
\* grants out of service for good: no pull that began before it brings them back.
THEOREM FailedEventHolds ==
  ASSUME OneProcess, AdminPulls = FALSE
  PROVE  Spec => []FailedEventFailsClosed
<1>1. LockInv /\ [Next]_vars => LockInv'
  BY StepLockInv
<1>2. LockInv => FailedEventFailsClosed
  BY DEF LockInv
<1> QED BY InitLockInv, <1>1, <1>2, PTL DEF Spec

-----------------------------------------------------------------------------
(* What the second look under the lock gives: one pull per occasion, with any  *)
(* number of processes and unlocked pulls beside them.                         *)

\* EasyAuth is never behind what it has answered.
BelowRemote ==
  /\ row.grant <= remote.grant /\ row.catalog <= remote.catalog
  /\ \A t \in Thread : resp[t].grant <= remote.grant /\ resp[t].catalog <= remote.catalog

\* The answer that clears a backoff will be stored, unless the row is fresh or
\* nothing has been counted yet.
AnswersCount ==
  \A t \in Thread : pc[t] = "commit" /\ Ensures(t) =>
    NewerOrEqual(resp[t], row) \/ RowIsFresh(floor) \/ pulls[ProcOf(t)] = 0

\* The holder of the lock of p is a request that pulls.
Asking(p) ==
  /\ pullLock[p] \in Thread
  /\ ProcOf(pullLock[p]) = p
  /\ op[pullLock[p]] = "request"
  /\ pc[pullLock[p]] \in {"fetch", "commit"}

\* A pull that was counted is under way, has failed, or the row is fresh.
PullsAccounted ==
  \A p \in Proc :
    \/ pulls[p] = 0
    \/ pulls[p] = 1 /\ (Asking(p) \/ backoff[p] \/ RowIsFresh(floor))

PullInv == TypeOK /\ LockHeld /\ BelowRemote /\ AnswersCount /\ PullsAccounted

LEMMA InitPullInv == Init => PullInv
<1> SUFFICES ASSUME Init PROVE PullInv
  OBVIOUS
<1>1. LockHeld
  BY InitLockInv DEF LockInv
<1>2. BelowRemote
  BY DEF Init, BelowRemote, NoRow, NoResp
<1>3. AnswersCount /\ PullsAccounted
  BY DEF Init, AnswersCount, PullsAccounted
<1> QED BY InitTyped, <1>1, <1>2, <1>3 DEF PullInv

\* Only a commit that stores its answer changes the versions of the row.
LEMMA RowFrame ==
  ASSUME TypeOK, [Next]_vars
  PROVE  \/ row'.grant = row.grant /\ row'.catalog = row.catalog
         \/ \E t \in Thread : Commit(t) /\ NewerOrEqual(resp[t], row)
<1> USE DEF store
<1>1. ASSUME NEW t \in Thread, Commit(t), ~NewerOrEqual(resp[t], row) PROVE row' = row
  BY <1>1 DEF Commit, Stored
<1>2. CASE Age \/ (\E c \in Catalog : DeliverCatalog(c)) \/ \E t \in Thread : Invalidate(t)
  BY <1>2 DEF Age, DeliverCatalog, Invalidate, TypeOK
<1> QED BY <1>1, <1>2 DEF Next, Around, vars, RemoteGrant, RemoteCatalog, BackoffExpires,
          ServeAndRefresh, Crash, Start, StartRequest, StartLogin, StartAdmin, StartBackground,
          DeliverGrant, Proceed, AcquireAndPull, AcquireAndEnd, FetchOk, FetchFails,
          CommitRejected, PullFails, FailGrant

\* An answer that is stored is fresh, or an occasion for another pull.
LEMMA StoredIsFresh ==
  ASSUME TypeOK, NEW t \in Thread, Commit(t), NewerOrEqual(resp[t], row),
         NEW p \in Proc, ~Occasion(p)
  PROVE  /\ RowIsFresh(floor)'
         /\ row'.grant = resp[t].grant /\ row'.catalog = resp[t].catalog
<1>1. row'.life # "expired"
  BY DEF Occasion, StoresExpired
<1>2. PICK late \in BOOLEAN : row' = Stored(resp[t], late)
  BY DEF Commit
<1>3. row' = [grant |-> resp[t].grant, catalog |-> resp[t].catalog, life |-> "fresh"]
  BY <1>1, <1>2 DEF Stored
<1> QED BY <1>3 DEF Commit, RowIsFresh

\* A fresh row stays fresh between two occasions.
LEMMA FreshStays ==
  ASSUME NEW p \in Proc, ~Occasion(p), RowIsFresh(floor) PROVE RowIsFresh(floor)'
BY DEF Occasion

\* A thread that is about to write has answered before, or answers in this step.
LEMMA CommitFrame ==
  ASSUME TypeOK, [Next]_vars, NEW u \in Thread, pc'[u] = "commit"
  PROVE  \/ FetchOk(u)
         \/ pc[u] = "commit" /\ resp'[u] = resp[u] /\ op'[u] = op[u]
<1> USE DEF store, process, thread
<1>1. ASSUME NEW t \in Thread, End(t) PROVE pc[u] = "commit" /\ resp'[u] = resp[u] /\ op'[u] = op[u]
  BY <1>1, EndFrame
<1>2. ASSUME NEW t \in Thread, NEW where, where # "commit", Goto(t, where), UNCHANGED <<op, resp>>
      PROVE  pc[u] = "commit" /\ resp'[u] = resp[u] /\ op'[u] = op[u]
  BY <1>2 DEF Goto, TypeOK
<1>3. ASSUME NEW p \in Proc, Crash(p) PROVE pc[u] = "commit" /\ resp'[u] = resp[u] /\ op'[u] = op[u]
  BY <1>3 DEF Crash, TypeOK
<1>4. ASSUME NEW t \in Thread, NEW what, NEW where, NEW g, where # "commit", Begin(t, what, where, g)
      PROVE  pc[u] = "commit" /\ resp'[u] = resp[u] /\ op'[u] = op[u]
  BY <1>4 DEF Begin, Goto, TypeOK
<1>5. ASSUME NEW t \in Thread, FetchOk(t) 
      PROVE \/ FetchOk(u)
            \/ pc[u] = "commit" /\ resp'[u] = resp[u] /\ op'[u] = op[u]
  BY <1>5 DEF FetchOk, Goto, TypeOK
<1>6. CASE UNCHANGED thread
  BY <1>6
<1>7. ASSUME NEW t \in Thread, Start(t) PROVE pc[u] = "commit" /\ resp'[u] = resp[u] /\ op'[u] = op[u]
  BY <1>7, <1>4, <1>6 DEF Start, StartRequest, StartLogin, StartAdmin, StartBackground, DeliverGrant
<1>8. ASSUME NEW t \in Thread, Proceed(t) 
      PROVE \/ FetchOk(u)
            \/ pc[u] = "commit" /\ resp'[u] = resp[u] /\ op'[u] = op[u]
  BY <1>8, <1>1, <1>2, <1>5 DEF Proceed, AcquireAndPull, AcquireAndEnd, FetchFails, Commit,
     CommitRejected, PullFails, FailGrant, Invalidate
<1> QED BY <1>3, <1>6, <1>7, <1>8 DEF Next, Around, vars, RemoteGrant, RemoteCatalog, Age,
          DeliverCatalog, Raises, BackoffExpires, ServeAndRefresh

LEMMA StepBelowRemote == TypeOK /\ BelowRemote /\ [Next]_vars => BelowRemote'
<1> SUFFICES ASSUME TypeOK, BelowRemote, [Next]_vars PROVE BelowRemote'
  OBVIOUS
<1> USE DEF store, process, thread
<1>0. TypeOK'
  BY StepTyped
<1>1. /\ remote.grant \in Nat /\ remote'.grant \in Nat /\ remote'.grant >= remote.grant
      /\ remote.catalog \in Nat /\ remote'.catalog \in Nat /\ remote'.catalog >= remote.catalog
  <2>0. /\ remote.grant \in Nat /\ remote'.grant \in Nat
        /\ remote.catalog \in Nat /\ remote'.catalog \in Nat
    <3>1. remote \in [grant : Grant, catalog : Catalog] /\ remote' \in [grant : Grant, catalog : Catalog]
      BY <1>0 DEF TypeOK
    <3> QED BY <3>1 DEF Grant, Catalog
  <2>1. CASE RemoteGrant \/ RemoteCatalog
    BY <2>0, <2>1 DEF RemoteGrant, RemoteCatalog, TypeOK
  <2>2. CASE UNCHANGED remote
    BY <2>0, <2>2
  <2> QED BY <2>0, <2>1, <2>2 DEF Next, Around, vars, Age, DeliverCatalog, Raises, BackoffExpires,
            ServeAndRefresh, Crash, Start, StartRequest, StartLogin, StartAdmin, StartBackground,
            DeliverGrant, Proceed, AcquireAndPull, AcquireAndEnd, FetchOk, FetchFails, Commit,
            CommitRejected, PullFails, FailGrant, Invalidate
<1>2. /\ row.grant \in Nat /\ row'.grant \in Nat /\ row.catalog \in Nat /\ row'.catalog \in Nat
      /\ \A t \in Thread : /\ resp[t].grant \in Nat /\ resp[t].catalog \in Nat
                           /\ resp'[t].grant \in Nat /\ resp'[t].catalog \in Nat
  BY <1>0, BoundsAssumption DEF BoundsAssumption, TypeOK
<1>3. row'.grant <= remote'.grant /\ row'.catalog <= remote'.catalog
  <2>1. ASSUME NEW t \in Thread, Commit(t), NewerOrEqual(resp[t], row)
        PROVE  row'.grant = resp[t].grant /\ row'.catalog = resp[t].catalog
    BY <2>1 DEF Commit, Stored
  <2> QED BY <2>1, <1>1, <1>2, RowFrame DEF BelowRemote
<1>4. ASSUME NEW u \in Thread
      PROVE  resp'[u].grant <= remote'.grant /\ resp'[u].catalog <= remote'.catalog
  <2>1. resp'[u] = resp[u] \/ resp'[u] = NoResp \/ FetchOk(u)
    <3>1. ASSUME NEW t \in Thread, FetchOk(t) PROVE resp'[u] = resp[u] \/ FetchOk(u)
      BY <3>1 DEF FetchOk, TypeOK
    <3>2. ASSUME NEW t \in Thread, End(t) PROVE resp'[u] = resp[u] \/ resp'[u] = NoResp
      BY <3>2 DEF End, TypeOK
    <3>3. ASSUME NEW p \in Proc, Crash(p) PROVE resp'[u] = resp[u] \/ resp'[u] = NoResp
      BY <3>3 DEF Crash, TypeOK
    <3> QED BY <3>1, <3>2, <3>3 DEF Next, Around, vars, RemoteGrant, RemoteCatalog, Age,
              DeliverCatalog, Raises, BackoffExpires, ServeAndRefresh, Start, StartRequest,
              StartLogin, StartAdmin, StartBackground, DeliverGrant, Begin, Proceed,
              AcquireAndPull, AcquireAndEnd, FetchFails, Commit, CommitRejected, PullFails,
              FailGrant, Invalidate
  <2>2. CASE FetchOk(u)
    BY <2>2, <1>1 DEF FetchOk, TypeOK
  <2>3. CASE resp'[u] = NoResp
    BY <2>3, <1>1 DEF NoResp
  <2>4. CASE resp'[u] = resp[u]
    BY <2>4, <1>1, <1>2 DEF BelowRemote
  <2> QED BY <2>1, <2>2, <2>3, <2>4
<1> QED BY <1>3, <1>4 DEF BelowRemote

\* The second look: a request that pulls finds neither a fresh row nor a
\* backoff, and the lock free, so nothing has been counted before it.
LEMMA RequestPullsFirst ==
  ASSUME PullInv, NEW t \in Thread, op[t] = "request", AcquireAndPull(t)
  PROVE  pulls[ProcOf(t)] = 0
<1>1. pullLock[ProcOf(t)] = NoThread /\ ProcOf(t) \in Proc
  BY ProcOfThread DEF AcquireAndPull, LockIsFree
<1>2. ~Asking(ProcOf(t))
  BY <1>1, BoundsAssumption DEF BoundsAssumption, Asking, Thread
<1>3. ~backoff[ProcOf(t)] /\ ~RowIsFresh(floor)
  <2>1. PICK f \in CachedFloor : PullNeeded(t, f)
    BY DEF AcquireAndPull
  <2>2. f <= floor /\ f \in Nat /\ floor \in Nat /\ row.catalog \in Nat
    BY BoundsAssumption DEF BoundsAssumption, CachedFloor, PullInv, TypeOK
  <2> QED BY <2>1, <2>2 DEF PullNeeded, RowIsFresh
<1> QED BY <1>1, <1>2, <1>3 DEF PullInv, PullsAccounted

LEMMA StepAnswersCount == PullInv /\ [Next]_vars => AnswersCount'
<1> SUFFICES ASSUME PullInv, [Next]_vars PROVE AnswersCount'
  OBVIOUS
<1>1. CASE UNCHANGED vars
  BY <1>1 DEF vars, store, process, thread, PullInv, AnswersCount, NewerOrEqual, RowIsFresh, Ensures
<1>2. CASE Next
  <2> SUFFICES ASSUME NEW u \in Thread, pc'[u] = "commit", Ensures(u)',
                      ~RowIsFresh(floor)', pulls'[ProcOf(u)] # 0
               PROVE  NewerOrEqual(resp'[u], row')
    BY DEF AnswersCount, NewerOrEqual
  <2> DEFINE p == ProcOf(u)
  <2>0. TypeOK /\ TypeOK' /\ BelowRemote /\ BelowRemote' /\ LockHeld /\ p \in Proc
    BY StepTyped, StepBelowRemote, ProcOfThread DEF PullInv
  <2>1. ~Occasion(p) /\ pulls'[p] = IF RequestPulls(p) THEN pulls[p] + 1 ELSE pulls[p]
    BY <1>2, <2>0 DEF Next, CountPulls
  <2>2. ~RowIsFresh(floor)
    BY <2>0, <2>1, FreshStays
  <2>3. \A t \in Thread : Commit(t) => ~NewerOrEqual(resp[t], row)
    BY <2>0, <2>1, StoredIsFresh
  <2>4. row'.grant = row.grant /\ row'.catalog = row.catalog
    BY <2>0, <2>3, RowFrame
  <2>5. CASE FetchOk(u)
    <3>1. resp'[u] = [grant |-> remote.grant, catalog |-> remote.catalog] /\ remote' = remote
      BY <2>0, <2>5 DEF FetchOk, TypeOK
    <3>2. row'.grant <= resp'[u].grant /\ row'.catalog <= resp'[u].catalog
      BY <2>0, <3>1 DEF BelowRemote
    <3>3. row'.grant \in 0 .. MaxGrant /\ resp'[u].grant \in 0 .. MaxGrant
      BY <2>0 DEF TypeOK
    <3> QED BY <3>2, <3>3, BoundsAssumption DEF BoundsAssumption, NewerOrEqual
  <2>6. CASE pc[u] = "commit" /\ resp'[u] = resp[u] /\ op'[u] = op[u]
    <3>1. Ensures(u) /\ op[u] # "admin"
      BY <2>6 DEF Ensures
    <3>2. pullLock[p] = u
      BY <2>0, <2>6, <3>1 DEF LockHeld, Pulling
    <3>3. ~RequestPulls(p)
      BY <3>2, BoundsAssumption DEF BoundsAssumption, RequestPulls, AcquireAndPull, LockIsFree, Thread
    <3>4. NewerOrEqual(resp[u], row)
      BY <2>1, <2>2, <2>6, <3>1, <3>3 DEF PullInv, AnswersCount
    <3> QED BY <2>4, <2>6, <3>4 DEF NewerOrEqual
  <2> QED BY <2>0, <2>5, <2>6, CommitFrame
<1> QED BY <1>1, <1>2

\* A commit that clears the backoff leaves a fresh row behind it.
LEMMA CommitFreshens ==
  ASSUME PullInv, NEW t \in Thread, Commit(t), Ensures(t), pulls[ProcOf(t)] # 0,
         ~Occasion(ProcOf(t))
  PROVE  RowIsFresh(floor)'
<1>1. pc[t] = "commit" /\ ProcOf(t) \in Proc
  BY ProcOfThread DEF Commit
<1>2. NewerOrEqual(resp[t], row) \/ RowIsFresh(floor)
  BY <1>1 DEF PullInv, AnswersCount
<1> QED BY <1>1, <1>2, StoredIsFresh, FreshStays DEF PullInv

\* The backoff of p ends with its time, with p, or with a commit.
LEMMA BackoffFrame ==
  ASSUME TypeOK, [Next]_vars, NEW p \in Proc, backoff[p], ~Occasion(p)
  PROVE  \/ backoff'[p]
         \/ \E t \in Thread : Commit(t) /\ Ensures(t) /\ ProcOf(t) = p
<1> USE DEF process
<1>1. ASSUME NEW q \in Proc, BackoffExpires(q) PROVE backoff'[p]
  BY <1>1 DEF BackoffExpires, Occasion, TypeOK
<1>2. ASSUME NEW q \in Proc, Crash(q) PROVE backoff'[p]
  BY <1>2 DEF Crash, Occasion, TypeOK
<1>3. ASSUME NEW t \in Thread, PullFails(t) PROVE backoff'[p]
  BY <1>3, ProcOfThread DEF PullFails, TypeOK
<1>4. ASSUME NEW t \in Thread, Commit(t) PROVE backoff'[p] \/ (Ensures(t) /\ ProcOf(t) = p)
  BY <1>4, ProcOfThread DEF Commit, TypeOK
<1>5. CASE UNCHANGED backoff
  BY <1>5
<1> QED BY <1>1, <1>2, <1>3, <1>4, <1>5 DEF Next, Around, vars, RemoteGrant, RemoteCatalog, Age,
          DeliverCatalog, Raises, ServeAndRefresh, Start, StartRequest, StartLogin, StartAdmin,
          StartBackground, DeliverGrant, Proceed, AcquireAndPull, AcquireAndEnd, FetchOk,
          FetchFails, CommitRejected, FailGrant, Invalidate

\* A request that pulls goes on pulling, until it commits or has failed.
LEMMA AskingFrame ==
  ASSUME TypeOK, [Next]_vars, NEW p \in Proc, Asking(p), ~Occasion(p)
  PROVE  \/ Asking(p)'
         \/ backoff'[p]
         \/ \E t \in Thread : Commit(t) /\ Ensures(t) /\ ProcOf(t) = p
<1> DEFINE h == pullLock[p]
<1> USE DEF process, thread
<1>0. h \in Thread /\ ProcOf(h) = p /\ op[h] = "request" /\ pc[h] \in {"fetch", "commit"}
  BY DEF Asking
<1>1. ASSUME NEW t \in Thread, t # h, End(t) PROVE Asking(p)'
  <2>1. pullLock'[p] = h
    BY <1>1, ProcOfThread DEF End, TypeOK
  <2> QED BY <1>0, <1>1, <2>1, EndFrame DEF Asking
<1>2. ASSUME NEW t \in Thread, NEW what, NEW where, NEW g, pc[t] = "idle",
             Begin(t, what, where, g), UNCHANGED pullLock
      PROVE  Asking(p)'
  BY <1>0, <1>2 DEF Begin, Goto, Asking, TypeOK
<1>3. ASSUME NEW t \in Thread, NEW where, Goto(t, where), t # h \/ where \in {"fetch", "commit"},
             UNCHANGED <<op, pullLock>>
      PROVE  Asking(p)'
  BY <1>0, <1>3 DEF Goto, Asking, TypeOK
<1>4. ASSUME NEW t \in Thread, AcquireAndPull(t) PROVE Asking(p)'
  <2>1. ProcOf(t) # p /\ t # h /\ pullLock'[p] = h
    BY <1>0, <1>4, BoundsAssumption, ProcOfThread
    DEF BoundsAssumption, AcquireAndPull, LockIsFree, Thread, TypeOK
  <2> QED BY <1>0, <1>4, <2>1 DEF AcquireAndPull, Goto, Asking, TypeOK
<1>5. ASSUME NEW t \in Thread, PullFails(t) PROVE Asking(p)' \/ backoff'[p]
  <2>1. CASE t = h
    BY <1>0, <1>5, <2>1 DEF PullFails, Ensures, TypeOK
  <2>2. CASE t # h
    BY <1>1, <1>3, <1>5, <2>2 DEF PullFails
  <2> QED BY <2>1, <2>2
<1>6. ASSUME NEW t \in Thread, Commit(t) PROVE Asking(p)' \/ (Ensures(t) /\ ProcOf(t) = p)
  <2>1. CASE t = h
    BY <1>0, <2>1 DEF Ensures
  <2>2. CASE t # h
    BY <1>1, <1>6, <2>2 DEF Commit
  <2> QED BY <2>1, <2>2
<1>7. CASE UNCHANGED <<op, pc, pullLock>>
  BY <1>0, <1>7 DEF Asking
<1>8. ASSUME NEW q \in Proc, Crash(q) PROVE Asking(p)'
  <2>1. q # p
    BY <1>8 DEF Occasion
  <2> QED BY <1>0, <1>8, <2>1 DEF Crash, Asking, TypeOK
<1>9. ASSUME NEW t \in Thread, Start(t) PROVE Asking(p)'
  <2>1. CASE StartRequest(t) \/ StartLogin(t)
    BY <2>1, <1>2 DEF StartRequest, StartLogin
  <2>2. CASE StartAdmin(t) \/ StartBackground(t)
    BY <2>2, <1>2 DEF StartAdmin, StartBackground
  <2>3. ASSUME NEW g \in Grant, DeliverGrant(t, g) PROVE Asking(p)'
    <3>1. UNCHANGED pullLock /\ pc[t] = "idle"
      BY <2>3 DEF DeliverGrant
    <3>2. Begin(t, "grant", "acquire", g) \/ UNCHANGED <<op, pc>>
      BY <2>3 DEF DeliverGrant
    <3>3. CASE Begin(t, "grant", "acquire", g)
      BY <3>1, <3>3, <1>2
    <3>4. CASE UNCHANGED <<op, pc>>
      BY <3>1, <3>4, <1>0 DEF Asking
    <3> QED BY <3>2, <3>3, <3>4
  <2> QED BY <1>9, <2>1, <2>2, <2>3 DEF Start
<1>10. ASSUME NEW t \in Thread, AcquireAndEnd(t) \/ FailGrant(t) \/ Invalidate(t) PROVE Asking(p)'
  <2>1. t # h
    BY <1>0, <1>10 DEF AcquireAndEnd, LockIsFree, FailGrant, Invalidate
  <2> QED BY <1>1, <1>3, <1>10, <2>1 DEF AcquireAndEnd, FailGrant, Invalidate
<1>11. ASSUME NEW t \in Thread, FetchOk(t) PROVE Asking(p)'
  BY <1>3, <1>11 DEF FetchOk
<1> QED BY <1>4, <1>5, <1>6, <1>7, <1>8, <1>9, <1>10, <1>11 DEF Next, Around, vars, RemoteGrant,
          RemoteCatalog, Age, DeliverCatalog, Raises, BackoffExpires, ServeAndRefresh, Proceed,
          FetchFails, CommitRejected

LEMMA StepPullsAccounted == PullInv /\ [Next]_vars => PullsAccounted'
<1> SUFFICES ASSUME PullInv, [Next]_vars PROVE PullsAccounted'
  OBVIOUS
<1>1. CASE UNCHANGED vars
  BY <1>1 DEF vars, store, process, thread, PullInv, PullsAccounted, Asking, RowIsFresh
<1>2. CASE Next
  <2> SUFFICES ASSUME NEW p \in Proc
               PROVE  \/ pulls'[p] = 0
                      \/ pulls'[p] = 1 /\ (Asking(p)' \/ backoff'[p] \/ RowIsFresh(floor)')
    BY DEF PullsAccounted
  <2>0. TypeOK /\ LockHeld
    BY DEF PullInv
  <2>1. pulls'[p] = IF Occasion(p) THEN 0 ELSE IF RequestPulls(p) THEN pulls[p] + 1 ELSE pulls[p]
    BY <1>2 DEF Next, CountPulls
  <2>2. CASE Occasion(p)
    BY <2>1, <2>2
  <2>3. CASE RequestPulls(p) /\ ~Occasion(p)
    <3>1. PICK t \in Thread : ProcOf(t) = p /\ op[t] = "request" /\ AcquireAndPull(t)
      BY <2>3 DEF RequestPulls
    <3>2. pulls'[p] = 1
      BY <2>1, <2>3, <3>1, RequestPullsFirst
    <3>3. Asking(p)'
      BY <2>0, <3>1 DEF AcquireAndPull, Goto, Asking, TypeOK
    <3> QED BY <3>2, <3>3
  <2>4. CASE ~RequestPulls(p) /\ ~Occasion(p) /\ pulls[p] # 0
    <3>1. pulls'[p] = 1 /\ (Asking(p) \/ backoff[p] \/ RowIsFresh(floor))
      BY <2>1, <2>4 DEF PullInv, PullsAccounted
    <3>2. ASSUME NEW t \in Thread, Commit(t), Ensures(t), ProcOf(t) = p PROVE RowIsFresh(floor)'
      BY <2>4, <3>2, CommitFreshens
    <3>3. CASE RowIsFresh(floor)
      BY <2>4, <3>1, <3>3, FreshStays
    <3>4. CASE backoff[p]
      BY <2>0, <2>4, <3>1, <3>2, <3>4, BackoffFrame
    <3>5. CASE Asking(p)
      BY <2>0, <2>4, <3>1, <3>2, <3>5, AskingFrame DEF PullInv
    <3> QED BY <3>1, <3>3, <3>4, <3>5
  <2> QED BY <2>1, <2>2, <2>3, <2>4
<1> QED BY <1>1, <1>2

\* However many processes, requests, webhooks and administrators pull the user's
\* snapshot: the requests of a process begin at most one pull per occasion.
THEOREM RequestsPullOnce == Spec => []OnePullPerOccasion
<1>1. PullInv /\ [Next]_vars => PullInv'
  BY StepTyped, StepLockHeld, StepBelowRemote, StepAnswersCount, StepPullsAccounted DEF PullInv
<1>2. PullInv => OnePullPerOccasion
  <2> SUFFICES ASSUME PullInv, NEW p \in Proc PROVE pulls[p] <= 1
    BY DEF OnePullPerOccasion
  <2>1. pulls[p] = 0 \/ pulls[p] = 1
    BY DEF PullInv, PullsAccounted
  <2> QED BY <2>1
<1> QED BY InitPullInv, <1>1, <1>2, PTL DEF Spec
====
