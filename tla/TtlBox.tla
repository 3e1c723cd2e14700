------------------------------- MODULE TtlBox -------------------------------
(***************************************************************************)
(* TtlBox: a value cached for a few seconds in one process.  load() hits,  *)
(* leads a flight of the loader, waits for the flight of another thread,   *)
(* or, called by its own loader, runs the loader once more.  The loader    *)
(* runs without the lock; a generation counts the invalidations, and a     *)
(* value is stored only if none came since the flight began.               *)
(*                                                                         *)
(* The boxes of authz_cache cache rows of platform_settings.  The loader   *)
(* of a box may first load another box (Inner): the floor box takes the    *)
(* authority from the easyauth box.  A value is known by the version of    *)
(* the row it was computed from.                                           *)
(***************************************************************************)
EXTENDS Naturals

CONSTANTS Thread,    \* threads that call load()
          Writer,    \* threads that save the setting
          Box,       \* the boxes computed from the row
          Inner,     \* Inner[b]: the box the loader of b loads, or NoBox
          NoBox,
          NoThread,
          MaxWrites  \* bound on the writes of the row

ASSUME BoundsAssumption ==
  /\ MaxWrites \in Nat
  /\ NoThread \notin Thread
  /\ NoBox \notin Box
  /\ Inner \in [Box -> Box \cup {NoBox}]

VARIABLES
  db,      \* version of the row in PostgreSQL
  saving,  \* per writer: how far its save is
  due,     \* per writer: the boxes it has still to invalidate
  held,    \* _value of each box, or Missing
  gen,     \* _generation of each box
  flight,  \* _inflight and _loader_thread: the leader of the flight
  pc,      \* per thread and box: where its load stands
  seen,    \* ... the generation it captured
  again,   \* ... the generation its loader captured, loading its own box
  val,     \* ... the version it has read
  future   \* ... the leader whose Future it waits for

save   == <<db, saving, due>>
box    == <<held, gen, flight>>
thread == <<pc, seen, again, val, future>>
vars   == <<save, box, thread>>

Version == 0 .. MaxWrites
Missing == MaxWrites + 1
Flying == {"lead", "reread", "store", "inner", "raised", "loaded"}
Pc == Flying \cup {"idle", "wait", "resolve", "failed"}

TypeOK ==
  /\ db \in Version
  /\ saving \in [Writer -> {"idle", "flushed", "committed"}]
  /\ due \in [Writer -> SUBSET Box]
  /\ held \in [Box -> Version \cup {Missing}]
  /\ gen \in [Box -> Nat]
  /\ flight \in [Box -> Thread \cup {NoThread}]
  /\ pc \in [Thread -> [Box -> Pc]]
  /\ seen \in [Thread -> [Box -> Nat]]
  /\ again \in [Thread -> [Box -> Nat]]
  /\ val \in [Thread -> [Box -> Version]]
  /\ future \in [Thread -> [Box -> Thread \cup {NoThread}]]

PerLoad(x) == [t \in Thread |-> [b \in Box |-> x]]

Init ==
  /\ db = 0
  /\ saving = [w \in Writer |-> "idle"]
  /\ due = [w \in Writer |-> {}]
  /\ held = [b \in Box |-> Missing]
  /\ gen = [b \in Box |-> 0]
  /\ flight = [b \in Box |-> NoThread]
  /\ pc = PerLoad("idle")
  /\ seen = PerLoad(0)
  /\ again = PerLoad(0)
  /\ val = PerLoad(0)
  /\ future = PerLoad(NoThread)

-----------------------------------------------------------------------------
(* Saving the setting *)

\* The flush of the ORM: its watcher will invalidate before the commit.
\* The row is locked from the flush to the commit.
Flush(w) ==
  /\ saving[w] = "idle"
  /\ due[w] = {}
  /\ db < MaxWrites
  /\ \A u \in Writer : saving[u] # "flushed"
  /\ saving' = [saving EXCEPT ![w] = "flushed"]
  /\ due' = [due EXCEPT ![w] = Box]
  /\ UNCHANGED <<db, box, thread>>

\* persist_easyauth_setting invalidates again, after the commit.
Commit(w) ==
  /\ saving[w] = "flushed"
  /\ due[w] = {}
  /\ db' = db + 1
  /\ saving' = [saving EXCEPT ![w] = "committed"]
  /\ due' = [due EXCEPT ![w] = Box]
  /\ UNCHANGED <<box, thread>>

\* invalidate(), the inner box before the one computed from it.
Invalidate(w, b) ==
  /\ b \in due[w]
  /\ Inner[b] \notin due[w]
  /\ held' = [held EXCEPT ![b] = Missing]
  /\ gen' = [gen EXCEPT ![b] = @ + 1]
  /\ due' = [due EXCEPT ![w] = @ \ {b}]
  /\ UNCHANGED <<db, saving, flight, thread>>

Saved(w) ==
  /\ saving[w] = "committed"
  /\ due[w] = {}
  /\ saving' = [saving EXCEPT ![w] = "idle"]
  /\ UNCHANGED <<db, due, box, thread>>

\* The TTL is over.
Expire(b) ==
  /\ held[b] # Missing
  /\ held' = [held EXCEPT ![b] = Missing]
  /\ UNCHANGED <<save, gen, flight, thread>>

-----------------------------------------------------------------------------
(* load() *)

Goto(t, b, where) == pc' = [pc EXCEPT ![t][b] = where]
Keep(t, b, v) == val' = [val EXCEPT ![t][b] = v]

\* The loader of t is over: its captured generations are gone.
Forget(t, b) ==
  /\ seen' = [seen EXCEPT ![t][b] = 0]
  /\ again' = [again EXCEPT ![t][b] = 0]

\* The loader of c, run by t, is loading b.
Asks(t, c, b) == pc[t][c] = "inner" /\ Inner[c] = b

\* t is free to load b: it runs no loader, or the one that needs b.
MayLoad(t, b) ==
  /\ pc[t][b] = "idle"
  /\ \A c \in Box \ {b} : pc[t][c] = "idle" \/ Asks(t, c, b)

\* The loads of b in Who end, with v or by an exception; a loader that asked
\* for b goes on with v, or fails with it.
End(Who, b, where, v) ==
  /\ pc' = [t \in Thread |-> [c \in Box |->
       IF t \in Who /\ c = b THEN "idle"
       ELSE IF t \in Who /\ Asks(t, c, b) THEN where
       ELSE pc[t][c]]]
  /\ val' = [t \in Thread |-> [c \in Box |->
       IF t \in Who /\ c = b THEN 0
       ELSE IF t \in Who /\ Asks(t, c, b) THEN v
       ELSE val[t][c]]]
  /\ future' = [t \in Thread |-> [c \in Box |->
       IF t \in Who /\ c = b THEN NoThread ELSE future[t][c]]]

\* Without a loader that asked, a hit changes nothing.
Hit(t, b) ==
  /\ MayLoad(t, b)
  /\ held[b] # Missing
  /\ End({t}, b, "loaded", held[b])
  /\ UNCHANGED <<save, box, seen, again>>

\* Mutant: every thread that misses leads a flight of its own.
LeadAlways(t, b) ==
  /\ MayLoad(t, b)
  /\ held[b] = Missing
  /\ flight' = [flight EXCEPT ![b] = t]
  /\ seen' = [seen EXCEPT ![t][b] = gen[b]]
  /\ Goto(t, b, "lead")
  /\ UNCHANGED <<save, held, gen, again, val, future>>

Lead(t, b) ==
  /\ MayLoad(t, b)
  /\ held[b] = Missing
  /\ flight[b] = NoThread
  /\ flight' = [flight EXCEPT ![b] = t]
  /\ seen' = [seen EXCEPT ![t][b] = gen[b]]
  /\ Goto(t, b, "lead")
  /\ UNCHANGED <<save, held, gen, again, val, future>>

Wait(t, b) ==
  /\ MayLoad(t, b)
  /\ held[b] = Missing
  /\ flight[b] \notin {t, NoThread}
  /\ future' = [future EXCEPT ![t][b] = flight[b]]
  /\ Goto(t, b, "wait")
  /\ UNCHANGED <<save, box, seen, again, val>>

\* The loader reads the row, or asks the inner box.
Read(t, b) ==
  /\ pc[t][b] = "lead"
  /\ IF Inner[b] = NoBox
       THEN Keep(t, b, db) /\ Goto(t, b, "loaded")
       ELSE Goto(t, b, "inner") /\ UNCHANGED val
  /\ UNCHANGED <<save, box, seen, again, future>>

\* Mutant: a thread that loads in its own loader waits like any other.
ReenterWaits(t, b) ==
  /\ pc[t][b] = "lead"
  /\ Inner[b] = NoBox
  /\ held[b] = Missing
  /\ future' = [future EXCEPT ![t][b] = t]
  /\ Goto(t, b, "wait")
  /\ UNCHANGED <<save, box, seen, again, val>>

\* A loader that loads its own box: the thread of the flight does not wait
\* for itself, it runs the loader once more, under the generation of now.
Reenter(t, b) ==
  /\ pc[t][b] = "lead"
  /\ Inner[b] = NoBox
  /\ IF held[b] # Missing
       THEN Keep(t, b, held[b]) /\ Goto(t, b, "loaded") /\ UNCHANGED again
       ELSE /\ again' = [again EXCEPT ![t][b] = gen[b]]
            /\ Goto(t, b, "reread")
            /\ UNCHANGED val
  /\ UNCHANGED <<save, box, seen, future>>

Reread(t, b) ==
  /\ pc[t][b] = "reread"
  /\ Keep(t, b, db)
  /\ Goto(t, b, "store")
  /\ UNCHANGED <<save, box, seen, again, future>>

\* Mutant: the value is stored whatever happened since.
StoreAlways(b, g, v) == held' = [held EXCEPT ![b] = v]

\* _store_unlocked, if the generation is still the one captured.
StoreIf(b, g, v) == held' = [held EXCEPT ![b] = IF g = gen[b] THEN v ELSE @]

StoreAgain(t, b) ==
  /\ pc[t][b] = "store"
  /\ StoreIf(b, again[t][b], val[t][b])
  /\ Goto(t, b, "loaded")
  /\ UNCHANGED <<save, gen, flight, seen, again, val, future>>

\* _drop_inflight_unlocked
Drop(t, b) == flight' = [flight EXCEPT ![b] = IF @ = t THEN NoThread ELSE @]

\* _commit_load stores the value and drops the flight ...
CommitLoad(t, b) ==
  /\ pc[t][b] = "loaded"
  /\ StoreIf(b, seen[t][b], val[t][b])
  /\ Drop(t, b)
  /\ Goto(t, b, "resolve")
  /\ Forget(t, b)
  /\ UNCHANGED <<save, gen, val, future>>

\* The loader raises, by itself or because its inner load did.
LoadFails(t, b) ==
  /\ pc[t][b] \in {"lead", "reread", "raised"}
  /\ Drop(t, b)
  /\ Goto(t, b, "failed")
  /\ Forget(t, b)
  /\ Keep(t, b, 0)
  /\ UNCHANGED <<save, held, gen, future>>

Waiters(t, b) == {u \in Thread : pc[u][b] = "wait" /\ future[u][b] = t}

\* ... and resolves the Future, after the lock: the waiters return its value,
\* whatever was saved since they came.
Resolve(t, b) ==
  /\ pc[t][b] = "resolve"
  /\ End({t} \cup Waiters(t, b), b, "loaded", val[t][b])
  /\ UNCHANGED <<save, box, seen, again>>

\* set_exception: leader and waiters raise.
Reject(t, b) ==
  /\ pc[t][b] = "failed"
  /\ End({t} \cup Waiters(t, b), b, "raised", val[t][b])
  /\ UNCHANGED <<save, box, seen, again>>

-----------------------------------------------------------------------------
Step(t, b) ==
  \/ Read(t, b) \/ Reenter(t, b) \/ Reread(t, b) \/ StoreAgain(t, b)
  \/ CommitLoad(t, b) \/ LoadFails(t, b) \/ Resolve(t, b) \/ Reject(t, b)

Begin(t, b) == Hit(t, b) \/ Lead(t, b) \/ Wait(t, b)

Writing(w) == Commit(w) \/ Saved(w) \/ \E b \in Box : Invalidate(w, b)

Next ==
  \/ \E t \in Thread, b \in Box : Step(t, b) \/ Begin(t, b)
  \/ \E w \in Writer : Flush(w) \/ Writing(w)
  \/ \E b \in Box : Expire(b)

Spec == Init /\ [][Next]_vars

\* The inner load a loader has asked for.
AskedLoad(t, b) == (\E c \in Box : Asks(t, c, b)) /\ Begin(t, b)

\* Threads run: a load that has begun goes on, and a loader's statement
\* answers or raises.  Nobody has to load, to save or to wait for the TTL.
FairSpec == Spec /\ \A t \in Thread, b \in Box : WF_vars(Step(t, b) \/ AskedLoad(t, b))

-----------------------------------------------------------------------------
(* Properties *)

\* A save has been committed, and box b has not yet been told.
Untold(b) == \E w \in Writer : saving[w] = "committed" /\ b \in due[w]

Current(b) == held[b] \in {Missing, db} \/ Untold(b)

\* The boxes that load the database, and no other box.
Own == {b \in Box : Inner[b] = NoBox}

\* Once a committed save has been announced to a box, the box holds no value
\* computed before it: no load that began before the invalidation stores late
\* (authz_cache: a write of the setting invalidates at once; ttl_cache: the
\* generation keeps late writes away).
CachedIsCurrent == \A b \in Own : Current(b)

\* One thread at a time runs the loader of a box, also when its flight
\* outlives the TTL and any number of invalidations.
SingleFlight ==
  \A b \in Box, t, u \in Thread :
    pc[t][b] \in Flying /\ pc[u][b] \in Flying => t = u

\* Every load ends, by a value or an exception: no waiter is left with a
\* Future nobody resolves, no loader waits for its own flight.
LoadEnds == \A t \in Thread, b \in Box : pc[t][b] # "idle" ~> pc[t][b] = "idle"
=============================================================================
