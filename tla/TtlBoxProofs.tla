---------------------------- MODULE TtlBoxProofs ----------------------------
(***************************************************************************)
(* What holds of TtlBox for any number of threads, writers and boxes.      *)
(*                                                                         *)
(* A value on its way to a box may be stored while the generation it was   *)
(* read under is the box's.  It is then of the row's version, or a save    *)
(* was committed since and the box is Untold: the invalidation still to    *)
(* come counts the generation and keeps the value out.                     *)
(***************************************************************************)
EXTENDS TtlBox, TLAPS

\* A loader runs only in the thread of the flight.
LeaderFlies == \A t \in Thread, b \in Box : pc[t][b] \in Flying => flight[b] = t

\* No loader captured a generation to come.
SeenIsPast ==
  \A t \in Thread, b \in Box : seen[t][b] <= gen[b] /\ again[t][b] <= gen[b]

\* What a loader may still store is current, or the box is yet to be told.
LoadedIsCurrent ==
  \A t \in Thread, b \in Own :
    \/ val[t][b] = db
    \/ Untold(b)
    \/ /\ pc[t][b] = "loaded" => seen[t][b] < gen[b]
       /\ pc[t][b] = "store" => again[t][b] < gen[b] /\ seen[t][b] < gen[b]

CurrentInv == SeenIsPast /\ LoadedIsCurrent /\ CachedIsCurrent

-----------------------------------------------------------------------------
(* Types *)

\* Between its flush and its commit a save holds the lock of the row.
RowLocked ==
  /\ \A w \in Writer : saving[w] = "flushed" => db < MaxWrites
  /\ \A u, w \in Writer : saving[u] = "flushed" /\ saving[w] = "flushed" => u = w

TypeInv == TypeOK /\ RowLocked

\* A load moves to a known place.
LEMMA GotoTyped ==
  ASSUME TypeOK, NEW t \in Thread, NEW b \in Box, NEW where \in Pc, Goto(t, b, where)
  PROVE  pc' \in [Thread -> [Box -> Pc]]
BY DEF TypeOK, Goto

\* A version read is kept.
LEMMA KeepTyped ==
  ASSUME TypeOK, NEW t \in Thread, NEW b \in Box, NEW v \in Version, Keep(t, b, v)
  PROVE  val' \in [Thread -> [Box -> Version]]
BY DEF TypeOK, Keep

\* The end of loads keeps the types.
LEMMA EndTyped ==
  ASSUME TypeOK, NEW Who, NEW b \in Box, NEW where \in Pc, NEW v \in Version,
         End(Who, b, where, v)
  PROVE  /\ pc' \in [Thread -> [Box -> Pc]]
         /\ val' \in [Thread -> [Box -> Version]]
         /\ future' \in [Thread -> [Box -> Thread \cup {NoThread}]]
<1>1. "idle" \in Pc
  BY DEF Pc
<1>2. 0 \in Version
  BY BoundsAssumption DEF BoundsAssumption, Version
<1>3. pc' \in [Thread -> [Box -> Pc]]
  BY <1>1 DEF TypeOK, End
<1>4. val' \in [Thread -> [Box -> Version]]
  BY <1>2 DEF TypeOK, End
<1>5. future' \in [Thread -> [Box -> Thread \cup {NoThread}]]
  BY DEF TypeOK, End
<1> QED
  BY <1>3, <1>4, <1>5

\* A box holds a version or nothing.
LEMMA HeldVersion ==
  ASSUME TypeOK, NEW b \in Box, held[b] # Missing
  PROVE  held[b] \in Version
BY DEF TypeOK

\* The versions are naturals.
LEMMA VersionNat == Version \subseteq Nat /\ 0 \in Version /\ Missing \notin Version
BY BoundsAssumption DEF BoundsAssumption, Version, Missing

LEMMA InitTyped == Init => TypeInv
<1> SUFFICES ASSUME Init PROVE TypeInv
  OBVIOUS
<1>1. "idle" \in Pc
  BY DEF Pc
<1>2. TypeOK
  BY <1>1, VersionNat DEF Init, PerLoad, TypeOK
<1>3. RowLocked
  BY DEF Init, RowLocked
<1> QED
  BY <1>2, <1>3 DEF TypeInv

\* Saves and the TTL keep types and row lock.
LEMMA SaveTyped ==
  ASSUME TypeInv, NEW w \in Writer, Flush(w) \/ Writing(w)
  PROVE  TypeInv'
<1> USE DEF TypeInv
<1>1. CASE Flush(w)
  BY <1>1 DEF Flush, TypeOK, RowLocked, box, thread
<1>2. CASE Commit(w)
  <2>1. db < MaxWrites /\ db \in Nat
    BY <1>2, VersionNat DEF Commit, RowLocked, TypeOK
  <2>2. db' \in Version
    BY <1>2, <2>1, BoundsAssumption DEF BoundsAssumption, Commit, Version
  <2>3. TypeOK'
    BY <1>2, <2>2 DEF Commit, TypeOK, box, thread
  <2>4. \A u \in Writer : saving'[u] # "flushed"
    BY <1>2 DEF Commit, RowLocked, TypeOK
  <2> QED
    BY <2>3, <2>4 DEF RowLocked
<1>3. CASE Saved(w)
  BY <1>3 DEF Saved, TypeOK, RowLocked, box, thread
<1>4. CASE \E b \in Box : Invalidate(w, b)
  <2>1. PICK b \in Box : Invalidate(w, b)
    BY <1>4
  <2>2. gen' \in [Box -> Nat]
    BY <2>1 DEF Invalidate, TypeOK
  <2>3. held' \in [Box -> Version \cup {Missing}]
    BY <2>1 DEF Invalidate, TypeOK
  <2>4. due' \in [Writer -> SUBSET Box]
    BY <2>1 DEF Invalidate, TypeOK
  <2>5. TypeOK'
    BY <2>1, <2>2, <2>3, <2>4 DEF Invalidate, TypeOK, thread
  <2> QED
    BY <2>1, <2>5 DEF Invalidate, RowLocked
<1> QED
  BY <1>1, <1>2, <1>3, <1>4 DEF Writing

LEMMA StoreTyped ==
  ASSUME TypeOK, NEW t \in Thread, NEW b \in Box, NEW g, StoreIf(b, g, val[t][b])
  PROVE  held' \in [Box -> Version \cup {Missing}]
BY DEF TypeOK, StoreIf

LEMMA DropTyped ==
  ASSUME TypeOK, NEW t \in Thread, NEW b \in Box, Drop(t, b)
  PROVE  flight' \in [Box -> Thread \cup {NoThread}]
BY DEF TypeOK, Drop

LEMMA ForgetTyped ==
  ASSUME TypeOK, NEW t \in Thread, NEW b \in Box, Forget(t, b)
  PROVE  seen' \in [Thread -> [Box -> Nat]] /\ again' \in [Thread -> [Box -> Nat]]
BY DEF TypeOK, Forget

\* The steps of a load keep types and row lock.
LEMMA StepTyped ==
  ASSUME TypeInv, NEW t \in Thread, NEW b \in Box, Step(t, b)
  PROVE  TypeInv'
<1>0. /\ TypeOK /\ RowLocked
      /\ {"reread", "store", "loaded", "resolve", "failed", "inner", "raised"} \subseteq Pc
  BY DEF TypeInv, Pc, Flying
<1>1. UNCHANGED save
  BY DEF Step, Read, Reenter, Reread, StoreAgain, CommitLoad, LoadFails, Resolve, Reject
<1>2. RowLocked'
  BY <1>0, <1>1 DEF RowLocked, save
<1>3. val[t][b] \in Version /\ db \in Version
  BY <1>0 DEF TypeOK
<1>4. CASE Read(t, b)
  <2>1. pc' \in [Thread -> [Box -> Pc]]
    BY <1>0, <1>4, GotoTyped DEF Read
  <2>2. val' \in [Thread -> [Box -> Version]]
    BY <1>0, <1>3, <1>4, KeepTyped DEF Read, TypeOK
  <2> QED
    <3>1. /\ db' = db /\ saving' = saving /\ due' = due /\ held' = held /\ gen' = gen
          /\ flight' = flight /\ seen' = seen /\ again' = again /\ future' = future
      BY <1>4 DEF Read, save, box
    <3> QED
      BY <1>0, <1>2, <2>1, <2>2, <3>1 DEF TypeInv, TypeOK
<1>5. CASE Reenter(t, b)
  <2>1. pc' \in [Thread -> [Box -> Pc]]
    BY <1>0, <1>5, GotoTyped DEF Reenter
  <2>2. val' \in [Thread -> [Box -> Version]]
    BY <1>0, <1>3, <1>5, KeepTyped, HeldVersion DEF Reenter, TypeOK
  <2>3. again' \in [Thread -> [Box -> Nat]]
    <3>1. again' = again \/ again' = [again EXCEPT ![t][b] = gen[b]]
      BY <1>5 DEF Reenter
    <3>2. again \in [Thread -> [Box -> Nat]] /\ gen[b] \in Nat
      BY <1>0 DEF TypeOK
    <3>3. [again EXCEPT ![t][b] = gen[b]] \in [Thread -> [Box -> Nat]]
      BY <3>2
    <3> QED
      BY <3>1, <3>2, <3>3
  <2>4. /\ db' = db /\ saving' = saving /\ due' = due /\ held' = held /\ gen' = gen
        /\ flight' = flight /\ seen' = seen /\ future' = future
    BY <1>5 DEF Reenter, save, box
  <2> QED
    BY <1>0, <1>2, <2>1, <2>2, <2>3, <2>4 DEF TypeInv, TypeOK
<1>6. CASE Reread(t, b)
  <2>1. pc' \in [Thread -> [Box -> Pc]] /\ val' \in [Thread -> [Box -> Version]]
    BY <1>0, <1>3, <1>6, GotoTyped, KeepTyped DEF Reread
  <2> QED
    BY <1>0, <1>2, <1>6, <2>1 DEF Reread, TypeInv, TypeOK, save, box
<1>7. CASE StoreAgain(t, b)
  <2>1. pc' \in [Thread -> [Box -> Pc]] /\ held' \in [Box -> Version \cup {Missing}]
    BY <1>0, <1>7, GotoTyped, StoreTyped DEF StoreAgain
  <2> QED
    BY <1>0, <1>2, <1>7, <2>1 DEF StoreAgain, TypeInv, TypeOK, save
<1>8. CASE CommitLoad(t, b)
  <2>1. pc' \in [Thread -> [Box -> Pc]] /\ held' \in [Box -> Version \cup {Missing}]
    BY <1>0, <1>8, GotoTyped, StoreTyped DEF CommitLoad
  <2>2. /\ flight' \in [Box -> Thread \cup {NoThread}]
        /\ seen' \in [Thread -> [Box -> Nat]] /\ again' \in [Thread -> [Box -> Nat]]
    BY <1>0, <1>8, DropTyped, ForgetTyped DEF CommitLoad
  <2> QED
    BY <1>0, <1>2, <1>8, <2>1, <2>2 DEF CommitLoad, TypeInv, TypeOK, save
<1>9. CASE LoadFails(t, b)
  <2>1. pc' \in [Thread -> [Box -> Pc]] /\ val' \in [Thread -> [Box -> Version]]
    BY <1>0, <1>9, GotoTyped, KeepTyped, VersionNat DEF LoadFails
  <2>2. /\ flight' \in [Box -> Thread \cup {NoThread}]
        /\ seen' \in [Thread -> [Box -> Nat]] /\ again' \in [Thread -> [Box -> Nat]]
    BY <1>0, <1>9, DropTyped, ForgetTyped DEF LoadFails
  <2> QED
    BY <1>0, <1>2, <1>9, <2>1, <2>2 DEF LoadFails, TypeInv, TypeOK, save
<1>10. CASE Resolve(t, b) \/ Reject(t, b)
  <2>1. /\ pc' \in [Thread -> [Box -> Pc]]
        /\ val' \in [Thread -> [Box -> Version]]
        /\ future' \in [Thread -> [Box -> Thread \cup {NoThread}]]
    BY <1>0, <1>3, <1>10, EndTyped DEF Resolve, Reject
  <2> QED
    BY <1>0, <1>2, <1>10, <2>1 DEF Resolve, Reject, TypeInv, TypeOK, save, box
<1> QED
  BY <1>4, <1>5, <1>6, <1>7, <1>8, <1>9, <1>10 DEF Step

\* So do the beginnings of loads.
LEMMA BeginTyped ==
  ASSUME TypeInv, NEW t \in Thread, NEW b \in Box, Begin(t, b)
  PROVE  TypeInv'
<1>0. TypeOK /\ RowLocked /\ {"loaded", "lead", "wait"} \subseteq Pc
  BY DEF TypeInv, Pc, Flying
<1>1. UNCHANGED save
  BY DEF Begin, Hit, Lead, Wait
<1>2. RowLocked'
  BY <1>0, <1>1 DEF RowLocked, save
<1>3. CASE Hit(t, b)
  <2>1. /\ pc' \in [Thread -> [Box -> Pc]]
        /\ val' \in [Thread -> [Box -> Version]]
        /\ future' \in [Thread -> [Box -> Thread \cup {NoThread}]]
    BY <1>0, <1>3, EndTyped, HeldVersion DEF Hit
  <2> QED
    BY <1>0, <1>2, <1>3, <2>1 DEF Hit, TypeInv, TypeOK, save, box
<1>4. CASE Lead(t, b)
  <2>1. pc' \in [Thread -> [Box -> Pc]]
    BY <1>0, <1>4, GotoTyped DEF Lead
  <2>2. flight' \in [Box -> Thread \cup {NoThread}] /\ seen' \in [Thread -> [Box -> Nat]]
    BY <1>0, <1>4 DEF Lead, TypeOK
  <2> QED
    BY <1>0, <1>2, <1>4, <2>1, <2>2 DEF Lead, TypeInv, TypeOK, save
<1>5. CASE Wait(t, b)
  <2>1. pc' \in [Thread -> [Box -> Pc]]
    BY <1>0, <1>5, GotoTyped DEF Wait
  <2>2. future' \in [Thread -> [Box -> Thread \cup {NoThread}]]
    BY <1>0, <1>5 DEF Wait, TypeOK
  <2> QED
    BY <1>0, <1>2, <1>5, <2>1, <2>2 DEF Wait, TypeInv, TypeOK, save, box
<1> QED
  BY <1>3, <1>4, <1>5 DEF Begin

LEMMA ExpireTyped == TypeInv /\ (\E b \in Box : Expire(b)) => TypeInv'
<1> SUFFICES ASSUME TypeInv, NEW b \in Box, Expire(b) PROVE TypeInv'
  OBVIOUS
<1>1. held' \in [Box -> Version \cup {Missing}]
  BY DEF Expire, TypeInv, TypeOK
<1> QED
  BY <1>1 DEF Expire, TypeInv, TypeOK, RowLocked, save, thread

LEMMA NextTyped == TypeInv /\ [Next]_vars => TypeInv'
<1> SUFFICES ASSUME TypeInv, [Next]_vars PROVE TypeInv'
  OBVIOUS
<1>1. CASE UNCHANGED vars
  BY <1>1 DEF vars, save, box, thread, TypeInv, TypeOK, RowLocked
<1> QED
  BY <1>1, StepTyped, BeginTyped, SaveTyped, ExpireTyped DEF Next

\* Types, and saves of the row that never overlap between flush and commit.
THEOREM TypeCorrect == Spec => []TypeOK
<1>1. Init => TypeInv
  BY InitTyped
<1>2. TypeInv /\ [Next]_vars => TypeInv'
  BY NextTyped
<1>3. TypeInv => TypeOK
  BY DEF TypeInv
<1> QED
  BY <1>1, <1>2, <1>3, PTL DEF Spec

-----------------------------------------------------------------------------
(* One flight *)

\* Drop frees the box only of its own flight, and t's loader is over.
LEMMA LeaderStep ==
  ASSUME TypeOK, LeaderFlies, NEW t \in Thread, NEW b \in Box,
         Step(t, b) \/ Begin(t, b)
  PROVE  LeaderFlies'
<1> SUFFICES ASSUME NEW u \in Thread, NEW c \in Box, pc'[u][c] \in Flying
             PROVE  flight'[c] = u
  BY DEF LeaderFlies
<1>0. /\ pc[u][c] \in Flying => flight[c] = u
      /\ pc \in [Thread -> [Box -> Pc]]
      /\ flight \in [Box -> Thread \cup {NoThread}]
  BY DEF LeaderFlies, TypeOK
<1>1. CASE Read(t, b) \/ Reenter(t, b) \/ Reread(t, b) \/ StoreAgain(t, b)
  <2>1. flight' = flight
    BY <1>1 DEF Read, Reenter, Reread, StoreAgain, box
  <2>2. pc[t][b] \in Flying
    BY <1>1 DEF Read, Reenter, Reread, StoreAgain, Flying
  <2>3. \E where : pc' = [pc EXCEPT ![t][b] = where]
    BY <1>1 DEF Read, Reenter, Reread, StoreAgain, Goto
  <2>4. CASE u = t /\ c = b
    BY <1>0, <2>1, <2>2, <2>4
  <2>5. CASE u # t \/ c # b
    BY <1>0, <2>1, <2>3, <2>5
  <2> QED
    BY <2>4, <2>5
<1>2. CASE CommitLoad(t, b) \/ LoadFails(t, b)
  <2>1. PICK where \in {"resolve", "failed"} : pc' = [pc EXCEPT ![t][b] = where]
    BY <1>2 DEF CommitLoad, LoadFails, Goto
  <2>2. flight' = [flight EXCEPT ![b] = IF @ = t THEN NoThread ELSE @]
    BY <1>2 DEF CommitLoad, LoadFails, Drop
  <2>3. u # t \/ c # b
    BY <1>0, <2>1 DEF Flying
  <2>4. pc'[u][c] = pc[u][c]
    BY <1>0, <2>1, <2>3
  <2>5. flight[c] = u
    BY <1>0, <2>4
  <2> QED
    BY <1>0, <2>2, <2>3, <2>5
<1>3. CASE Hit(t, b) \/ Resolve(t, b) \/ Reject(t, b)
  <2>1. PICK Who, where, v : End(Who, b, where, v)
    <3>1. CASE Hit(t, b)
      BY <3>1 DEF Hit
    <3>2. CASE Resolve(t, b)
      BY <3>2 DEF Resolve
    <3>3. CASE Reject(t, b)
      BY <3>3 DEF Reject
    <3> QED
      BY <1>3, <3>1, <3>2, <3>3
  <2>2. flight' = flight
    BY <1>3 DEF Hit, Resolve, Reject, box
  <2>3. pc[u][c] \in Flying
    <3>1. pc'[u][c] = IF u \in Who /\ c = b THEN "idle"
                      ELSE IF u \in Who /\ Asks(u, c, b) THEN where
                      ELSE pc[u][c]
      BY <2>1 DEF End
    <3>2. "idle" \notin Flying /\ "inner" \in Flying
      BY DEF Flying
    <3> QED
      BY <3>1, <3>2 DEF Asks
  <2> QED
    BY <1>0, <2>2, <2>3
<1>4. CASE Lead(t, b)
  <2>1. /\ flight[b] = NoThread
        /\ flight' = [flight EXCEPT ![b] = t]
        /\ pc' = [pc EXCEPT ![t][b] = "lead"]
    BY <1>4 DEF Lead, Goto
  <2>2. CASE u = t /\ c = b
    BY <1>0, <2>1, <2>2
  <2>3. CASE u # t \/ c # b
    <3>1. pc'[u][c] = pc[u][c]
      BY <1>0, <2>1, <2>3
    <3>2. flight[c] = u /\ u # NoThread
      BY <1>0, <3>1, BoundsAssumption DEF BoundsAssumption
    <3> QED
      BY <1>0, <2>1, <3>2
  <2> QED
    BY <2>2, <2>3
<1>5. CASE Wait(t, b)
  <2>1. flight' = flight /\ pc' = [pc EXCEPT ![t][b] = "wait"]
    BY <1>5 DEF Wait, Goto, box
  <2>2. u # t \/ c # b
    BY <1>0, <2>1 DEF Flying
  <2> QED
    BY <1>0, <2>1, <2>2
<1> QED
  BY <1>1, <1>2, <1>3, <1>4, <1>5 DEF Step, Begin

LEMMA LeaderNext == TypeInv /\ LeaderFlies /\ [Next]_vars => LeaderFlies'
<1> SUFFICES ASSUME TypeInv, LeaderFlies, [Next]_vars PROVE LeaderFlies'
  OBVIOUS
<1>1. CASE \E t \in Thread, b \in Box : Step(t, b) \/ Begin(t, b)
  BY <1>1, LeaderStep DEF TypeInv
<1>2. CASE \/ \E w \in Writer : Flush(w) \/ Writing(w)
           \/ \E b \in Box : Expire(b)
           \/ UNCHANGED vars
  <2>1. pc' = pc /\ flight' = flight
    BY <1>2 DEF Flush, Writing, Commit, Saved, Invalidate, Expire, vars, box, thread
  <2> QED
    BY <2>1 DEF LeaderFlies
<1> QED
  BY <1>1, <1>2 DEF Next

\* One thread at a time runs the loader of a box, for any boxes, threads and
\* saves, whatever expires or is invalidated meanwhile.
THEOREM SingleFlightHolds == Spec => []SingleFlight
<1>1. Init => TypeInv /\ LeaderFlies
  BY InitTyped DEF Init, PerLoad, LeaderFlies, Flying
<1>2. TypeInv /\ LeaderFlies /\ [Next]_vars => TypeInv' /\ LeaderFlies'
  BY NextTyped, LeaderNext
<1>3. LeaderFlies => SingleFlight
  BY DEF LeaderFlies, SingleFlight
<1> QED
  BY <1>1, <1>2, <1>3, PTL DEF Spec

-----------------------------------------------------------------------------
(* Values of before an announced save *)

CurrentFacts == TypeOK /\ CurrentInv

\* A box told by a save has counted it.
LEMMA InvalidateCurrent ==
  ASSUME CurrentFacts, NEW w \in Writer, NEW b \in Box, Invalidate(w, b)
  PROVE  CurrentInv'
<1>0. /\ gen \in [Box -> Nat] /\ held \in [Box -> Version \cup {Missing}]
      /\ due \in [Writer -> SUBSET Box]
      /\ seen \in [Thread -> [Box -> Nat]] /\ again \in [Thread -> [Box -> Nat]]
      /\ db \in Nat
  BY VersionNat DEF CurrentFacts, TypeOK
<1>1. /\ gen' = [gen EXCEPT ![b] = @ + 1]
      /\ held' = [held EXCEPT ![b] = Missing]
      /\ due' = [due EXCEPT ![w] = @ \ {b}]
      /\ db' = db /\ saving' = saving /\ pc' = pc /\ seen' = seen
      /\ again' = again /\ val' = val
  BY DEF Invalidate, thread
<1>2. \A c \in Box : c # b => Untold(c)' = Untold(c)
  BY <1>0, <1>1 DEF Untold
<1>3. SeenIsPast'
  <2> SUFFICES ASSUME NEW t \in Thread, NEW c \in Box
               PROVE  seen[t][c] <= gen'[c] /\ again[t][c] <= gen'[c]
    BY <1>1 DEF SeenIsPast
  <2>1. seen[t][c] <= gen[c] /\ again[t][c] <= gen[c]
    BY DEF CurrentFacts, CurrentInv, SeenIsPast
  <2>2. gen[c] <= gen'[c]
    BY <1>0, <1>1
  <2>3. gen[c] \in Nat /\ gen'[c] \in Nat /\ seen[t][c] \in Nat /\ again[t][c] \in Nat
    BY <1>0, <1>1
  <2> QED
    BY <2>1, <2>2, <2>3
<1>4. LoadedIsCurrent'
  <2> SUFFICES ASSUME NEW t \in Thread, NEW c \in Own
               PROVE  \/ val[t][c] = db
                      \/ Untold(c)'
                      \/ /\ pc[t][c] = "loaded" => seen[t][c] < gen'[c]
                         /\ pc[t][c] = "store" => again[t][c] < gen'[c] /\ seen[t][c] < gen'[c]
    BY <1>1 DEF LoadedIsCurrent
  <2>0. c \in Box
    BY DEF Own
  <2>1. CASE c = b
    <3>1. seen[t][b] <= gen[b] /\ again[t][b] <= gen[b]
      BY DEF CurrentFacts, CurrentInv, SeenIsPast
    <3>2. gen'[b] = gen[b] + 1
      BY <1>0, <1>1
    <3>3. gen[b] \in Nat /\ seen[t][b] \in Nat /\ again[t][b] \in Nat
      BY <1>0
    <3>4. seen[t][b] < gen'[b] /\ again[t][b] < gen'[b]
      BY <3>1, <3>2, <3>3
    <3> QED
      BY <2>1, <3>4
  <2>2. CASE c # b
    <3>1. gen'[c] = gen[c]
      BY <1>0, <1>1, <2>0, <2>2
    <3> QED
      BY <1>2, <2>0, <2>2, <3>1 DEF CurrentFacts, CurrentInv, LoadedIsCurrent
  <2> QED
    BY <2>1, <2>2
<1>5. CachedIsCurrent'
  <2> SUFFICES ASSUME NEW c \in Own
               PROVE  held'[c] \in {Missing, db} \/ Untold(c)'
    BY <1>1 DEF CachedIsCurrent, Current
  <2>0. c \in Box
    BY DEF Own
  <2>1. CASE c = b
    BY <1>0, <1>1, <2>1
  <2>2. CASE c # b
    BY <1>0, <1>1, <1>2, <2>0, <2>2 DEF CurrentFacts, CurrentInv, CachedIsCurrent, Current
  <2> QED
    BY <2>1, <2>2
<1> QED
  BY <1>3, <1>4, <1>5 DEF CurrentInv

\* A commit leaves every box untold.
LEMMA SaveCurrent ==
  ASSUME CurrentFacts, NEW w \in Writer, Flush(w) \/ Writing(w)
  PROVE  CurrentInv'
<1>0. saving \in [Writer -> {"idle", "flushed", "committed"}] /\ due \in [Writer -> SUBSET Box]
  BY DEF CurrentFacts, TypeOK
<1>1. CASE Flush(w)
  <2>1. \A b \in Box : Untold(b)' = Untold(b)
    BY <1>0, <1>1 DEF Flush, Untold
  <2> QED
    BY <1>1, <2>1 DEF Flush, CurrentFacts, CurrentInv, SeenIsPast, LoadedIsCurrent,
                     CachedIsCurrent, Current, Own, box, thread
<1>2. CASE Commit(w)
  <2>1. \A b \in Box : Untold(b)'
    BY <1>0, <1>2 DEF Commit, Untold
  <2> QED
    BY <1>2, <2>1 DEF Commit, CurrentFacts, CurrentInv, SeenIsPast, LoadedIsCurrent,
                     CachedIsCurrent, Current, Own, box, thread
<1>3. CASE Saved(w)
  <2>1. \A b \in Box : Untold(b)' = Untold(b)
    BY <1>0, <1>3 DEF Saved, Untold
  <2> QED
    BY <1>3, <2>1 DEF Saved, CurrentFacts, CurrentInv, SeenIsPast, LoadedIsCurrent,
                     CachedIsCurrent, Current, Own, box, thread
<1>4. CASE \E b \in Box : Invalidate(w, b)
  BY <1>4, InvalidateCurrent
<1> QED
  BY <1>1, <1>2, <1>3, <1>4 DEF Writing

\* What may be said of the load of b by u: it stores nothing old.
Sound(u, b) ==
  \/ val[u][b] = db
  \/ Untold(b)
  \/ /\ pc[u][b] = "loaded" => seen[u][b] < gen[b]
     /\ pc[u][b] = "store" => again[u][b] < gen[b] /\ seen[u][b] < gen[b]

\* A step of a load invalidates nothing: it is enough that what it stores and
\* what it will store are sound.
LEMMA LoadStep ==
  ASSUME CurrentFacts, UNCHANGED <<save, gen>>,
         \A u \in Thread, c \in Box : seen'[u][c] <= gen[c] /\ again'[u][c] <= gen[c],
         \A u \in Thread, c \in Own : Sound(u, c) => Sound(u, c)',
         \A c \in Own : held'[c] \in {Missing, db, held[c]} \/ Untold(c)
  PROVE  CurrentInv'
<1>1. \A c \in Own : Untold(c)' = Untold(c)
  BY DEF Untold, save
<1>2. SeenIsPast'
  BY DEF SeenIsPast
<1>3. LoadedIsCurrent'
  BY DEF CurrentFacts, CurrentInv, LoadedIsCurrent, Sound
<1>4. CachedIsCurrent'
  BY <1>1 DEF CurrentFacts, CurrentInv, CachedIsCurrent, Current, Own, save
<1> QED
  BY <1>2, <1>3, <1>4 DEF CurrentInv

\* A load that is neither about to store nor was: nothing to say of it.
LEMMA IdleIsSound ==
  ASSUME NEW u, NEW c, pc'[u][c] \notin {"loaded", "store"}
  PROVE  Sound(u, c)'
BY DEF Sound

\* A load left alone stays sound.
LEMMA SameIsSound ==
  ASSUME UNCHANGED <<save, gen>>, NEW u, NEW c, Sound(u, c),
         pc'[u][c] = pc[u][c], val'[u][c] = val[u][c],
         seen'[u][c] = seen[u][c], again'[u][c] = again[u][c]
  PROVE  Sound(u, c)'
BY DEF Sound, Untold, save

\* A value just read is of now.
LEMMA FreshIsSound ==
  ASSUME NEW u, NEW c, val'[u][c] = db'
  PROVE  Sound(u, c)'
BY DEF Sound

\* A box that loads no other one asks for none.
LEMMA OwnAsksNobody ==
  ASSUME NEW b \in Box, NEW c \in Own
  PROVE  \A t \in Thread : ~Asks(t, c, b)
BY BoundsAssumption DEF BoundsAssumption, Own, Asks

\* The end of loads.
LEMMA EndCurrent ==
  ASSUME CurrentFacts, NEW Who, NEW b \in Box, NEW where, NEW v,
         End(Who, b, where, v), UNCHANGED <<save, box, seen, again>>
  PROVE  CurrentInv'
<1>1. \A u \in Thread, c \in Own :
        /\ pc'[u][c] = IF u \in Who /\ c = b THEN "idle" ELSE pc[u][c]
        /\ val'[u][c] = IF u \in Who /\ c = b THEN 0 ELSE val[u][c]
  BY OwnAsksNobody DEF End, Own
<1>2. ASSUME NEW u \in Thread, NEW c \in Own, Sound(u, c) PROVE Sound(u, c)'
  <2>1. CASE u \in Who /\ c = b
    BY <1>1, <2>1, IdleIsSound
  <2>2. CASE ~(u \in Who /\ c = b)
    BY <1>1, <1>2, <2>2, SameIsSound DEF box
  <2> QED
    BY <2>1, <2>2
<1>3. \A u \in Thread, c \in Box : seen'[u][c] <= gen[c] /\ again'[u][c] <= gen[c]
  BY DEF CurrentFacts, CurrentInv, SeenIsPast
<1>4. \A c \in Own : held'[c] = held[c]
  BY DEF box
<1> QED
  BY <1>2, <1>3, <1>4, LoadStep DEF box

\* A step of the load of b by t that leaves all other loads alone.
LEMMA OneLoad ==
  ASSUME CurrentFacts, UNCHANGED <<save, gen>>, NEW t \in Thread, NEW b \in Box,
         \A u \in Thread, c \in Box : (u # t \/ c # b) =>
           /\ pc'[u][c] = pc[u][c] /\ val'[u][c] = val[u][c]
           /\ seen'[u][c] = seen[u][c] /\ again'[u][c] = again[u][c],
         seen'[t][b] <= gen[b], again'[t][b] <= gen[b],
         b \in Own => Sound(t, b)',
         \A c \in Own : held'[c] \in {Missing, db, held[c]} \/ Untold(c)
  PROVE  CurrentInv'
<1>1. ASSUME NEW u \in Thread, NEW c \in Own, Sound(u, c) PROVE Sound(u, c)'
  BY <1>1, SameIsSound DEF Own
<1>2. \A u \in Thread, c \in Box : seen'[u][c] <= gen[c] /\ again'[u][c] <= gen[c]
  <2> SUFFICES ASSUME NEW u \in Thread, NEW c \in Box
               PROVE  seen'[u][c] <= gen[c] /\ again'[u][c] <= gen[c]
    OBVIOUS
  <2>1. CASE u = t /\ c = b
    BY <2>1
  <2>2. CASE u # t \/ c # b
    BY <2>2 DEF CurrentFacts, CurrentInv, SeenIsPast
  <2> QED
    BY <2>1, <2>2
<1> QED
  BY <1>1, <1>2, LoadStep

\* Steps of a loader, from its flight to the end of its value.
LEMMA StepCurrent ==
  ASSUME CurrentFacts, NEW t \in Thread, NEW b \in Box, Step(t, b) \/ Begin(t, b)
  PROVE  CurrentInv'
<1>0. /\ pc \in [Thread -> [Box -> Pc]] /\ val \in [Thread -> [Box -> Version]]
      /\ seen \in [Thread -> [Box -> Nat]] /\ again \in [Thread -> [Box -> Nat]]
      /\ gen \in [Box -> Nat] /\ held \in [Box -> Version \cup {Missing}]
      /\ 0 <= gen[b] /\ gen[b] <= gen[b]
      /\ seen[t][b] <= gen[b] /\ again[t][b] <= gen[b]
  BY DEF CurrentFacts, CurrentInv, TypeOK, SeenIsPast
<1>1. CASE Read(t, b)
  <2>1. CASE Inner[b] = NoBox
    <3>1. /\ pc' = [pc EXCEPT ![t][b] = "loaded"] /\ val' = [val EXCEPT ![t][b] = db]
          /\ UNCHANGED <<save, held, gen, seen, again>>
      BY <1>1, <2>1 DEF Read, Goto, Keep, box
    <3>2. Sound(t, b)'
      BY <1>0, <3>1, FreshIsSound DEF save
    <3> QED
      BY <1>0, <3>1, <3>2, OneLoad
  <2>2. CASE Inner[b] # NoBox
    <3>1. /\ pc' = [pc EXCEPT ![t][b] = "inner"] /\ b \notin Own
          /\ UNCHANGED <<save, held, gen, seen, again, val>>
      BY <1>1, <2>2 DEF Read, Goto, box, Own
    <3> QED
      BY <1>0, <3>1, OneLoad
  <2> QED
    BY <2>1, <2>2
<1>2. CASE Reenter(t, b)
  <2>1. CASE held[b] # Missing
    <3>1. /\ pc' = [pc EXCEPT ![t][b] = "loaded"] /\ val' = [val EXCEPT ![t][b] = held[b]]
          /\ UNCHANGED <<save, held, gen, seen, again>>
      BY <1>2, <2>1 DEF Reenter, Goto, Keep, box
    <3>2. held[b] = db \/ Untold(b)
      BY <1>2, <2>1 DEF Reenter, Own, CurrentFacts, CurrentInv, CachedIsCurrent, Current
    <3>3. Sound(t, b)'
      BY <1>0, <3>1, <3>2 DEF Sound, Untold, save
    <3> QED
      BY <1>0, <3>1, <3>3, OneLoad
  <2>2. CASE held[b] = Missing
    <3>1. /\ pc' = [pc EXCEPT ![t][b] = "reread"] /\ again' = [again EXCEPT ![t][b] = gen[b]]
          /\ UNCHANGED <<save, held, gen, seen, val>>
      BY <1>2, <2>2 DEF Reenter, Goto, box
    <3>2. Sound(t, b)'
      BY <1>0, <3>1, IdleIsSound
    <3> QED
      BY <1>0, <3>1, <3>2, OneLoad
  <2> QED
    BY <2>1, <2>2
<1>3. CASE Reread(t, b)
  <2>1. /\ pc' = [pc EXCEPT ![t][b] = "store"] /\ val' = [val EXCEPT ![t][b] = db]
        /\ UNCHANGED <<save, held, gen, seen, again>>
    BY <1>3 DEF Reread, Goto, Keep, box
  <2>2. Sound(t, b)'
    BY <1>0, <2>1, FreshIsSound DEF save
  <2> QED
    BY <1>0, <2>1, <2>2, OneLoad
<1>4. CASE StoreAgain(t, b)
  <2>1. /\ pc[t][b] = "store" /\ pc' = [pc EXCEPT ![t][b] = "loaded"]
        /\ held' = [held EXCEPT ![b] = IF again[t][b] = gen[b] THEN val[t][b] ELSE @]
        /\ UNCHANGED <<save, gen, seen, again, val>>
    BY <1>4 DEF StoreAgain, StoreIf, Goto
  <2>2. b \in Own => Sound(t, b)
    BY DEF CurrentFacts, CurrentInv, LoadedIsCurrent, Sound
  <2>3. b \in Own => Sound(t, b)'
    BY <1>0, <2>1, <2>2 DEF Sound, Untold, save
  <2>4. b \in Own /\ again[t][b] = gen[b] => val[t][b] = db \/ Untold(b)
    BY <1>0, <2>1, <2>2 DEF Sound
  <2>5. \A c \in Own : held'[c] \in {Missing, db, held[c]} \/ Untold(c)
    BY <1>0, <2>1, <2>4 DEF Own
  <2> QED
    BY <1>0, <2>1, <2>3, <2>5, OneLoad
<1>5. CASE CommitLoad(t, b)
  <2>1. /\ pc[t][b] = "loaded" /\ pc' = [pc EXCEPT ![t][b] = "resolve"]
        /\ held' = [held EXCEPT ![b] = IF seen[t][b] = gen[b] THEN val[t][b] ELSE @]
        /\ seen' = [seen EXCEPT ![t][b] = 0] /\ again' = [again EXCEPT ![t][b] = 0]
        /\ UNCHANGED <<save, gen, val>>
    BY <1>5 DEF CommitLoad, StoreIf, Goto, Forget
  <2>2. b \in Own => Sound(t, b)
    BY DEF CurrentFacts, CurrentInv, LoadedIsCurrent, Sound
  <2>3. Sound(t, b)'
    BY <1>0, <2>1, IdleIsSound
  <2>4. b \in Own /\ seen[t][b] = gen[b] => val[t][b] = db \/ Untold(b)
    BY <1>0, <2>1, <2>2 DEF Sound
  <2>5. \A c \in Own : held'[c] \in {Missing, db, held[c]} \/ Untold(c)
    BY <1>0, <2>1, <2>4 DEF Own
  <2> QED
    BY <1>0, <2>1, <2>3, <2>5, OneLoad
<1>6. CASE LoadFails(t, b)
  <2>1. /\ pc' = [pc EXCEPT ![t][b] = "failed"] /\ val' = [val EXCEPT ![t][b] = 0]
        /\ seen' = [seen EXCEPT ![t][b] = 0] /\ again' = [again EXCEPT ![t][b] = 0]
        /\ UNCHANGED <<save, held, gen>>
    BY <1>6 DEF LoadFails, Goto, Forget, Keep
  <2>2. Sound(t, b)'
    BY <1>0, <2>1, IdleIsSound
  <2> QED
    BY <1>0, <2>1, <2>2, OneLoad
<1>7. CASE Lead(t, b)
  <2>1. /\ pc' = [pc EXCEPT ![t][b] = "lead"] /\ seen' = [seen EXCEPT ![t][b] = gen[b]]
        /\ UNCHANGED <<save, held, gen, again, val>>
    BY <1>7 DEF Lead, Goto
  <2>2. Sound(t, b)'
    BY <1>0, <2>1, IdleIsSound
  <2> QED
    BY <1>0, <2>1, <2>2, OneLoad
<1>8. CASE Wait(t, b)
  <2>1. /\ pc' = [pc EXCEPT ![t][b] = "wait"]
        /\ UNCHANGED <<save, held, gen, seen, again, val>>
    BY <1>8 DEF Wait, Goto, box
  <2>2. Sound(t, b)'
    BY <1>0, <2>1, IdleIsSound
  <2> QED
    BY <1>0, <2>1, <2>2, OneLoad
<1>9. CASE Hit(t, b)
  BY <1>9, EndCurrent DEF Hit
<1>10. CASE Resolve(t, b)
  BY <1>10, EndCurrent DEF Resolve
<1>11. CASE Reject(t, b)
  BY <1>11, EndCurrent DEF Reject
<1> QED
  BY <1>1, <1>2, <1>3, <1>4, <1>5, <1>6, <1>7, <1>8, <1>9, <1>10, <1>11 DEF Step, Begin

LEMMA ExpireCurrent ==
  ASSUME CurrentFacts, NEW b \in Box, Expire(b) PROVE CurrentInv'
<1>1. /\ held' = [held EXCEPT ![b] = Missing] /\ held \in [Box -> Version \cup {Missing}]
      /\ UNCHANGED <<save, gen, pc, seen, again, val>>
  BY DEF Expire, CurrentFacts, TypeOK, thread
<1>2. \A u \in Thread, c \in Box : seen'[u][c] <= gen[c] /\ again'[u][c] <= gen[c]
  BY <1>1 DEF CurrentFacts, CurrentInv, SeenIsPast
<1>3. \A u \in Thread, c \in Own : Sound(u, c) => Sound(u, c)'
  BY <1>1 DEF Sound, Untold, save
<1>4. \A c \in Own : held'[c] \in {Missing, db, held[c]} \/ Untold(c)
  BY <1>1 DEF Own
<1> QED
  BY <1>1, <1>2, <1>3, <1>4, LoadStep

LEMMA NextCurrent == TypeOK /\ CurrentInv /\ [Next]_vars => CurrentInv'
<1> SUFFICES ASSUME CurrentFacts, [Next]_vars PROVE CurrentInv'
  BY DEF CurrentFacts
<1>1. CASE UNCHANGED vars
  BY <1>1 DEF vars, save, box, thread, CurrentFacts, CurrentInv, SeenIsPast,
              LoadedIsCurrent, CachedIsCurrent, Current, Own, Untold
<1> QED
  BY <1>1, SaveCurrent, StepCurrent, ExpireCurrent DEF Next

\* For any number of threads, saves and boxes: once a committed save is announced,
\* no box that loads the database holds anything computed before it.
THEOREM CachedStaysCurrent == Spec => []CachedIsCurrent
<1>1. Init => TypeInv /\ CurrentInv
  <2>1. ASSUME Init PROVE CurrentInv
    BY <2>1 DEF Init, PerLoad, CurrentInv, SeenIsPast, LoadedIsCurrent, CachedIsCurrent,
                Current, Own
  <2> QED
    BY <2>1, InitTyped
<1>2. TypeInv /\ CurrentInv /\ [Next]_vars => TypeInv' /\ CurrentInv'
  BY NextTyped, NextCurrent DEF TypeInv
<1>3. CurrentInv => CachedIsCurrent
  BY DEF CurrentInv
<1> QED
  BY <1>1, <1>2, <1>3, PTL DEF Spec
=============================================================================
