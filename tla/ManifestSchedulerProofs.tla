----------------------- MODULE ManifestSchedulerProofs -----------------------
(* Proofs about ManifestScheduler, for any number of threads and calls. *)
EXTENDS ManifestScheduler, TLAPS

-----------------------------------------------------------------------------
(* Type correctness *)

LEMMA InitTypeOK == Init => TypeOK
<1> SUFFICES ASSUME Init PROVE TypeOK
  OBVIOUS
<1>1. AttemptsLeft
  BY AttemptsAssumption DEF AttemptsAssumption, Init, AttemptsLeft
<1>2. calls \in 0 .. MaxCalls /\ failures \in 0 .. MaxFailures
  BY BoundsAssumption DEF BoundsAssumption, Init
<1>3. pc \in [Thread -> Pc] /\ tries \in [Thread -> 0 .. Attempts]
  BY AttemptsAssumption DEF AttemptsAssumption, Init, Pc
<1>4. force \in [Thread -> BOOLEAN] /\ defer \in [Thread -> BOOLEAN] /\ owed \in SUBSET BOOLEAN
  BY DEF Init
<1> QED BY <1>1, <1>2, <1>3, <1>4 DEF Init, TypeOK

LEMMA SetTyped ==
  ASSUME NEW S, NEW f \in [Thread -> S], NEW t \in Thread, NEW v \in S
  PROVE  Set(f, t, v) \in [Thread -> S]
BY DEF Set

\* The guarded flags stay Boolean.
FlagsTyped ==
  running \in BOOLEAN /\ pending \in BOOLEAN /\ pendingForce \in BOOLEAN /\ pendingDefer \in BOOLEAN

LEMMA TakeTyped ==
  ASSUME FlagsTyped, TakePending PROVE FlagsTyped'
BY DEF FlagsTyped, TakePending

LEMMA CarryTyped ==
  ASSUME TypeOK, NEW t \in Thread, NEW f \in BOOLEAN, NEW d \in BOOLEAN, Carry(t, f, d)
  PROVE  force' \in [Thread -> BOOLEAN] /\ defer' \in [Thread -> BOOLEAN]
BY SetTyped DEF Carry, TypeOK

LEMMA BeginTyped ==
  ASSUME TypeOK, NEW t \in Thread, NEW f \in BOOLEAN, NEW d \in BOOLEAN, Begin(t, f, d)
  PROVE  /\ FlagsTyped'
         /\ pc' \in [Thread -> Pc]
         /\ force' \in [Thread -> BOOLEAN]
         /\ defer' \in [Thread -> BOOLEAN]
         /\ tries' \in [Thread -> 0 .. Attempts]
         /\ AttemptsLeft'
<1>1. CASE running
  <2>1. FlagsTyped'
    BY <1>1 DEF Begin, Merge, FlagsTyped, TypeOK
  <2>2. pc' \in [Thread -> Pc]
    <3>1. "free" \in Pc
      BY DEF Pc
    <3>2. pc' = Set(pc, t, "free")
      BY <1>1 DEF Begin, Goto
    <3> QED BY <3>1, <3>2, SetTyped DEF TypeOK
  <2>3. AttemptsLeft'
    BY <1>1 DEF Begin, Goto, Set, TypeOK, AttemptsLeft
  <2>4. force' = force /\ defer' = defer /\ tries' = tries
    BY <1>1 DEF Begin
  <2>5. /\ force' \in [Thread -> BOOLEAN]
        /\ defer' \in [Thread -> BOOLEAN]
        /\ tries' \in [Thread -> 0 .. Attempts]
    BY <2>4 DEF TypeOK
  <2> QED BY <2>1, <2>2, <2>3, <2>5
<1>2. CASE ~running
  <2>1. FlagsTyped'
    BY <1>2 DEF Begin, FlagsTyped, TypeOK
  <2>2. pc' \in [Thread -> Pc] /\ tries' \in [Thread -> 0 .. Attempts]
    <3>1. "spawn" \in Pc /\ 0 \in 0 .. Attempts
      BY AttemptsAssumption DEF AttemptsAssumption, Pc
    <3>2. pc' = Set(pc, t, "spawn") /\ tries' = Set(tries, t, 0)
      BY <1>2 DEF Begin, Goto
    <3> QED BY <3>1, <3>2, SetTyped DEF TypeOK
  <2>3. force' \in [Thread -> BOOLEAN] /\ defer' \in [Thread -> BOOLEAN]
    <3>1. Carry(t, f, d)
      BY <1>2 DEF Begin
    <3> QED BY <3>1, CarryTyped
  <2>4. AttemptsLeft'
    BY <1>2, AttemptsAssumption DEF AttemptsAssumption, Begin, Goto, Set, TypeOK, AttemptsLeft
  <2> QED BY <2>1, <2>2, <2>3, <2>4
<1> QED BY <1>1, <1>2

LEMMA ServeTyped ==
  ASSUME owed \in SUBSET BOOLEAN, NEW f, Serve(f) PROVE owed' \in SUBSET BOOLEAN
BY DEF Serve

LEMMA StepTypeOK == TypeOK /\ [Next]_vars => TypeOK'
<1> SUFFICES ASSUME TypeOK, [Next]_vars PROVE TypeOK'
  OBVIOUS
<1> USE BoundsAssumption DEF BoundsAssumption, guarded, thread, history
<1>0. FlagsTyped /\ pendingForce \in BOOLEAN /\ pendingDefer \in BOOLEAN
  BY DEF FlagsTyped, TypeOK
<1>1. ASSUME NEW t \in Thread, NEW f \in BOOLEAN, Schedule(t, f) PROVE TypeOK'
  <2>1. calls' \in 0 .. MaxCalls /\ owed' \in SUBSET BOOLEAN
    BY <1>1 DEF Schedule, TypeOK
  <2>2. Begin(t, f, TRUE) /\ TRUE \in BOOLEAN
    BY <1>1 DEF Schedule
  <2> QED BY <1>1, <2>1, <2>2, BeginTyped DEF Schedule, FlagsTyped, TypeOK
<1>2. ASSUME NEW t \in Thread, NEW u \in Thread, StartWorker(t, u) PROVE TypeOK'
  <2>1. force[t] \in BOOLEAN /\ defer[t] \in BOOLEAN
    BY DEF TypeOK
  <2>2. pc' \in [Thread -> Pc] /\ AttemptsLeft'
    BY <1>2 DEF StartWorker, TypeOK, AttemptsLeft, Pc
  <2> QED BY <1>2, <2>1, <2>2, CarryTyped, ServeTyped DEF StartWorker, TypeOK
<1>3. ASSUME NEW t \in Thread, StartFails(t) PROVE TypeOK'
  BY <1>3, AttemptsAssumption DEF AttemptsAssumption, StartFails, Goto, Set, TypeOK, AttemptsLeft, Pc
<1>4. ASSUME NEW t \in Thread, Retake(t) PROVE TypeOK'
  <2>1. pc' \in [Thread -> Pc] /\ AttemptsLeft'
    BY <1>4, AttemptsAssumption DEF AttemptsAssumption, Retake, Goto, Set, TypeOK, AttemptsLeft, Pc
  <2> QED BY <1>0, <1>4, <2>1, CarryTyped, TakeTyped DEF Retake, FlagsTyped, TypeOK
<1>5. ASSUME NEW t \in Thread, MarkStopped(t) PROVE TypeOK'
  BY <1>5 DEF MarkStopped, Goto, Set, TypeOK, AttemptsLeft, Pc
<1>6. ASSUME NEW t \in Thread, RunEnds(t) PROVE TypeOK'
  BY <1>6 DEF RunEnds, Goto, Set, TypeOK, AttemptsLeft, Pc
<1>7. ASSUME NEW t \in Thread, Defer(t) PROVE TypeOK'
  BY <1>7 DEF Defer, Goto, Set, TypeOK, AttemptsLeft, Pc
<1>8. ASSUME NEW t \in Thread, NEW u \in Thread, ArmTimer(t, u) PROVE TypeOK'
  <2>1. force[t] \in BOOLEAN /\ FALSE \in BOOLEAN
    BY DEF TypeOK
  <2>2. pc' \in [Thread -> Pc] /\ AttemptsLeft'
    BY <1>8 DEF ArmTimer, TypeOK, AttemptsLeft, Pc
  <2>3. force' \in [Thread -> BOOLEAN] /\ defer' \in [Thread -> BOOLEAN]
    BY <1>8, <2>1, CarryTyped DEF ArmTimer
  <2> QED BY <1>8, <2>2, <2>3 DEF ArmTimer, TypeOK
<1>9. ASSUME NEW t \in Thread, ArmFails(t) PROVE TypeOK'
  <2>1. pc' \in [Thread -> Pc] /\ AttemptsLeft' /\ failures' \in 0 .. MaxFailures
    BY <1>9 DEF ArmFails, Goto, Set, TypeOK, AttemptsLeft, Pc
  <2>2. deferArmed' \in BOOLEAN
    BY <1>9 DEF ArmFails
  <2> QED BY <1>9, <2>1, <2>2 DEF ArmFails, TypeOK
<1>10. ASSUME NEW t \in Thread, Claim(t) PROVE TypeOK'
  <2>1. pc' \in [Thread -> Pc] /\ AttemptsLeft'
    BY <1>10 DEF Claim, Goto, Set, TypeOK, AttemptsLeft, Pc
  <2>2. FlagsTyped'
    BY <1>0, <1>10, TakeTyped DEF Claim
  <2>3. force' \in [Thread -> BOOLEAN] /\ defer' \in [Thread -> BOOLEAN] /\ owed' \in SUBSET BOOLEAN
    BY <1>0, <1>10, CarryTyped, ServeTyped DEF Claim, TypeOK
  <2> QED BY <1>10, <2>1, <2>2, <2>3 DEF Claim, FlagsTyped, TypeOK
<1>11. ASSUME NEW t \in Thread, Crash(t) PROVE TypeOK'
  BY <1>11 DEF Crash, Goto, Set, TypeOK, AttemptsLeft, Pc
<1>12. ASSUME NEW t \in Thread, Respawn(t) PROVE TypeOK'
  <2>1. pc' \in [Thread -> Pc] /\ tries' \in [Thread -> 0 .. Attempts] /\ AttemptsLeft'
    BY <1>12, AttemptsAssumption DEF AttemptsAssumption, Respawn, Goto, Set, TypeOK, AttemptsLeft, Pc
  <2> QED BY <1>0, <1>12, <2>1, CarryTyped, TakeTyped DEF Respawn, FlagsTyped, TypeOK
<1>13. ASSUME NEW t \in Thread, Fire(t) PROVE TypeOK'
  BY <1>13 DEF Fire, Goto, Set, TypeOK, AttemptsLeft, Pc
<1>14. ASSUME NEW t \in Thread, Retry(t) PROVE TypeOK'
  <2>1. force[t] \in BOOLEAN /\ FALSE \in BOOLEAN /\ Begin(t, force[t], FALSE)
    BY <1>14 DEF Retry, TypeOK
  <2> QED BY <1>14, <2>1, BeginTyped DEF Retry, FlagsTyped, TypeOK
<1>15. CASE UNCHANGED vars
  BY <1>15 DEF vars, TypeOK, AttemptsLeft
<1> QED BY <1>1, <1>2, <1>3, <1>4, <1>5, <1>6, <1>7, <1>8, <1>9, <1>10, <1>11, <1>12, <1>13,
          <1>14, <1>15 DEF Next, Proceed, Fault

\* The variables keep their types, whatever threads interleave and fail.
THEOREM TypeCorrect == Spec => []TypeOK
<1> QED BY InitTypeOK, StepTypeOK, PTL DEF Spec

-----------------------------------------------------------------------------
(* The single flight, while no _spawn loop has used up its attempts *)

\* One thread at most owns the flight, _running says whether there is one, and
\* no _spawn loop is about to mark the scheduler stopped.
FlightInv ==
  /\ TypeOK
  /\ \A t, u \in Thread : Owner(t) /\ Owner(u) => t = u
  /\ running <=> \E t \in Thread : Owner(t)
  /\ pending => running
  /\ \A t \in Thread : pc[t] # "stop"

LEMMA InitFlightInv == Init => FlightInv
BY InitTypeOK DEF Init, FlightInv, Owner, Pushing

\* Spared is lost for ever.
LEMMA SpentForEver == [Next]_vars /\ Spared' => Spared
<1> SUFFICES ASSUME [Next]_vars, spent PROVE spent'
  BY DEF Spared
<1> USE DEF history
<1>1. ASSUME NEW t \in Thread, Proceed(t) PROVE spent'
  BY <1>1 DEF Proceed, StartWorker, Retake, MarkStopped, RunEnds, Defer, ArmTimer, Claim,
              Respawn, Fire, Retry
<1>2. ASSUME NEW t \in Thread, Fault(t) PROVE spent'
  BY <1>2 DEF Fault, StartFails, ArmFails, Crash
<1>3. ASSUME NEW t \in Thread, NEW f \in BOOLEAN, Schedule(t, f) PROVE spent'
  BY <1>3 DEF Schedule
<1> QED BY <1>1, <1>2, <1>3 DEF Next, vars

LEMMA StepFlightInv ==
  ASSUME FlightInv, [Next]_vars, Spared'
  PROVE  FlightInv'
<1> USE DEF guarded, thread, history
<1>0. TypeOK /\ TypeOK'
  BY StepTypeOK DEF FlightInv, TypeOK
<1>1. ~spent /\ ~spent'
  BY SpentForEver DEF Spared
<1>2. ASSUME NEW t \in Thread, NEW f, NEW d, Begin(t, f, d), pc[t] \in {"free", "fired"},
             UNCHANGED spent
      PROVE  FlightInv'
  <2>1. CASE running
    BY <1>0, <1>2, <2>1
       DEF Begin, Merge, Goto, Set, FlightInv, Owner, Pushing, TypeOK
  <2>2. CASE ~running
    BY <1>0, <1>1, <1>2, <2>2
       DEF Begin, Goto, Set, FlightInv, Owner, Pushing, TypeOK
  <2> QED BY <2>1, <2>2
<1>3. ASSUME NEW t \in Thread, NEW u \in Thread, StartWorker(t, u) PROVE FlightInv'
  BY <1>0, <1>1, <1>3 DEF StartWorker, FlightInv, Owner, Pushing, TypeOK
<1>4. ASSUME NEW t \in Thread, StartFails(t) PROVE FlightInv'
  BY <1>0, <1>1, <1>4 DEF StartFails, Goto, Set, FlightInv, Owner, Pushing, TypeOK
<1>5. ASSUME NEW t \in Thread, Retake(t) PROVE FlightInv'
  <2>1. tries[t] # Attempts
    BY <1>1, <1>5 DEF Retake, FlightInv
  <2> QED BY <1>0, <1>1, <1>5, <2>1
          DEF Retake, TakePending, Goto, Set, FlightInv, Owner, Pushing, TypeOK
<1>6. ASSUME NEW t \in Thread, NEW where, Goto(t, where), Owner(t),
             where \in {"claim", "arm", "crashed"}, UNCHANGED <<guarded, tries>>
      PROVE  FlightInv'
  BY <1>0, <1>1, <1>6 DEF Goto, Set, FlightInv, Owner, Pushing, TypeOK
<1>7. ASSUME NEW t \in Thread, RunEnds(t) \/ Defer(t) \/ ArmFails(t) \/ Crash(t) PROVE FlightInv'
  <2>1. Owner(t) /\ UNCHANGED <<guarded, tries>>
    BY <1>1, <1>7 DEF RunEnds, Defer, ArmFails, Crash, Owner, Pushing
  <2>2. \E where \in {"claim", "arm", "crashed"} : Goto(t, where)
    BY <1>7 DEF RunEnds, Defer, ArmFails, Crash
  <2> QED BY <1>6, <2>1, <2>2
<1>8. ASSUME NEW t \in Thread, NEW u \in Thread, ArmTimer(t, u) PROVE FlightInv'
  BY <1>0, <1>1, <1>8 DEF ArmTimer, FlightInv, Owner, Pushing, TypeOK
<1>9. ASSUME NEW t \in Thread, Claim(t) \/ Respawn(t) PROVE FlightInv'
  BY <1>0, <1>1, <1>9
     DEF Claim, Respawn, TakePending, Goto, Set, FlightInv, Owner, Pushing, TypeOK
<1>10. ASSUME NEW t \in Thread, Fire(t) PROVE FlightInv'
  BY <1>0, <1>1, <1>10 DEF Fire, Goto, Set, FlightInv, Owner, Pushing, TypeOK
<1>11. ASSUME NEW t \in Thread, MarkStopped(t) PROVE FALSE
  BY <1>11 DEF MarkStopped, FlightInv
<1>12. CASE UNCHANGED vars
  BY <1>0, <1>12 DEF vars, FlightInv, Owner, Pushing
<1> QED BY <1>2, <1>3, <1>4, <1>5, <1>7, <1>8, <1>9, <1>10, <1>11, <1>12
        DEF Next, Proceed, Fault, Schedule, Retry

\* Once a _spawn loop may have given up, nothing is claimed.
SparedInv == TypeOK /\ (Spared => FlightInv)

LEMMA SparedInvariant == Spec => []SparedInv
<1>1. Init => SparedInv
  BY InitTypeOK, InitFlightInv DEF SparedInv
<1>2. SparedInv /\ [Next]_vars => SparedInv'
  <2> SUFFICES ASSUME SparedInv, [Next]_vars PROVE SparedInv'
    OBVIOUS
  <2>1. TypeOK'
    BY StepTypeOK DEF SparedInv
  <2>2. ASSUME Spared' PROVE FlightInv'
    <3>1. Spared
      BY <2>2, SpentForEver
    <3> QED BY <2>2, <3>1, StepFlightInv DEF SparedInv
  <2> QED BY <2>1, <2>2 DEF SparedInv
<1> QED BY <1>1, <1>2, PTL DEF Spec

\* While no _spawn loop has used up its attempts, two pushes never run at once.
THEOREM SingleFlightHolds == Spec => []OneRunAtATime
<1>1. SparedInv => OneRunAtATime
  BY DEF SparedInv, FlightInv, OneRunAtATime, SingleFlight, Owner
<1> QED BY <1>1, SparedInvariant, PTL

\* ... and no note is left without an owner of the flight.
THEOREM NoteHasOwner == Spec => []NoteIsFound
<1>1. SparedInv => NoteIsFound
  BY DEF SparedInv, FlightInv, NoteIsFound
<1> QED BY <1>1, SparedInvariant, PTL
==============================================================================
