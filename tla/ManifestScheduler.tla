-------------------------- MODULE ManifestScheduler --------------------------
(***************************************************************************)
(* ManifestSyncScheduler: the process-wide single flight of manifest       *)
(* pushes.  schedule() either becomes the owner of the flight and starts a *)
(* worker thread, or leaves a note (pending) that the owner picks up after *)
(* its run.  A retryable answer arms one timer, which schedules again.     *)
(*                                                                         *)
(* Every step is one critical section under _guard, or one call between    *)
(* two of them; callers, workers and timers are threads of one pool.       *)
(* The push itself is a run that ends, in any way it likes.                *)
(***************************************************************************)
EXTENDS Naturals

CONSTANTS Thread,      \* thread identities: callers, workers and timers
          Attempts,    \* thread starts a _spawn loop attempts: 4 in the code
          MaxCalls,    \* bound on calls of schedule()
          MaxFailures  \* bound on threads that cannot start or that crash

ASSUME BoundsAssumption == MaxCalls \in Nat /\ MaxFailures \in Nat
ASSUME AttemptsAssumption == Attempts \in Nat \ {0}

VARIABLES
  running,       \* _running
  pending,       \* _pending
  pendingForce,  \* _pending_force
  pendingDefer,  \* _pending_defer
  deferArmed,    \* _defer_armed
  pc,            \* what each thread is about to do
  force,         \* the force argument it carries
  defer,         \* the defer argument it carries
  tries,         \* thread starts its _spawn loop has attempted
  calls,         \* history: calls of schedule()
  failures,      \* history: thread starts that failed, workers that crashed
  spent,         \* history: a _spawn loop has used up its attempts
  owed           \* history: the force flags of calls no run has served yet

guarded == <<running, pending, pendingForce, pendingDefer>>
thread  == <<pc, force, defer, tries>>
history == <<calls, failures, spent, owed>>
vars    == <<guarded, deferArmed, thread, history>>

Pc == {"free", "spawn", "retake", "stop", "run", "arm", "claim", "crashed", "sleep", "fired"}

\* A thread that is about to start a worker has attempts left.
AttemptsLeft == \A t \in Thread : pc[t] = "spawn" => tries[t] < Attempts

TypeOK ==
  /\ running \in BOOLEAN
  /\ pending \in BOOLEAN
  /\ pendingForce \in BOOLEAN
  /\ pendingDefer \in BOOLEAN
  /\ deferArmed \in BOOLEAN
  /\ pc \in [Thread -> Pc]
  /\ force \in [Thread -> BOOLEAN]
  /\ defer \in [Thread -> BOOLEAN]
  /\ tries \in [Thread -> 0 .. Attempts]
  /\ calls \in 0 .. MaxCalls
  /\ failures \in 0 .. MaxFailures
  /\ spent \in BOOLEAN
  /\ owed \in SUBSET BOOLEAN
  /\ AttemptsLeft

Init ==
  /\ running = FALSE
  /\ pending = FALSE
  /\ pendingForce = FALSE
  /\ pendingDefer = FALSE
  /\ deferArmed = FALSE
  /\ pc = [t \in Thread |-> "free"]
  /\ force = [t \in Thread |-> FALSE]
  /\ defer = [t \in Thread |-> FALSE]
  /\ tries = [t \in Thread |-> 0]
  /\ calls = 0
  /\ failures = 0
  /\ spent = FALSE
  /\ owed = {}

-----------------------------------------------------------------------------
(* Shared steps *)

Set(f, t, v) == [f EXCEPT ![t] = v]

Goto(t, where) == pc' = Set(pc, t, where)

Carry(t, f, d) == force' = Set(force, t, f) /\ defer' = Set(defer, t, d)

\* A run with this force flag begins: it serves the calls made before it.
Serve(f) == owed' = IF f THEN {} ELSE owed \ {FALSE}

\* Mutant: the later force flag replaces the earlier one.
MergeReplaces(f, d) ==
  /\ pending' = TRUE
  /\ pendingForce' = f
  /\ pendingDefer' = (pendingDefer \/ d)
  /\ UNCHANGED running

\* _start while a flight is on: one note for all, its flags are or-ed.
Merge(f, d) ==
  /\ pending' = TRUE
  /\ pendingForce' = (pendingForce \/ f)
  /\ pendingDefer' = (pendingDefer \/ d)
  /\ UNCHANGED running

\* _start: the thread merges its request and is done, or owns the flight.
Begin(t, f, d) ==
  IF running
    THEN /\ Merge(f, d)
         /\ Goto(t, "free")
         /\ UNCHANGED <<force, defer, tries>>
    ELSE /\ running' = TRUE
         /\ Goto(t, "spawn")
         /\ Carry(t, f, d)
         /\ tries' = Set(tries, t, 0)
         /\ UNCHANGED <<pending, pendingForce, pendingDefer>>

\* Mutant: nobody is running while the next run is claimed.
TakeStopsRunning ==
  /\ running' = FALSE
  /\ pending' = FALSE
  /\ pendingForce' = FALSE
  /\ pendingDefer' = FALSE

\* _take_pending: the flight ends, or goes on with the note.
TakePending ==
  /\ running' = pending
  /\ pending' = FALSE
  /\ pendingForce' = FALSE
  /\ pendingDefer' = FALSE

-----------------------------------------------------------------------------
(* Callers and _spawn *)

\* schedule(force), from a request, at start-up or after settings were saved.
Schedule(t, f) ==
  /\ pc[t] = "free"
  /\ calls < MaxCalls
  /\ calls' = calls + 1
  /\ owed' = owed \cup {f}
  /\ Begin(t, f, TRUE)
  /\ UNCHANGED <<deferArmed, failures, spent>>

\* Thread.start succeeds: the worker u begins its run, t returns.
StartWorker(t, u) ==
  /\ pc[t] = "spawn"
  /\ pc[u] = "free"
  /\ pc' = [pc EXCEPT ![t] = "free", ![u] = "run"]
  /\ Carry(u, force[t], defer[t])
  /\ Serve(force[t])
  /\ UNCHANGED <<guarded, deferArmed, tries, calls, failures, spent>>

\* Mutant: the exception leaves the loop, and the flight has no owner.
StartFailsAndLeaves(t) ==
  /\ pc[t] = "spawn"
  /\ failures < MaxFailures
  /\ failures' = failures + 1
  /\ Goto(t, "free")
  /\ UNCHANGED <<guarded, deferArmed, force, defer, tries, calls, spent, owed>>

\* Thread.start raises: what t carried is given up.
StartFails(t) ==
  /\ pc[t] = "spawn"
  /\ failures < MaxFailures
  /\ failures' = failures + 1
  /\ tries' = Set(tries, t, tries[t] + 1)
  /\ Goto(t, "retake")
  /\ UNCHANGED <<guarded, deferArmed, force, defer, calls, spent, owed>>

\* After a failed start: whoever left a note meanwhile gets the next attempt,
\* if any is left.
Retake(t) ==
  /\ pc[t] = "retake"
  /\ TakePending
  /\ Carry(t, pendingForce, pendingDefer)
  /\ Goto(t, IF tries[t] = Attempts THEN "stop" ELSE IF pending THEN "spawn" ELSE "free")
  /\ spent' = (spent \/ tries[t] = Attempts)
  /\ UNCHANGED <<deferArmed, tries, calls, failures, owed>>

\* _mark_stopped, after the last attempt.
MarkStopped(t) ==
  /\ pc[t] = "stop"
  /\ running' = FALSE
  /\ Goto(t, "free")
  /\ UNCHANGED <<pending, pendingForce, pendingDefer, deferArmed, force, defer, tries, history>>

-----------------------------------------------------------------------------
(* The worker *)

\* The push ends, answered, refused or with an exception that _call logs.
RunEnds(t) ==
  /\ pc[t] = "run"
  /\ Goto(t, "claim")
  /\ UNCHANGED <<guarded, deferArmed, force, defer, tries, history>>

\* The push got a retryable answer and this run may defer: _arm_defer.
Defer(t) ==
  /\ pc[t] = "run"
  /\ defer[t]
  /\ IF deferArmed
       THEN Goto(t, "claim") /\ UNCHANGED deferArmed
       ELSE Goto(t, "arm") /\ deferArmed' = TRUE
  /\ UNCHANGED <<guarded, force, defer, tries, history>>

\* Timer.start succeeds; u is the timer's thread.
ArmTimer(t, u) ==
  /\ pc[t] = "arm"
  /\ pc[u] = "free"
  /\ pc' = [pc EXCEPT ![t] = "claim", ![u] = "sleep"]
  /\ Carry(u, force[t], FALSE)
  /\ UNCHANGED <<guarded, deferArmed, tries, calls, failures, spent, owed>>

\* Timer.start raises: _clear_defer, and the exception ends the run.
ArmFails(t) ==
  /\ pc[t] = "arm"
  /\ failures < MaxFailures
  /\ failures' = failures + 1
  /\ deferArmed' = FALSE
  /\ Goto(t, "claim")
  /\ UNCHANGED <<guarded, force, defer, tries, calls, spent, owed>>

\* Mutant: the worker looks at the note and leaves.
ClaimAndLeave(t) ==
  /\ pc[t] = "claim"
  /\ running' = FALSE
  /\ pending' = FALSE
  /\ Goto(t, "free")
  /\ UNCHANGED <<pendingForce, pendingDefer, deferArmed, force, defer, tries, history>>

\* The worker goes on with the note, or the flight is over.
Claim(t) ==
  /\ pc[t] = "claim"
  /\ TakePending
  /\ IF pending
       THEN /\ Goto(t, "run")
            /\ Carry(t, pendingForce, pendingDefer)
            /\ Serve(pendingForce)
       ELSE /\ Goto(t, "free")
            /\ UNCHANGED <<force, defer, owed>>
  /\ UNCHANGED <<deferArmed, tries, calls, failures, spent>>

\* An exception of the worker itself.
Crash(t) ==
  /\ pc[t] = "claim"
  /\ failures < MaxFailures
  /\ failures' = failures + 1
  /\ Goto(t, "crashed")
  /\ UNCHANGED <<guarded, deferArmed, force, defer, tries, calls, spent, owed>>

\* Mutant: a crash only marks the scheduler stopped.
RespawnForgets(t) ==
  /\ pc[t] = "crashed"
  /\ running' = FALSE
  /\ Goto(t, "free")
  /\ UNCHANGED <<pending, pendingForce, pendingDefer, deferArmed, force, defer, tries, history>>

\* _respawn: a new thread takes over what is pending.
Respawn(t) ==
  /\ pc[t] = "crashed"
  /\ TakePending
  /\ Carry(t, pendingForce, pendingDefer)
  /\ Goto(t, IF pending THEN "spawn" ELSE "free")
  /\ tries' = Set(tries, t, 0)
  /\ UNCHANGED <<deferArmed, history>>

-----------------------------------------------------------------------------
(* The timer *)

\* The delay is over: _fire_defer first disarms.
Fire(t) ==
  /\ pc[t] = "sleep"
  /\ deferArmed' = FALSE
  /\ Goto(t, "fired")
  /\ UNCHANGED <<guarded, force, defer, tries, history>>

\* Mutant: the retry may defer again.
RetryMayDefer(t) ==
  /\ pc[t] = "fired"
  /\ Begin(t, force[t], TRUE)
  /\ UNCHANGED <<deferArmed, history>>

\* ... and then schedules the one retry, which may not defer again.
Retry(t) ==
  /\ pc[t] = "fired"
  /\ Begin(t, force[t], FALSE)
  /\ UNCHANGED <<deferArmed, history>>

-----------------------------------------------------------------------------
\* The steps of a thread that is under way.
Proceed(t) ==
  \/ Retake(t) \/ MarkStopped(t) \/ RunEnds(t) \/ Defer(t) \/ Claim(t) \/ Respawn(t)
  \/ Fire(t) \/ Retry(t)
  \/ \E u \in Thread : StartWorker(t, u) \/ ArmTimer(t, u)

Fault(t) == StartFails(t) \/ ArmFails(t) \/ Crash(t)

Next ==
  \E t \in Thread :
    \/ Proceed(t)
    \/ Fault(t)
    \/ \E f \in BOOLEAN : Schedule(t, f)

Spec == Init /\ [][Next]_vars

\* Threads are scheduled, HTTP timeouts end every push, timers fire.
FairSpec == Spec /\ \A t \in Thread : WF_vars(Proceed(t))

-----------------------------------------------------------------------------
(* Safety *)

\* The push runs in this thread.
Pushing(t) == pc[t] \in {"run", "arm"}

\* The thread owns the flight: it runs the push, or is about to start it, or
\* to end it.
Owner(t) == Pushing(t) \/ pc[t] \in {"spawn", "retake", "claim", "crashed"}

\* Two pushes never run at once (the docstrings of both modules: single flight).
SingleFlight == \A t, u \in Thread : Pushing(t) /\ Pushing(u) => t = u

\* No _spawn loop has used up its four attempts.
Spared == ~spent

\* While none has, two pushes never run at once, whichever threads fail to
\* start, whichever workers crash and whoever calls meanwhile.
OneRunAtATime == Spared => SingleFlight

\* A note is never left behind: while there is one, the flight goes on.
NoteIsFound == Spared /\ pending => running

(* Liveness *)

\* Unless something fails, every call is served by a run that begins after it,
\* a forced call by a forced run.
CallIsServed == \A f \in BOOLEAN : (f \in owed) ~> (f \notin owed \/ failures > 0)

\* Whatever fails, the scheduler comes to rest, ready for the next call.
Quiesces == <>[](~running /\ ~deferArmed)
==============================================================================
