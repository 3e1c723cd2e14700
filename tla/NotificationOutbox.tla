------------------------- MODULE NotificationOutbox -------------------------
(***************************************************************************)
(* The drivers of the notification outbox: process_outbox_once sends queued *)
(* items, reconcile_outbox_once learns from the provider what became of    *)
(* them.  Several workers share the rows; a claim takes a lease with a     *)
(* token, and every write back is fenced by the token.  A worker has one   *)
(* batch at a time, so the worker that claimed a row last stands for the   *)
(* token.  The port is modelled as its contract says and as the tests'     *)
(* InMemoryOutbox implements it; the provider (EasyAuth notify) is         *)
(* external.                                                               *)
(***************************************************************************)
EXTENDS Naturals, FiniteSets

CONSTANTS Item, Recipient, Worker,
          Nobody,       \* no lease token
          NoMessage,
          NoItem,
          Mismatched,   \* items whose payload carries another dedup_key
          Odd,          \* items whose recipients may get a status the code does not know
          Limit,        \* limit of a claim
          MaxAttempts,
          MaxFaults     \* bound on lost calls, crashes, raised errors and slow workers

ASSUME BoundsAssumption ==
  /\ Limit \in Nat \ {0}
  /\ MaxAttempts \in Nat \ {0}
  /\ MaxFaults \in Nat
  /\ Nobody \notin Worker
  /\ NoItem \notin [id : Item, attempts : Nat, last : Nat]
  /\ NoMessage \notin [Recipient -> {"pending", "sent", "delivered", "failed", "other"}]
  /\ IsFiniteSet(Item)
  /\ Recipient # {}
  /\ Mismatched \subseteq Item
  /\ Odd \subseteq Item

VARIABLES
  status,    \* per row: status,
  attempts,  \* attempt_count,
  due,       \* next_attempt_at has come,
  holder,    \* lease_token, by the worker that got it,
  live,      \* lease_expires_at is still to come,
  aged,      \* the row is sent since 24 hours
  last,      \* per row: the rank of its last_reconciled_at, oldest first
  msg,       \* the provider's message of a row, or NoMessage
  gone,      \* rows whose message the provider no longer knows
  job,       \* per worker: what it is about to do,
  batch,     \* the claimed items it has yet to handle,
  cur,       \* the one it handles,
  answer,    \* the outcome of its last call,
  seen,      \* ... and the message it got
  faults

row    == <<status, attempts, due, holder, live, aged, last>>
provider == <<msg, gone>>
worker == <<job, batch, cur, answer, seen>>
vars   == <<row, provider, worker, faults>>

Promise == INSTANCE OutboxPromise WITH status <- status, msg <- msg
Status == Promise!Status
RecipientStatus == Promise!RecipientStatus
Message == Promise!Message

Copy == [id : Item, attempts : 0 .. MaxAttempts, last : Nat]  \* the OutboxItem of a claim
Job == {"idle", "process", "write", "reconcile", "apply", "release"}
Answer == {"none", "accepted", "retry", "fail", "no_id", "message", "missing", "error"}

TypeOK ==
  /\ status \in [Item -> Status]
  /\ attempts \in [Item -> 0 .. MaxAttempts]
  /\ due \in [Item -> BOOLEAN]
  /\ holder \in [Item -> Worker \cup {Nobody}]
  /\ live \in [Item -> BOOLEAN]
  /\ aged \in [Item -> BOOLEAN]
  /\ last \in [Item -> Nat]
  /\ msg \in [Item -> Message \cup {NoMessage}]
  /\ gone \in SUBSET Item
  /\ job \in [Worker -> Job]
  /\ batch \in [Worker -> SUBSET Copy]
  /\ cur \in [Worker -> Copy \cup {NoItem}]
  /\ answer \in [Worker -> Answer]
  /\ seen \in [Worker -> Message \cup {NoMessage}]
  /\ faults \in 0 .. MaxFaults

Init ==
  /\ Promise!Init
  /\ attempts = [i \in Item |-> 0]
  /\ due = [i \in Item |-> TRUE]
  /\ holder = [i \in Item |-> Nobody]
  /\ live = [i \in Item |-> FALSE]
  /\ aged = [i \in Item |-> FALSE]
  /\ last \in [Item -> 1 .. Cardinality(Item)]
  /\ \A i, k \in Item : last[i] = last[k] => i = k
  /\ gone = {}
  /\ job = [w \in Worker |-> "idle"]
  /\ batch = [w \in Worker |-> {}]
  /\ cur = [w \in Worker |-> NoItem]
  /\ answer = [w \in Worker |-> "none"]
  /\ seen = [w \in Worker |-> NoMessage]
  /\ faults = 0

\* Something goes wrong, within the bound.
Fault == faults < MaxFaults /\ faults' = faults + 1
NoFault == UNCHANGED faults

-----------------------------------------------------------------------------
(* The port: claims and fenced writes *)

\* A claim takes as many due rows as the limit allows ...
Claim(w, S, next) ==
  /\ S # {}
  /\ job[w] = "idle"
  /\ holder' = [i \in Item |-> IF i \in S THEN w ELSE holder[i]]
  /\ live' = [i \in Item |-> i \in S \/ live[i]]
  /\ batch' = [batch EXCEPT ![w] = 
                 {[id |-> i, attempts |-> attempts[i], last |-> last[i]] : i \in S}]
  /\ job' = [job EXCEPT ![w] = next]
  /\ NoFault
  /\ UNCHANGED <<status, attempts, due, aged, last, provider, cur, answer, seen>>

UpTo(S, Due) ==
  /\ S \subseteq Due
  /\ Cardinality(S) <= Limit
  /\ S # Due => Cardinality(S) = Limit

\* Mutant: a row whose lease expired is not claimed again.
ClaimUnleased(w) ==
  LET Due == {i \in Item : status[i] = "queued" /\ due[i] /\ holder[i] = Nobody}
  IN  \E S \in SUBSET Due : UpTo(S, Due) /\ Claim(w, S, "process")

\* ... queued ones in the order of next_attempt_at, here any order, ...
ClaimDue(w) ==
  LET Due == {i \in Item : status[i] = "queued" /\ due[i] /\ ~live[i]}
  IN  \E S \in SUBSET Due : UpTo(S, Due) /\ Claim(w, S, "process")

\* ... and accepted or sent ones the longest unreconciled first.
ClaimReconcile(w) ==
  LET Due == {i \in Item : /\ status[i] \in {"accepted", "sent"}
                           /\ status[i] = "sent" => ~aged[i]
                           /\ ~live[i]}
  IN  \E S \in SUBSET Due :
        /\ UpTo(S, Due)
        /\ \A i \in S, k \in Due \ S : last[i] < last[k]
        /\ Claim(w, S, "reconcile")

\* Mutant: writes are not fenced by the token.
LeasedByAnyone(w, i) == w \in Worker

\* The token of w is still on the row.
Leased(w, i) == holder[i] = w

Unlock(i) ==
  /\ holder' = [holder EXCEPT ![i] = Nobody]
  /\ live' = [live EXCEPT ![i] = FALSE]

MarkAccepted(i) ==
  /\ status' = [status EXCEPT ![i] = "accepted"]
  /\ Unlock(i)
  /\ UNCHANGED <<attempts, due, aged, last>>

MarkRetry(i) ==
  /\ attempts' = [attempts EXCEPT ![i] = @ + 1]
  /\ due' = [due EXCEPT ![i] = FALSE]
  /\ Unlock(i)
  /\ UNCHANGED <<status, aged, last>>

MarkFailed(i) ==
  /\ status' = [status EXCEPT ![i] = "failed"]
  /\ attempts' = [attempts EXCEPT ![i] = @ + 1]
  /\ Unlock(i)
  /\ UNCHANGED <<due, aged, last>>

\* Mutant: the observation does not advance last_reconciled_at.
StampNothing(i) == UNCHANGED last

\* last_reconciled_at = now: i becomes the last to be reconciled again.
Stamp(i) ==
  last' = [k \in Item |-> IF k = i THEN Cardinality(Item)
                          ELSE IF last[k] > last[i] THEN last[k] - 1 ELSE last[k]]

Release(i) == Unlock(i) /\ UNCHANGED <<status, attempts, due, aged, last>>

-----------------------------------------------------------------------------
(* Pure functions *)

\* Mutant: one delivered recipient is enough.
AggregateAny(m) ==
  LET Is(s) == \E r \in Recipient : m[r] = s IN
  IF Is("delivered") THEN "delivered"
  ELSE IF \A r \in Recipient : m[r] = "failed" THEN "failed"
  ELSE IF Is("sent") THEN "sent" ELSE "accepted"

\* map_provider_recipient_status and aggregate_local_status.
Aggregate(m) ==
  IF \A r \in Recipient : m[r] = "delivered" THEN "delivered"
  ELSE IF \A r \in Recipient : m[r] = "failed" THEN "failed"
  ELSE IF \E r \in Recipient : m[r] \in {"sent", "delivered"} THEN "sent"
  ELSE "accepted"

\* Both raise on a status they do not know.
Known(m) == \A r \in Recipient : m[r] # "other"

\* Mutant: the observation is written as it is.
ClampNothing(current, incoming) == incoming

Clamp(current, incoming) ==
  IF Promise!Rank[incoming] < Promise!Rank[current] \/ current \in Promise!Terminal
    THEN current ELSE incoming

-----------------------------------------------------------------------------
(* process_outbox_once *)

\* The worker turns to an item of its batch; a returned call leaves an answer.
Turn(w, item, a, m, next) ==
  /\ item \in batch[w]
  /\ batch' = [batch EXCEPT ![w] = @ \ {item}]
  /\ cur' = [cur EXCEPT ![w] = item]
  /\ answer' = [answer EXCEPT ![w] = a]
  /\ seen' = [seen EXCEPT ![w] = m]
  /\ job' = [job EXCEPT ![w] = next]

\* The worker leaves the item: for the next one, or for its next round.
Leave(w, back) ==
  /\ job' = [job EXCEPT ![w] = IF batch[w] = {} THEN "idle" ELSE back]
  /\ cur' = [cur EXCEPT ![w] = NoItem]
  /\ answer' = [answer EXCEPT ![w] = "none"]
  /\ seen' = [seen EXCEPT ![w] = NoMessage]
  /\ UNCHANGED batch

\* An exception leaves the round: the leases of the batch stay as they are.
Abort(w) ==
  /\ job' = [job EXCEPT ![w] = "idle"]
  /\ batch' = [batch EXCEPT ![w] = {}]
  /\ cur' = [cur EXCEPT ![w] = NoItem]
  /\ answer' = [answer EXCEPT ![w] = "none"]
  /\ seen' = [seen EXCEPT ![w] = NoMessage]

\* The provider takes a message once per dedup_key.
Taken(i) ==
  /\ msg' = [msg EXCEPT ![i] = IF @ = NoMessage THEN [r \in Recipient |-> "pending"] ELSE @]
  /\ UNCHANGED gone

\* client.send: 202, or 200 for a message the provider has already.
SendOk(w, item) ==
  /\ job[w] = "process"
  /\ item.id \notin Mismatched
  /\ Turn(w, item, "accepted", NoMessage, "write")
  /\ Taken(item.id)
  /\ NoFault
  /\ UNCHANGED row

\* The payload's dedup_key is another: nothing is sent.
Mismatch(w, item) ==
  /\ job[w] = "process"
  /\ item.id \in Mismatched
  /\ Turn(w, item, "fail", NoMessage, "write")
  /\ NoFault
  /\ UNCHANGED <<row, provider>>

\* Throttled or unavailable, or the answer was lost or malformed.
SendUnavailable(w, item) ==
  /\ job[w] = "process"
  /\ item.id \notin Mismatched
  /\ Turn(w, item, "retry", NoMessage, "write")
  /\ Taken(item.id) \/ UNCHANGED provider
  /\ Fault
  /\ UNCHANGED row

\* Rejected, or the dedup_key conflicts.
SendRejected(w, item) ==
  /\ job[w] = "process"
  /\ item.id \notin Mismatched
  /\ Turn(w, item, "fail", NoMessage, "write")
  /\ NoFault
  /\ UNCHANGED <<row, provider>>

\* An answer without message_id.
SendNoId(w, item) ==
  /\ job[w] = "process"
  /\ item.id \notin Mismatched
  /\ Turn(w, item, "no_id", NoMessage, "write")
  /\ Taken(item.id)
  /\ Fault
  /\ UNCHANGED row

\* An error classify_send_error does not know is raised again.
SendRaises(w, item) ==
  /\ job[w] = "process"
  /\ item \in batch[w]
  /\ item.id \notin Mismatched
  /\ Taken(item.id) \/ UNCHANGED provider
  /\ Abort(w)
  /\ Fault
  /\ UNCHANGED row

\* _port_write: the write of a worker whose lease was taken over does nothing.
Fenced(w, Write) == IF Leased(w, cur[w].id) THEN Write ELSE UNCHANGED row

\* n counts the attempt just made.
RetryOrExhaust(i, n) == IF n >= MaxAttempts THEN MarkFailed(i) ELSE MarkRetry(i)

WriteAccepted(w) ==
  /\ job[w] = "write" /\ answer[w] = "accepted"
  /\ Fenced(w, MarkAccepted(cur[w].id))
  /\ Leave(w, "process")
  /\ NoFault
  /\ UNCHANGED provider

\* _handle_send_failure, and the refusal of a mismatch.
WriteRefused(w) ==
  /\ job[w] = "write" /\ answer[w] \in {"retry", "fail"}
  /\ Fenced(w, IF answer[w] = "fail"
                 THEN MarkFailed(cur[w].id)
                 ELSE RetryOrExhaust(cur[w].id, cur[w].attempts + 1))
  /\ Leave(w, "process")
  /\ NoFault
  /\ UNCHANGED provider

WriteNoId(w) ==
  /\ job[w] = "write" /\ answer[w] = "no_id"
  /\ Fenced(w, Release(cur[w].id))
  /\ Abort(w)
  /\ NoFault
  /\ UNCHANGED provider

-----------------------------------------------------------------------------
(* reconcile_outbox_once *)

\* The items are reconciled in the order of the claim.
Oldest(w, item) == \A other \in batch[w] : item.last <= other.last

Get(w, item) ==
  /\ job[w] = "reconcile"
  /\ Oldest(w, item)
  /\ item.id \notin gone
  /\ Turn(w, item, "message", msg[item.id], "apply")
  /\ NoFault
  /\ UNCHANGED <<row, provider>>

\* 404
GetMissing(w, item) ==
  /\ job[w] = "reconcile"
  /\ Oldest(w, item)
  /\ item.id \in gone
  /\ Turn(w, item, "missing", NoMessage, "apply")
  /\ NoFault
  /\ UNCHANGED <<row, provider>>

GetFails(w, item) ==
  /\ job[w] = "reconcile"
  /\ Oldest(w, item)
  /\ Turn(w, item, "error", NoMessage, "apply")
  /\ Fault
  /\ UNCHANGED <<row, provider>>

\* The item has been written; it is released by a write of its own.
Written(w) ==
  /\ job' = [job EXCEPT ![w] = "release"]
  /\ answer' = [answer EXCEPT ![w] = "none"]
  /\ seen' = [seen EXCEPT ![w] = NoMessage]
  /\ UNCHANGED <<batch, cur>>

\* apply_provider_status, of a message that may be of some time ago.
Apply(w) ==
  LET i == cur[w].id IN
  /\ job[w] = "apply" /\ answer[w] = "message"
  /\ Leased(w, i) => Known(seen[w])
  /\ Fenced(w, /\ status' = [status EXCEPT ![i] = Clamp(@, Aggregate(seen[w]))]
               /\ Stamp(i)
               /\ UNCHANGED <<attempts, due, holder, live, aged>>)
  /\ Written(w)
  /\ NoFault
  /\ UNCHANGED provider

\* An unknown status raises out of the round.
ApplyRaises(w) ==
  /\ job[w] = "apply" /\ answer[w] = "message"
  /\ Leased(w, cur[w].id)
  /\ ~Known(seen[w])
  /\ Abort(w)
  /\ NoFault
  /\ UNCHANGED <<row, provider>>

ApplyMissing(w) ==
  /\ job[w] = "apply" /\ answer[w] = "missing"
  /\ Fenced(w, MarkFailed(cur[w].id))
  /\ Written(w)
  /\ NoFault
  /\ UNCHANGED provider

\* mark_reconcile_error
ApplyError(w) ==
  /\ job[w] = "apply" /\ answer[w] = "error"
  /\ Fenced(w, Stamp(cur[w].id) /\ UNCHANGED <<status, attempts, due, holder, live, aged>>)
  /\ Written(w)
  /\ NoFault
  /\ UNCHANGED provider

ReleaseRow(w) ==
  /\ job[w] = "release"
  /\ Fenced(w, Release(cur[w].id))
  /\ Leave(w, "reconcile")
  /\ NoFault
  /\ UNCHANGED provider

-----------------------------------------------------------------------------
(* Time, crashes and the provider *)

Crash(w) ==
  /\ job[w] # "idle"
  /\ Abort(w)
  /\ Fault
  /\ UNCHANGED <<row, provider>>

Works(w, i) ==
  \/ cur[w] # NoItem /\ cur[w].id = i
  \/ \E item \in batch[w] : item.id = i

\* The lease of a worker that still works on the row expires only if it is slow.
LeaseExpires(i) ==
  /\ live[i]
  /\ live' = [live EXCEPT ![i] = FALSE]
  /\ IF \E w \in Worker : Leased(w, i) /\ Works(w, i) THEN Fault ELSE NoFault
  /\ UNCHANGED <<status, attempts, due, holder, aged, last, provider, worker>>

\* next_attempt_at comes, whatever backoff_delay or Retry-After put there.
RetryDue(i) ==
  /\ ~due[i]
  /\ due' = [due EXCEPT ![i] = TRUE]
  /\ UNCHANGED <<status, attempts, holder, live, aged, last, provider, worker, faults>>

\* sent_reconcile_expired
Age(i) ==
  /\ status[i] = "sent"
  /\ ~aged[i]
  /\ aged' = [aged EXCEPT ![i] = TRUE]
  /\ UNCHANGED <<status, attempts, due, holder, live, last, provider, worker, faults>>

ProviderDelivers(i, r) ==
  /\ Promise!Deliver(i, r)
  /\ i \notin Odd => msg'[i][r] # "other"
  /\ UNCHANGED <<row, gone, worker, faults>>

ProviderForgets(i) ==
  /\ msg[i] # NoMessage
  /\ i \notin gone
  /\ gone' = gone \cup {i}
  /\ Fault
  /\ UNCHANGED <<row, msg, worker>>

-----------------------------------------------------------------------------
Process(w) ==
  \/ \E item \in batch[w] :
       \/ SendOk(w, item) \/ Mismatch(w, item) \/ SendUnavailable(w, item)
       \/ SendRejected(w, item) \/ SendNoId(w, item) \/ SendRaises(w, item)
  \/ WriteAccepted(w) \/ WriteRefused(w) \/ WriteNoId(w)

Reconcile(w) ==
  \/ \E item \in batch[w] : Get(w, item) \/ GetMissing(w, item) \/ GetFails(w, item)
  \/ Apply(w) \/ ApplyRaises(w) \/ ApplyMissing(w) \/ ApplyError(w)
  \/ ReleaseRow(w)

Next ==
  \/ \E w \in Worker : \/ ClaimDue(w) \/ ClaimReconcile(w)
                       \/ Process(w) \/ Reconcile(w) \/ Crash(w)
  \/ \E i \in Item : \/ LeaseExpires(i) \/ RetryDue(i) \/ Age(i) \/ ProviderForgets(i)
                     \/ \E r \in Recipient : ProviderDelivers(i, r)

Spec == Init /\ [][Next]_vars

\* The host calls both drivers again and again, a round that has begun goes on,
\* and time passes.  The provider need not move on.
FairSpec ==
  /\ Spec
  /\ \A w \in Worker : /\ SF_vars(ClaimDue(w)) /\ SF_vars(ClaimReconcile(w))
                       /\ WF_vars(Process(w) \/ Reconcile(w))
  /\ \A i \in Item : WF_vars(LeaseExpires(i)) /\ WF_vars(RetryDue(i))

-----------------------------------------------------------------------------
(* Properties *)

\* What the local status says of the provider's message is true of it, though
\* the provider moves on while answers are under way (notification_outbox.py:
\* an item is accepted with a message_id, delivered is never inferred).
LocalIsTrue == \A i \in Item : Promise!Justified(status[i], msg[i])

\* A row that is not terminal has attempts left: a write of a worker whose lease
\* was taken over never counts, so the retries that are counted end.  Not counted
\* are a crash, an error that is raised, and an answer without message_id.
AttemptsAreLeft ==
  \A i \in Item : status[i] \notin Promise!Terminal => attempts[i] < MaxAttempts

\* Whatever leases expire and workers crash, items only move on, to what the
\* provider's message has reached: no delivered or failed item is written back.
Promised == Promise!Spec

\* Every queued item is accepted or failed in the end: none is left with a
\* lease, a retry or an attempt nobody comes back for.
Settled == \A i \in Item : status[i] = "queued" ~> status[i] # "queued"

\* The message of the row will not change any more, for all recipients alike.
Final(i) ==
  msg[i] # NoMessage /\ \E s \in {"delivered", "failed"} : \A r \in Recipient : msg[i][r] = s

\* A row whose message has a status the code does not know: writing it raises
\* before last_reconciled_at advances, so that the row comes first again as soon
\* as its lease is over, and the rows behind it may wait for ever, also with
\* claims of one (reconcile_outbox_once: only the request is inside the try).
Stuck(k) == msg[k] # NoMessage /\ ~Known(msg[k])

\* What became of a message is learnt, unless the row is sent since 24 hours or
\* some row is stuck: rows that do not finish for any other reason do not starve
\* others, also with Limit = 1.
Reconciled ==
  \A i \in Item : status[i] \in {"accepted", "sent"} /\ Final(i)
                    ~> \/ status[i] \in Promise!Terminal \/ aged[i]
                       \/ \E k \in Item : Stuck(k)
=============================================================================
