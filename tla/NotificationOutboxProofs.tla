---------------------- MODULE NotificationOutboxProofs ----------------------
(***************************************************************************)
(* What holds of NotificationOutbox for any number of rows, recipients and *)
(* workers, any limits and any number of faults.                           *)
(*                                                                         *)
(* The heart of it is what a worker knows while its token is still on the  *)
(* row: the row is as it was claimed (SendHeld, ReconHeld).  A worker that *)
(* was overtaken knows only that the provider has the message and that it  *)
(* has moved on since the answer (AnswerTrue).                             *)
(***************************************************************************)
EXTENDS NotificationOutbox, FiniteSetTheorems, TLAPS

\* The worker sends, or is to send, the item; it reconciles it.
Sends(w, item) ==
  \/ job[w] \in {"process", "write"} /\ item \in batch[w]
  \/ job[w] = "write" /\ item = cur[w]

Reconciles(w, item) ==
  \/ job[w] \in {"reconcile", "apply", "release"} /\ item \in batch[w]
  \/ job[w] = "apply" /\ item = cur[w]

HasItem ==
  \A w \in Worker : IF job[w] \in {"write", "apply", "release"}
                      THEN cur[w] \in Copy ELSE cur[w] = NoItem

\* The items a worker has in hand are of different rows.
Distinct ==
  \A w \in Worker : \A a \in batch[w] :
    /\ cur[w] # NoItem => a.id # cur[w].id
    /\ \A b \in batch[w] : a.id = b.id => a = b

SendHeld ==
  \A w \in Worker, item \in Copy :
    Sends(w, item) /\ holder[item.id] = w =>
      status[item.id] = "queued" /\ attempts[item.id] = item.attempts

ReconHeld ==
  \A w \in Worker, item \in Copy :
    Reconciles(w, item) =>
      /\ msg[item.id] # NoMessage
      /\ holder[item.id] = w => status[item.id] \in {"accepted", "sent"}

\* b is a or came after it.
Since(a, b) == a = b \/ Promise!Later(a, b)

AnswerTrue ==
  \A w \in Worker :
    /\ job[w] = "write" /\ answer[w] = "accepted" => msg[cur[w].id] # NoMessage
    /\ job[w] = "apply" /\ answer[w] = "message" =>
         /\ seen[w] \in Message
         /\ \A r \in Recipient : Since(seen[w][r], msg[cur[w].id][r])

Inv == /\ TypeOK /\ HasItem /\ Distinct /\ SendHeld /\ ReconHeld /\ AnswerTrue
       /\ AttemptsAreLeft /\ LocalIsTrue

-----------------------------------------------------------------------------
(* The provider's messages *)

\* A message is of known shape, and a new one is pending for all.
LEMMA NewMessage ==
  /\ [r \in Recipient |-> "pending"] \in Message
  /\ NoMessage \notin Message
BY BoundsAssumption DEF BoundsAssumption, Message, Promise!Message, Promise!RecipientStatus

LEMMA SinceTransitive ==
  ASSUME NEW a, NEW b, NEW c, Since(a, b), Promise!Later(b, c)
  PROVE  Since(a, c)
BY DEF Since, Promise!Later

\* A justified status stays so while the provider moves on.
LEMMA JustifiedGrows ==
  ASSUME NEW s \in Status, NEW m \in Message, NEW n \in Message,
         \A r \in Recipient : Since(m[r], n[r]), Promise!Justified(s, m)
  PROVE  Promise!Justified(s, n)
<1>1. \A r \in Recipient : m[r] # "pending" => n[r] # "pending"
  BY DEF Since, Promise!Later
<1>2. \A r \in Recipient : m[r] = "delivered" => n[r] = "delivered"
  BY DEF Since, Promise!Later
<1>3. n # NoMessage
  BY NewMessage
<1> QED
  BY <1>1, <1>2, <1>3 DEF Promise!Justified

\* What the aggregate says of a known message is true of it.
LEMMA AggregateJustified ==
  ASSUME NEW m \in Message
  PROVE  /\ Aggregate(m) \in {"accepted", "sent", "delivered", "failed"}
         /\ Promise!Justified(Aggregate(m), m)
<1>1. m # NoMessage
  BY NewMessage
<1> QED
  BY <1>1 DEF Aggregate, Promise!Justified

\* A clamped observation is the current status or a later one.
LEMMA ClampAdvances ==
  ASSUME NEW c \in {"accepted", "sent"}, NEW s \in {"accepted", "sent", "delivered", "failed"}
  PROVE  /\ Clamp(c, s) \in Status
         /\ \/ Clamp(c, s) = c
            \/ Clamp(c, s) = s /\ Promise!Rank[c] < Promise!Rank[s]
<1>1. /\ Promise!Rank["accepted"] = 1 /\ Promise!Rank["sent"] = 2
      /\ Promise!Rank["delivered"] = 3 /\ Promise!Rank["failed"] = 3
  BY DEF Promise!Rank, Promise!Status
<1>2. CASE c = "accepted"
  BY <1>1, <1>2 DEF Clamp, Status, Promise!Status, Promise!Terminal
<1>3. CASE c = "sent"
  BY <1>1, <1>3 DEF Clamp, Status, Promise!Status, Promise!Terminal
<1> QED
  BY <1>2, <1>3

-----------------------------------------------------------------------------
(* Types *)

RowTyped ==
  /\ status \in [Item -> Status]
  /\ attempts \in [Item -> 0 .. MaxAttempts]
  /\ due \in [Item -> BOOLEAN]
  /\ holder \in [Item -> Worker \cup {Nobody}]
  /\ live \in [Item -> BOOLEAN]
  /\ aged \in [Item -> BOOLEAN]
  /\ last \in [Item -> Nat]

ProviderTyped == msg \in [Item -> Message \cup {NoMessage}] /\ gone \in SUBSET Item

WorkerTyped ==
  /\ job \in [Worker -> Job]
  /\ batch \in [Worker -> SUBSET Copy]
  /\ cur \in [Worker -> Copy \cup {NoItem}]
  /\ answer \in [Worker -> Answer]
  /\ seen \in [Worker -> Message \cup {NoMessage}]

LEMMA TypeParts == TypeOK <=> RowTyped /\ ProviderTyped /\ WorkerTyped /\ faults \in 0 .. MaxFaults
BY DEF TypeOK, RowTyped, ProviderTyped, WorkerTyped

LEMMA FaultTyped ==
  ASSUME faults \in 0 .. MaxFaults, Fault \/ NoFault PROVE faults' \in 0 .. MaxFaults
<1>1. MaxFaults \in Nat
  BY BoundsAssumption DEF BoundsAssumption
<1> QED
  BY <1>1 DEF Fault, NoFault

LEMMA TakenTyped ==
  ASSUME ProviderTyped, NEW i \in Item, Taken(i) PROVE ProviderTyped'
BY NewMessage DEF ProviderTyped, Taken

\* A turn to an item, with an answer.
LEMMA TurnTyped ==
  ASSUME WorkerTyped, NEW w \in Worker, NEW item, NEW a \in Answer,
         NEW m \in Message \cup {NoMessage}, NEW next \in Job, Turn(w, item, a, m, next)
  PROVE  WorkerTyped' /\ item \in Copy
<1>1. item \in Copy
  BY DEF WorkerTyped, Turn
<1>2. /\ batch' \in [Worker -> SUBSET Copy] /\ cur' \in [Worker -> Copy \cup {NoItem}]
  BY <1>1 DEF WorkerTyped, Turn
<1>3. /\ job' \in [Worker -> Job] /\ answer' \in [Worker -> Answer]
      /\ seen' \in [Worker -> Message \cup {NoMessage}]
  BY DEF WorkerTyped, Turn
<1> QED
  BY <1>1, <1>2, <1>3 DEF WorkerTyped

LEMMA LeaveTyped ==
  ASSUME WorkerTyped, NEW w \in Worker, NEW back \in Job, Leave(w, back)
  PROVE  WorkerTyped'
BY DEF WorkerTyped, Leave, Job, Answer

LEMMA AbortTyped ==
  ASSUME WorkerTyped, NEW w \in Worker, Abort(w) PROVE WorkerTyped'
BY DEF WorkerTyped, Abort, Job, Answer

LEMMA WrittenTyped ==
  ASSUME WorkerTyped, NEW w \in Worker, Written(w) PROVE WorkerTyped'
BY DEF WorkerTyped, Written, Job, Answer

LEMMA UnlockTyped ==
  ASSUME RowTyped, NEW i \in Item, Unlock(i)
  PROVE  holder' \in [Item -> Worker \cup {Nobody}] /\ live' \in [Item -> BOOLEAN]
BY DEF RowTyped, Unlock

-----------------------------------------------------------------------------
(* What workers have in hand *)

\* A step puts nothing new in anybody's hands.
HandsShrink ==
  \A u \in Worker, item \in Copy :
    (Sends(u, item)' => Sends(u, item)) /\ (Reconciles(u, item)' => Reconciles(u, item))

HandsInv == HasItem /\ Distinct

LEMMA TurnHands ==
  ASSUME WorkerTyped, HandsInv, NEW w \in Worker, NEW item, NEW a, NEW m, NEW next,
         Turn(w, item, a, m, next),
         \/ job[w] = "process" /\ next = "write"
         \/ job[w] = "reconcile" /\ next = "apply"
  PROVE  HandsShrink /\ HandsInv'
<1>1. /\ item \in Copy /\ item \in batch[w]
      /\ batch' = [batch EXCEPT ![w] = @ \ {item}]
      /\ cur' = [cur EXCEPT ![w] = item]
      /\ job' = [job EXCEPT ![w] = next]
      /\ job \in [Worker -> Job] /\ batch \in [Worker -> SUBSET Copy]
      /\ cur \in [Worker -> Copy \cup {NoItem}]
  BY DEF Turn, WorkerTyped
<1>2. HandsShrink
  <2> SUFFICES ASSUME NEW u \in Worker, NEW c \in Copy
               PROVE  (Sends(u, c)' => Sends(u, c)) /\ (Reconciles(u, c)' => Reconciles(u, c))
    BY DEF HandsShrink
  <2>1. CASE u = w
    BY <1>1, <2>1 DEF Sends, Reconciles
  <2>2. CASE u # w
    BY <1>1, <2>2 DEF Sends, Reconciles
  <2> QED
    BY <2>1, <2>2
<1>3. HasItem'
  BY <1>1 DEF HandsInv, HasItem
<1>4. Distinct'
  <2> SUFFICES ASSUME NEW u \in Worker, NEW b \in batch'[u]
               PROVE  /\ cur'[u] # NoItem => b.id # cur'[u].id
                      /\ \A c \in batch'[u] : b.id = c.id => b = c
    BY DEF Distinct
  <2>1. CASE u = w
    BY <1>1, <2>1 DEF HandsInv, Distinct
  <2>2. CASE u # w
    BY <1>1, <2>2 DEF HandsInv, Distinct
  <2> QED
    BY <2>1, <2>2
<1> QED
  BY <1>2, <1>3, <1>4 DEF HandsInv

LEMMA LeaveHands ==
  ASSUME WorkerTyped, HandsInv, NEW w \in Worker, NEW back, Leave(w, back),
         \/ job[w] = "write" /\ back = "process"
         \/ job[w] = "release" /\ back = "reconcile"
  PROVE  HandsShrink /\ HandsInv'
<1>1. /\ batch' = batch
      /\ cur' = [cur EXCEPT ![w] = NoItem]
      /\ job' = [job EXCEPT ![w] = IF batch[w] = {} THEN "idle" ELSE back]
      /\ job \in [Worker -> Job] /\ cur \in [Worker -> Copy \cup {NoItem}]
  BY DEF Leave, WorkerTyped
<1>2. HandsShrink
  <2> SUFFICES ASSUME NEW u \in Worker, NEW c \in Copy
               PROVE  (Sends(u, c)' => Sends(u, c)) /\ (Reconciles(u, c)' => Reconciles(u, c))
    BY DEF HandsShrink
  <2>1. CASE u = w
    BY <1>1, <2>1 DEF Sends, Reconciles
  <2>2. CASE u # w
    BY <1>1, <2>2 DEF Sends, Reconciles
  <2> QED
    BY <2>1, <2>2
<1>3. HasItem' /\ Distinct'
  BY <1>1 DEF HandsInv, HasItem, Distinct
<1> QED
  BY <1>2, <1>3 DEF HandsInv

LEMMA AbortHands ==
  ASSUME WorkerTyped, HandsInv, NEW w \in Worker, Abort(w)
  PROVE  HandsShrink /\ HandsInv'
<1>1. /\ batch' = [batch EXCEPT ![w] = {}]
      /\ cur' = [cur EXCEPT ![w] = NoItem]
      /\ job' = [job EXCEPT ![w] = "idle"]
      /\ job \in [Worker -> Job] /\ batch \in [Worker -> SUBSET Copy]
      /\ cur \in [Worker -> Copy \cup {NoItem}]
  BY DEF Abort, WorkerTyped
<1>2. HandsShrink
  BY <1>1 DEF HandsShrink, Sends, Reconciles
<1>3. HasItem' /\ Distinct'
  BY <1>1 DEF HandsInv, HasItem, Distinct
<1> QED
  BY <1>2, <1>3 DEF HandsInv

LEMMA WrittenHands ==
  ASSUME WorkerTyped, HandsInv, NEW w \in Worker, Written(w), job[w] = "apply"
  PROVE  HandsShrink /\ HandsInv'
<1>1. /\ batch' = batch /\ cur' = cur
      /\ job' = [job EXCEPT ![w] = "release"]
      /\ job \in [Worker -> Job]
  BY DEF Written, WorkerTyped
<1>2. HandsShrink
  BY <1>1 DEF HandsShrink, Sends, Reconciles
<1>3. HasItem' /\ Distinct'
  BY <1>1 DEF HandsInv, HasItem, Distinct
<1> QED
  BY <1>2, <1>3 DEF HandsInv

\* A step of time or of the provider.
LEMMA SameHands ==
  ASSUME HandsInv, UNCHANGED worker PROVE HandsShrink /\ HandsInv'
BY DEF worker, HandsShrink, HandsInv, HasItem, Distinct, Sends, Reconciles

-----------------------------------------------------------------------------
(* What a worker knows *)

LEMMA SinceSince ==
  ASSUME NEW a, NEW b, NEW c, Since(a, b), Since(b, c) PROVE Since(a, c)
BY SinceTransitive DEF Since

\* The provider only moves on.
Grows ==
  \A i \in Item : msg[i] \in Message =>
    msg'[i] \in Message /\ \A r \in Recipient : Since(msg[i][r], msg'[i][r])

HeldInv == SendHeld /\ ReconHeld

LEMMA HeldKept ==
  ASSUME ProviderTyped, HeldInv, HandsShrink, Grows,
         \A u \in Worker, item \in Copy :
           (Sends(u, item)' \/ Reconciles(u, item)') /\ holder'[item.id] = u =>
             /\ holder[item.id] = u
             /\ status'[item.id] = status[item.id]
             /\ attempts'[item.id] = attempts[item.id]
  PROVE  HeldInv'
<1>1. \A item \in Copy : msg[item.id] # NoMessage => msg'[item.id] # NoMessage
  BY NewMessage DEF ProviderTyped, Grows, Copy
<1>2. SendHeld'
  BY DEF HeldInv, SendHeld, HandsShrink
<1>3. ReconHeld'
  BY <1>1 DEF HeldInv, ReconHeld, HandsShrink
<1> QED
  BY <1>2, <1>3 DEF HeldInv

\* A row is written by its holder and unlocked, or not at all.
LEMMA HeldWritten ==
  ASSUME RowTyped, ProviderTyped, HeldInv, HandsShrink, Grows, NEW i \in Item,
         holder'[i] = Nobody,
         \A k \in Item \ {i} : /\ holder'[k] = holder[k]
                               /\ status'[k] = status[k]
                               /\ attempts'[k] = attempts[k]
  PROVE  HeldInv'
<1>1. \A u \in Worker, item \in Copy :
        (Sends(u, item)' \/ Reconciles(u, item)') /\ holder'[item.id] = u =>
          /\ holder[item.id] = u
          /\ status'[item.id] = status[item.id]
          /\ attempts'[item.id] = attempts[item.id]
  BY BoundsAssumption DEF BoundsAssumption, Copy
<1> QED
  BY <1>1, HeldKept

LEMMA HeldSame ==
  ASSUME ProviderTyped, HeldInv, HandsShrink, Grows,
         holder' = holder, status' = status, attempts' = attempts
  PROVE  HeldInv'
BY HeldKept

LEMMA TakenGrows ==
  ASSUME ProviderTyped, NEW i \in Item, Taken(i) \/ UNCHANGED provider
  PROVE  Grows
BY NewMessage DEF Grows, Taken, provider, Since, ProviderTyped

LEMMA LocalKept ==
  ASSUME RowTyped, ProviderTyped, LocalIsTrue, Grows, status' = status
  PROVE  LocalIsTrue'
<1> SUFFICES ASSUME NEW i \in Item PROVE Promise!Justified(status[i], msg'[i])
  BY DEF LocalIsTrue
<1>1. status[i] \in Status /\ Promise!Justified(status[i], msg[i])
  BY DEF RowTyped, LocalIsTrue
<1>2. CASE msg[i] \in Message
  BY <1>1, <1>2, JustifiedGrows DEF Grows
<1>3. CASE msg[i] = NoMessage
  BY <1>1, <1>3 DEF Promise!Justified
<1> QED
  BY <1>2, <1>3 DEF ProviderTyped

\* The other workers' answers stay true.
LEMMA AnswersKept ==
  ASSUME WorkerTyped, ProviderTyped, HasItem, ReconHeld, AnswerTrue, Grows,
         NEW u \in Worker, job'[u] = job[u], answer'[u] = answer[u],
         seen'[u] = seen[u], cur'[u] = cur[u]
  PROVE  /\ job'[u] = "write" /\ answer'[u] = "accepted" => msg'[cur'[u].id] # NoMessage
         /\ job'[u] = "apply" /\ answer'[u] = "message" =>
              /\ seen'[u] \in Message
              /\ \A r \in Recipient : Since(seen'[u][r], msg'[cur'[u].id][r])
<1>1. ASSUME job[u] = "write", answer[u] = "accepted" PROVE msg'[cur[u].id] # NoMessage
  <2>1. cur[u].id \in Item /\ msg[cur[u].id] # NoMessage
    BY <1>1 DEF HasItem, AnswerTrue, Copy
  <2> QED
    BY <2>1, NewMessage DEF ProviderTyped, Grows
<1>2. ASSUME job[u] = "apply", answer[u] = "message"
      PROVE  /\ seen[u] \in Message
             /\ \A r \in Recipient : Since(seen[u][r], msg'[cur[u].id][r])
  <2>1. cur[u] \in Copy /\ cur[u].id \in Item
    BY <1>2 DEF HasItem, Copy
  <2>2. msg[cur[u].id] # NoMessage
    BY <1>2, <2>1 DEF ReconHeld, Reconciles
  <2>3. \A r \in Recipient : Since(msg[cur[u].id][r], msg'[cur[u].id][r])
    BY <2>1, <2>2 DEF ProviderTyped, Grows
  <2>4. seen[u] \in Message /\ \A r \in Recipient : Since(seen[u][r], msg[cur[u].id][r])
    BY <1>2 DEF AnswerTrue
  <2> QED
    BY <2>3, <2>4, SinceSince
<1> QED
  BY <1>1, <1>2

\* A worker that is not about to write back has no answer to be true.
LEMMA AnswersOf ==
  ASSUME WorkerTyped, ProviderTyped, HasItem, ReconHeld, AnswerTrue, Grows, NEW w \in Worker,
         \A u \in Worker \ {w} : /\ job'[u] = job[u] /\ answer'[u] = answer[u]
                                 /\ seen'[u] = seen[u] /\ cur'[u] = cur[u],
         job'[w] \notin {"write", "apply"}
  PROVE  AnswerTrue'
BY AnswersKept DEF AnswerTrue

-----------------------------------------------------------------------------
(* Steps, by what they do to a row *)

\* The invariant, part by part.
LEMMA InvParts ==
  Inv <=> /\ RowTyped /\ ProviderTyped /\ WorkerTyped /\ faults \in 0 .. MaxFaults
          /\ HandsInv /\ HeldInv /\ AnswerTrue /\ AttemptsAreLeft /\ LocalIsTrue
BY TypeParts DEF Inv, HandsInv, HeldInv

LEMMA InvPartsNext ==
  ASSUME RowTyped', ProviderTyped', WorkerTyped', faults' \in 0 .. MaxFaults,
         HandsInv', HeldInv', AnswerTrue', AttemptsAreLeft', LocalIsTrue'
  PROVE  Inv'
<1>1. TypeOK'
  BY DEF TypeOK, RowTyped, ProviderTyped, WorkerTyped
<1> QED
  BY <1>1 DEF Inv, HandsInv, HeldInv

\* The worker's side of a step.
Carried ==
  HandsShrink /\ HandsInv' /\ WorkerTyped' /\ AnswerTrue' /\ faults' \in 0 .. MaxFaults

PromiseStep == Promise!Next \/ UNCHANGED <<status, msg>>

\* The row is left alone.
LEMMA RowSame ==
  ASSUME Inv, Carried, Grows, ProviderTyped', UNCHANGED row
  PROVE  Inv'
<1>0. /\ RowTyped /\ ProviderTyped /\ HeldInv /\ LocalIsTrue /\ AttemptsAreLeft
      /\ holder' = holder /\ status' = status /\ attempts' = attempts /\ due' = due
      /\ live' = live /\ aged' = aged /\ last' = last
  BY InvParts DEF row
<1>1. RowTyped'
  BY <1>0 DEF RowTyped
<1>2. HeldInv'
  BY <1>0, HeldSame DEF Carried
<1>3. LocalIsTrue'
  BY <1>0, LocalKept
<1>4. AttemptsAreLeft'
  BY <1>0 DEF AttemptsAreLeft
<1> QED
  BY <1>1, <1>2, <1>3, <1>4, InvPartsNext DEF Carried

LEMMA SameGrows == ASSUME UNCHANGED provider PROVE Grows
BY DEF provider, Grows, Since

\* The holder of a row writes it, gives up the lease, and the status advances.
LEMMA RowWritten ==
  ASSUME Inv, Carried, UNCHANGED provider, NEW i \in Item, Unlock(i),
         NEW s \in Status, NEW n \in 0 .. MaxAttempts,
         status' = [status EXCEPT ![i] = s],
         attempts' = [attempts EXCEPT ![i] = n],
         due' \in [Item -> BOOLEAN], UNCHANGED <<aged, last>>,
         s \notin Promise!Terminal => n < MaxAttempts,
         Promise!Justified(s, msg[i]),
         s = status[i] \/ Promise!Rank[status[i]] < Promise!Rank[s]
  PROVE  Inv' /\ PromiseStep
<1>0. /\ RowTyped /\ ProviderTyped /\ HeldInv /\ LocalIsTrue /\ AttemptsAreLeft
      /\ msg' = msg /\ gone' = gone
      /\ status \in [Item -> Status] /\ attempts \in [Item -> 0 .. MaxAttempts]
  BY InvParts DEF provider, RowTyped
<1>1. RowTyped'
  BY <1>0, UnlockTyped DEF RowTyped
<1>2. ProviderTyped'
  BY <1>0 DEF ProviderTyped
<1>3. HeldInv'
  <2>1. holder'[i] = Nobody /\ \A k \in Item \ {i} : holder'[k] = holder[k]
    BY <1>0 DEF Unlock, RowTyped
  <2>2. \A k \in Item \ {i} : status'[k] = status[k] /\ attempts'[k] = attempts[k]
    BY <1>0
  <2> QED
    BY <1>0, <2>1, <2>2, HeldWritten, SameGrows DEF Carried
<1>4. LocalIsTrue'
  BY <1>0 DEF LocalIsTrue
<1>5. AttemptsAreLeft'
  BY <1>0 DEF AttemptsAreLeft
<1>6. Inv'
  BY <1>1, <1>2, <1>3, <1>4, <1>5, InvPartsNext DEF Carried
<1>7. PromiseStep
  <2>1. CASE s = status[i]
    BY <1>0, <2>1 DEF PromiseStep
  <2>2. CASE Promise!Rank[status[i]] < Promise!Rank[s]
    <3>1. Promise!Advance(i)
      BY <1>0, <2>2 DEF Promise!Advance, Status
    <3> QED
      BY <3>1 DEF PromiseStep, Promise!Next
  <2> QED
    BY <2>1, <2>2
<1> QED
  BY <1>6, <1>7

LEMMA Ranks ==
  /\ Promise!Rank["queued"] = 0 /\ Promise!Rank["accepted"] = 1 /\ Promise!Rank["sent"] = 2
  /\ Promise!Rank["delivered"] = 3 /\ Promise!Rank["failed"] = 3
  /\ {"queued", "accepted", "sent", "delivered", "failed"} = Status
BY DEF Promise!Rank, Promise!Status, Status

\* mark_failed, on a row that is not terminal.
LEMMA FailedStep ==
  ASSUME Inv, Carried, UNCHANGED provider, NEW i \in Item, MarkFailed(i),
         status[i] \in {"queued", "accepted", "sent"}
  PROVE  Inv' /\ PromiseStep
<1>0. RowTyped /\ attempts[i] \in 0 .. MaxAttempts /\ attempts[i] < MaxAttempts
  BY InvParts DEF RowTyped, AttemptsAreLeft, Promise!Terminal
<1>1. MaxAttempts \in Nat
  BY BoundsAssumption DEF BoundsAssumption
<1>2. attempts[i] + 1 \in 0 .. MaxAttempts
  BY <1>0, <1>1
<1>3. Promise!Justified("failed", msg[i]) /\ "failed" \in Promise!Terminal
  BY DEF Promise!Justified, Promise!Terminal
<1>4. Promise!Rank[status[i]] < Promise!Rank["failed"]
  BY Ranks
<1>5. attempts' = [attempts EXCEPT ![i] = attempts[i] + 1]
  BY DEF MarkFailed
<1> QED
  BY <1>0, <1>2, <1>3, <1>4, <1>5, RowWritten, Ranks DEF MarkFailed, RowTyped

\* mark_accepted, of a queued row whose message the provider has.
LEMMA AcceptedStep ==
  ASSUME Inv, Carried, UNCHANGED provider, NEW i \in Item, MarkAccepted(i),
         status[i] = "queued", msg[i] # NoMessage
  PROVE  Inv' /\ PromiseStep
<1>0. RowTyped /\ attempts[i] \in 0 .. MaxAttempts /\ attempts[i] < MaxAttempts
  BY InvParts DEF RowTyped, AttemptsAreLeft, Promise!Terminal
<1>1. Promise!Justified("accepted", msg[i])
  BY DEF Promise!Justified
<1>2. Promise!Rank[status[i]] < Promise!Rank["accepted"]
  BY Ranks
<1>3. attempts' = [attempts EXCEPT ![i] = attempts[i]]
  BY <1>0 DEF MarkAccepted, RowTyped
<1> QED
  BY <1>0, <1>1, <1>2, <1>3, RowWritten, Ranks DEF MarkAccepted, RowTyped

\* mark_retry, with an attempt to spare.
LEMMA RetryStep ==
  ASSUME Inv, Carried, UNCHANGED provider, NEW i \in Item, MarkRetry(i),
         status[i] = "queued", attempts[i] + 1 < MaxAttempts
  PROVE  Inv' /\ PromiseStep
<1>0. RowTyped /\ attempts[i] \in 0 .. MaxAttempts /\ status[i] \in Status
  BY InvParts DEF RowTyped
<1>1. MaxAttempts \in Nat
  BY BoundsAssumption DEF BoundsAssumption
<1>2. attempts[i] + 1 \in 0 .. MaxAttempts
  BY <1>0, <1>1
<1>3. Promise!Justified(status[i], msg[i])
  BY InvParts DEF LocalIsTrue
<1>4. /\ attempts' = [attempts EXCEPT ![i] = attempts[i] + 1]
      /\ status' = [status EXCEPT ![i] = status[i]]
      /\ due' \in [Item -> BOOLEAN] /\ Unlock(i) /\ UNCHANGED <<aged, last>>
  BY <1>0 DEF MarkRetry, RowTyped
<1> QED
  BY <1>0, <1>2, <1>3, <1>4, RowWritten

\* release
LEMMA ReleasedStep ==
  ASSUME Inv, Carried, UNCHANGED provider, NEW i \in Item, Release(i)
  PROVE  Inv' /\ PromiseStep
<1>0. RowTyped /\ attempts[i] \in 0 .. MaxAttempts /\ status[i] \in Status
  BY InvParts DEF RowTyped
<1>1. status[i] \notin Promise!Terminal => attempts[i] < MaxAttempts
  BY InvParts DEF AttemptsAreLeft
<1>2. Promise!Justified(status[i], msg[i])
  BY InvParts DEF LocalIsTrue
<1>3. /\ attempts' = [attempts EXCEPT ![i] = attempts[i]]
      /\ status' = [status EXCEPT ![i] = status[i]]
      /\ due' \in [Item -> BOOLEAN] /\ Unlock(i) /\ UNCHANGED <<aged, last>>
  BY <1>0 DEF Release, RowTyped
<1> QED
  BY <1>0, <1>1, <1>2, <1>3, RowWritten

-----------------------------------------------------------------------------
(* Steps, by what the worker does *)

\* A call returns: the worker turns to an item with a true answer.
LEMMA TurnStep ==
  ASSUME Inv, NEW w \in Worker, NEW item, NEW a \in Answer,
         NEW m \in Message \cup {NoMessage}, NEW next \in Job,
         Turn(w, item, a, m, next),
         \/ job[w] = "process" /\ next = "write"
         \/ job[w] = "reconcile" /\ next = "apply",
         Grows, ProviderTyped', UNCHANGED row, Fault \/ NoFault,
         a = "accepted" => next = "write" /\ msg'[item.id] # NoMessage,
         a = "message" => m = msg[item.id] /\ m \in Message
  PROVE  Inv' /\ item \in Copy
<1>0. /\ ProviderTyped /\ WorkerTyped /\ HandsInv /\ HasItem /\ ReconHeld /\ AnswerTrue
  BY InvParts DEF HandsInv, HeldInv
<1>1. WorkerTyped' /\ item \in Copy
  BY <1>0, TurnTyped
<1>2. HandsShrink /\ HandsInv'
  BY <1>0, TurnHands
<1>3. faults' \in 0 .. MaxFaults
  BY InvParts, FaultTyped
<1>4. /\ job'[w] = next /\ answer'[w] = a /\ seen'[w] = m /\ cur'[w] = item
      /\ \A u \in Worker \ {w} : /\ job'[u] = job[u] /\ answer'[u] = answer[u]
                                 /\ seen'[u] = seen[u] /\ cur'[u] = cur[u]
  BY <1>0 DEF Turn, WorkerTyped
<1>5. AnswerTrue'
  <2>1. job'[w] = "write" /\ answer'[w] = "accepted" => msg'[cur'[w].id] # NoMessage
    BY <1>4
  <2>2. ASSUME job'[w] = "apply", answer'[w] = "message"
        PROVE  /\ seen'[w] \in Message
               /\ \A r \in Recipient : Since(seen'[w][r], msg'[cur'[w].id][r])
    <3>1. m = msg[item.id] /\ m \in Message /\ item.id \in Item
      BY <1>1, <1>4, <2>2 DEF Copy
    <3> QED
      BY <1>4, <3>1 DEF Grows
  <2> QED
    BY <1>0, <1>4, <2>1, <2>2, AnswersKept DEF AnswerTrue
<1>6. Inv'
  BY <1>1, <1>2, <1>3, <1>5, RowSame DEF Carried
<1> QED
  BY <1>1, <1>6

\* The worker leaves an item, ends its round, or goes on to release it.
LEMMA WorkerCarries ==
  ASSUME Inv, NEW w \in Worker, Grows, Fault \/ NoFault,
         \/ Abort(w)
         \/ job[w] = "write" /\ Leave(w, "process")
         \/ job[w] = "release" /\ Leave(w, "reconcile")
         \/ job[w] = "apply" /\ Written(w)
  PROVE  Carried
<1>0. /\ ProviderTyped /\ WorkerTyped /\ HandsInv /\ HasItem /\ ReconHeld /\ AnswerTrue
      /\ {"process", "reconcile"} \subseteq Job
  BY InvParts DEF HandsInv, HeldInv, Job
<1>1. WorkerTyped'
  BY <1>0, AbortTyped, LeaveTyped, WrittenTyped
<1>2. HandsShrink /\ HandsInv'
  BY <1>0, AbortHands, LeaveHands, WrittenHands
<1>3. faults' \in 0 .. MaxFaults
  BY InvParts, FaultTyped
<1>4. /\ job'[w] \notin {"write", "apply"}
      /\ \A u \in Worker \ {w} : /\ job'[u] = job[u] /\ answer'[u] = answer[u]
                                 /\ seen'[u] = seen[u] /\ cur'[u] = cur[u]
  BY <1>0 DEF Abort, Leave, Written, WorkerTyped
<1>5. AnswerTrue'
  BY <1>0, <1>4, AnswersOf
<1> QED
  BY <1>1, <1>2, <1>3, <1>5 DEF Carried

\* A step that writes no row and takes no message.
LEMMA QuietPromise == UNCHANGED <<row, provider>> => PromiseStep
BY DEF row, provider, PromiseStep

LEMMA TakenPromise ==
  ASSUME ProviderTyped, NEW i \in Item, Taken(i) \/ UNCHANGED provider, UNCHANGED row
  PROVE  PromiseStep
<1>1. status' = status
  BY DEF row
<1>2. CASE Taken(i) /\ msg[i] = NoMessage
  <2>1. Promise!Take(i)
    BY <1>1, <1>2 DEF Taken, Promise!Take
  <2> QED
    BY <2>1 DEF PromiseStep, Promise!Next
<1>3. CASE Taken(i) /\ msg[i] # NoMessage
  BY <1>1, <1>3 DEF Taken, PromiseStep, ProviderTyped
<1> QED
  BY <1>1, <1>2, <1>3 DEF PromiseStep, provider

\* The six outcomes of handling an item of the batch.
LEMMA SendStep ==
  ASSUME Inv, NEW w \in Worker, NEW item \in batch[w],
         \/ SendOk(w, item) \/ Mismatch(w, item) \/ SendUnavailable(w, item)
         \/ SendRejected(w, item) \/ SendNoId(w, item)
  PROVE  Inv' /\ PromiseStep
<1>0. /\ ProviderTyped /\ WorkerTyped /\ item \in Copy /\ item.id \in Item
      /\ {"accepted", "retry", "fail", "no_id"} \subseteq Answer /\ "write" \in Job
  BY InvParts DEF WorkerTyped, Copy, Answer, Job
<1>1. /\ Taken(item.id) \/ UNCHANGED provider
      /\ UNCHANGED row
      /\ Fault \/ NoFault
      /\ job[w] = "process"
  BY DEF SendOk, Mismatch, SendUnavailable, SendRejected, SendNoId
<1>2. Grows /\ ProviderTyped'
  <2>1. Grows
    BY <1>0, <1>1, TakenGrows
  <2>2. CASE Taken(item.id)
    BY <1>0, <2>1, <2>2, TakenTyped
  <2>3. CASE UNCHANGED provider
    BY <1>0, <2>1, <2>3 DEF ProviderTyped, provider
  <2> QED
    BY <1>1, <2>1, <2>2, <2>3
<1>3. PromiseStep
  BY <1>0, <1>1, TakenPromise
<1>4. PICK a \in {"accepted", "retry", "fail", "no_id"} : Turn(w, item, a, NoMessage, "write")
  BY DEF SendOk, Mismatch, SendUnavailable, SendRejected, SendNoId
<1>5. a = "accepted" => msg'[item.id] # NoMessage
  <2>1. CASE SendOk(w, item)
    BY <1>0, <2>1, NewMessage DEF SendOk, Taken, ProviderTyped
  <2>2. CASE ~SendOk(w, item)
    <3>1. answer'[w] # "accepted"
      BY <1>0, <2>2 DEF Mismatch, SendUnavailable, SendRejected, SendNoId, Turn, WorkerTyped
    <3> QED
      BY <1>0, <1>4, <3>1 DEF Turn, WorkerTyped
  <2> QED
    BY <2>1, <2>2
<1>6. Inv'
  BY <1>0, <1>1, <1>2, <1>4, <1>5, TurnStep
<1> QED
  BY <1>3, <1>6

LEMMA SendRaisesStep ==
  ASSUME Inv, NEW w \in Worker, NEW item \in batch[w], SendRaises(w, item)
  PROVE  Inv' /\ PromiseStep
<1>0. /\ ProviderTyped /\ WorkerTyped /\ item \in Copy /\ item.id \in Item
  BY InvParts DEF WorkerTyped, Copy
<1>1. /\ Taken(item.id) \/ UNCHANGED provider
      /\ UNCHANGED row /\ Fault /\ Abort(w)
  BY DEF SendRaises
<1>2. Grows
  BY <1>0, <1>1, TakenGrows
<1>3. ProviderTyped'
  <2>1. CASE Taken(item.id)
    BY <1>0, <2>1, TakenTyped
  <2>2. CASE UNCHANGED provider
    BY <1>0, <2>2 DEF ProviderTyped, provider
  <2> QED
    BY <1>1, <2>1, <2>2
<1>4. Inv'
  BY <1>1, <1>2, <1>3, WorkerCarries, RowSame
<1>5. PromiseStep
  BY <1>0, <1>1, TakenPromise
<1> QED
  BY <1>4, <1>5

\* The worker's own end of an item, the row left alone.
LEMMA NotWritten ==
  ASSUME Inv, NEW w \in Worker, UNCHANGED <<row, provider>>, Fault \/ NoFault,
         \/ Abort(w)
         \/ job[w] = "write" /\ Leave(w, "process")
         \/ job[w] = "release" /\ Leave(w, "reconcile")
         \/ job[w] = "apply" /\ Written(w)
  PROVE  Inv' /\ PromiseStep
<1>1. Grows /\ Carried
  BY SameGrows, WorkerCarries
<1>2. ProviderTyped'
  BY InvParts DEF ProviderTyped, provider
<1> QED
  BY <1>1, <1>2, RowSame, QuietPromise

\* What a worker that still holds the row of its item knows of it.
LEMMA HeldKnown ==
  ASSUME Inv, NEW w \in Worker, job[w] \in {"write", "apply", "release"}
  PROVE  /\ cur[w] \in Copy /\ cur[w].id \in Item /\ cur[w].attempts \in 0 .. MaxAttempts
         /\ job[w] = "write" /\ Leased(w, cur[w].id) =>
              status[cur[w].id] = "queued" /\ attempts[cur[w].id] = cur[w].attempts
         /\ job[w] = "apply" =>
              /\ msg[cur[w].id] # NoMessage
              /\ Leased(w, cur[w].id) => status[cur[w].id] \in {"accepted", "sent"}
BY InvParts DEF HandsInv, HasItem, HeldInv, SendHeld, ReconHeld, Sends, Reconciles, Leased, Copy

LEMMA WriteAcceptedStep ==
  ASSUME Inv, NEW w \in Worker, WriteAccepted(w)
  PROVE  Inv' /\ PromiseStep
<1>0. /\ job[w] = "write" /\ Leave(w, "process") /\ NoFault /\ UNCHANGED provider
      /\ msg[cur[w].id] # NoMessage
  BY InvParts DEF WriteAccepted, AnswerTrue
<1>1. CASE Leased(w, cur[w].id)
  <2>1. MarkAccepted(cur[w].id)
    BY <1>1 DEF WriteAccepted, Fenced
  <2> QED
    BY <1>0, <1>1, <2>1, HeldKnown, SameGrows, WorkerCarries, AcceptedStep
<1>2. CASE ~Leased(w, cur[w].id)
  BY <1>0, <1>2, NotWritten DEF WriteAccepted, Fenced
<1> QED
  BY <1>1, <1>2

LEMMA WriteRefusedStep ==
  ASSUME Inv, NEW w \in Worker, WriteRefused(w)
  PROVE  Inv' /\ PromiseStep
<1>0. job[w] = "write" /\ Leave(w, "process") /\ NoFault /\ UNCHANGED provider
  BY DEF WriteRefused
<1>1. CASE Leased(w, cur[w].id)
  <2>0. Carried
    BY <1>0, SameGrows, WorkerCarries
  <2>1. /\ cur[w].id \in Item /\ cur[w].attempts \in 0 .. MaxAttempts
        /\ status[cur[w].id] = "queued" /\ attempts[cur[w].id] = cur[w].attempts
    BY <1>0, <1>1, HeldKnown
  <2>2. MaxAttempts \in Nat
    BY BoundsAssumption DEF BoundsAssumption
  <2>3. \/ MarkFailed(cur[w].id)
        \/ MarkRetry(cur[w].id) /\ attempts[cur[w].id] + 1 < MaxAttempts
    BY <1>1, <2>1, <2>2 DEF WriteRefused, Fenced, RetryOrExhaust
  <2> QED
    BY <1>0, <2>0, <2>1, <2>3, FailedStep, RetryStep
<1>2. CASE ~Leased(w, cur[w].id)
  BY <1>0, <1>2, NotWritten DEF WriteRefused, Fenced
<1> QED
  BY <1>1, <1>2

LEMMA WriteNoIdStep ==
  ASSUME Inv, NEW w \in Worker, WriteNoId(w)
  PROVE  Inv' /\ PromiseStep
<1>0. job[w] = "write" /\ Abort(w) /\ NoFault /\ UNCHANGED provider
  BY DEF WriteNoId
<1>1. CASE Leased(w, cur[w].id)
  <2>1. Release(cur[w].id)
    BY <1>1 DEF WriteNoId, Fenced
  <2> QED
    BY <1>0, <2>1, HeldKnown, SameGrows, WorkerCarries, ReleasedStep
<1>2. CASE ~Leased(w, cur[w].id)
  BY <1>0, <1>2, NotWritten DEF WriteNoId, Fenced
<1> QED
  BY <1>1, <1>2

-----------------------------------------------------------------------------
(* Reconciling *)

LEMMA GetStep ==
  ASSUME Inv, NEW w \in Worker, NEW item \in batch[w],
         Get(w, item) \/ GetMissing(w, item) \/ GetFails(w, item)
  PROVE  Inv' /\ PromiseStep
<1>0. /\ ProviderTyped /\ item \in Copy /\ item.id \in Item
      /\ {"message", "missing", "error"} \subseteq Answer /\ "apply" \in Job
  BY InvParts DEF WorkerTyped, Copy, Answer, Job
<1>1. UNCHANGED <<row, provider>> /\ (Fault \/ NoFault) /\ job[w] = "reconcile"
  BY DEF Get, GetMissing, GetFails
<1>2. Grows /\ ProviderTyped'
  BY <1>0, <1>1, SameGrows DEF ProviderTyped, provider
<1>3. CASE Get(w, item)
  <2>1. Turn(w, item, "message", msg[item.id], "apply")
    BY <1>3 DEF Get
  <2>2. msg[item.id] \in Message
    BY <1>0, <1>1, InvParts DEF HeldInv, ReconHeld, Reconciles, ProviderTyped
  <2> QED
    BY <1>0, <1>1, <1>2, <2>1, <2>2, TurnStep, QuietPromise
<1>4. CASE GetMissing(w, item)
  <2>1. Turn(w, item, "missing", NoMessage, "apply")
    BY <1>4 DEF GetMissing
  <2> QED
    BY <1>0, <1>1, <1>2, <2>1, TurnStep, QuietPromise
<1>5. CASE GetFails(w, item)
  <2>1. Turn(w, item, "error", NoMessage, "apply")
    BY <1>5 DEF GetFails
  <2> QED
    BY <1>0, <1>1, <1>2, <2>1, TurnStep, QuietPromise
<1> QED
  BY <1>3, <1>4, <1>5

LEMMA StampTyped ==
  ASSUME RowTyped, NEW i \in Item, Stamp(i) PROVE last' \in [Item -> Nat]
<1>1. Cardinality(Item) \in Nat
  BY BoundsAssumption, FS_CardinalityType DEF BoundsAssumption
<1>2. \A k \in Item : last[k] \in Nat /\ last[i] \in Nat
  BY DEF RowTyped
<1>3. \A k \in Item : last[k] > last[i] => last[k] - 1 \in Nat
  BY <1>2
<1> QED
  BY <1>1, <1>2, <1>3 DEF Stamp

\* A row is observed, under its lease: status and stamp change, nothing else.
LEMMA ObservedStep ==
  ASSUME Inv, Carried, UNCHANGED provider, NEW w \in Worker, job[w] = "apply", Written(w),
         Leased(w, cur[w].id), NEW s \in Status,
         status' = [status EXCEPT ![cur[w].id] = s], Stamp(cur[w].id),
         UNCHANGED <<attempts, due, holder, live, aged>>,
         Promise!Justified(s, msg[cur[w].id]),
         \/ s = status[cur[w].id]
         \/ Promise!Rank[status[cur[w].id]] < Promise!Rank[s]
  PROVE  Inv' /\ PromiseStep
<1> DEFINE i == cur[w].id
<1>0. /\ RowTyped /\ ProviderTyped /\ WorkerTyped /\ HeldInv /\ HandsInv
      /\ LocalIsTrue /\ AttemptsAreLeft
      /\ status \in [Item -> Status] /\ attempts \in [Item -> 0 .. MaxAttempts]
      /\ msg' = msg /\ gone' = gone
  BY InvParts DEF provider, RowTyped
<1>1. /\ i \in Item /\ cur[w] \in Copy /\ status[i] \in {"accepted", "sent"}
  BY HeldKnown
<1>2. RowTyped'
  BY <1>0, <1>1, StampTyped DEF RowTyped
<1>3. ProviderTyped'
  BY <1>0 DEF ProviderTyped
<1>4. \A u \in Worker, item \in Copy :
        (Sends(u, item)' \/ Reconciles(u, item)') /\ holder'[item.id] = u =>
          /\ holder[item.id] = u
          /\ status'[item.id] = status[item.id]
          /\ attempts'[item.id] = attempts[item.id]
  <2> SUFFICES ASSUME NEW u \in Worker, NEW item \in Copy,
                      Sends(u, item)' \/ Reconciles(u, item)', holder[item.id] = u
               PROVE  item.id # i
    BY <1>0, <1>1
  <2> SUFFICES ASSUME item.id = i PROVE FALSE
    OBVIOUS
  <2>1. u = w
    BY DEF Leased
  <2>2. job'[w] = "release" /\ batch' = batch
    BY <1>0 DEF Written, WorkerTyped
  <2>3. item \in batch[w]
    BY <2>1, <2>2 DEF Sends, Reconciles
  <2>4. cur[w] # NoItem
    <3>1. cur[w] \in [id : Item, attempts : Nat, last : Nat]
      BY <1>1 DEF Copy
    <3> QED
      BY <3>1, BoundsAssumption DEF BoundsAssumption
  <2> QED
    BY <1>0, <2>3, <2>4 DEF HandsInv, Distinct
<1>5. HeldInv'
  BY <1>0, <1>4, HeldKept, SameGrows DEF Carried
<1>6. LocalIsTrue'
  BY <1>0, <1>1 DEF LocalIsTrue
<1>7. AttemptsAreLeft'
  <2>1. attempts[i] < MaxAttempts
    BY <1>0, <1>1 DEF AttemptsAreLeft, Promise!Terminal
  <2> QED
    BY <1>0, <1>1, <2>1 DEF AttemptsAreLeft
<1>8. Inv'
  BY <1>2, <1>3, <1>5, <1>6, <1>7, InvPartsNext DEF Carried
<1>9. PromiseStep
  <2>1. CASE s = status[i]
    BY <1>0, <2>1 DEF PromiseStep
  <2>2. CASE Promise!Rank[status[i]] < Promise!Rank[s]
    <3>1. Promise!Advance(i)
      BY <1>0, <2>2 DEF Promise!Advance, Status
    <3> QED
      BY <1>1, <3>1 DEF PromiseStep, Promise!Next
  <2> QED
    BY <2>1, <2>2
<1> QED
  BY <1>8, <1>9

LEMMA ApplyStep ==
  ASSUME Inv, NEW w \in Worker, Apply(w)
  PROVE  Inv' /\ PromiseStep
<1>0. /\ job[w] = "apply" /\ answer[w] = "message" /\ Written(w) /\ NoFault
      /\ UNCHANGED provider
  BY DEF Apply
<1>1. CASE Leased(w, cur[w].id)
  <2> DEFINE i == cur[w].id
             a == Aggregate(seen[w])
             s == Clamp(status[i], a)
  <2>0. Carried
    BY <1>0, SameGrows, WorkerCarries
  <2>1. i \in Item /\ status[i] \in {"accepted", "sent"} /\ msg[i] \in Message
    BY <1>0, <1>1, HeldKnown, InvParts DEF ProviderTyped
  <2>2. seen[w] \in Message /\ \A r \in Recipient : Since(seen[w][r], msg[i][r])
    BY <1>0, InvParts DEF AnswerTrue
  <2>3. a \in {"accepted", "sent", "delivered", "failed"} /\ Promise!Justified(a, msg[i])
    BY <2>1, <2>2, AggregateJustified, JustifiedGrows, Ranks
  <2>4. /\ s \in Status
        /\ \/ s = status[i]
           \/ s = a /\ Promise!Rank[status[i]] < Promise!Rank[a]
    BY <2>1, <2>3, ClampAdvances
  <2>5. Promise!Justified(s, msg[i])
    BY <2>1, <2>3, <2>4, InvParts DEF LocalIsTrue
  <2>6. /\ status' = [status EXCEPT ![i] = s] /\ Stamp(i)
        /\ UNCHANGED <<attempts, due, holder, live, aged>>
    BY <1>1 DEF Apply, Fenced
  <2> HIDE DEF a, s
  <2> QED
    BY <1>0, <1>1, <2>0, <2>4, <2>5, <2>6, ObservedStep
<1>2. CASE ~Leased(w, cur[w].id)
  BY <1>0, <1>2, NotWritten DEF Apply, Fenced
<1> QED
  BY <1>1, <1>2

LEMMA ApplyErrorStep ==
  ASSUME Inv, NEW w \in Worker, ApplyError(w)
  PROVE  Inv' /\ PromiseStep
<1>0. job[w] = "apply" /\ Written(w) /\ NoFault /\ UNCHANGED provider
  BY DEF ApplyError
<1>1. CASE Leased(w, cur[w].id)
  <2> DEFINE i == cur[w].id
  <2>0. Carried
    BY <1>0, SameGrows, WorkerCarries
  <2>1. Stamp(i) /\ UNCHANGED <<status, attempts, due, holder, live, aged>>
    BY <1>1 DEF ApplyError, Fenced
  <2>2. /\ i \in Item /\ status \in [Item -> Status] /\ status[i] \in Status
        /\ Promise!Justified(status[i], msg[i])
    BY <1>0, HeldKnown, InvParts DEF RowTyped, LocalIsTrue
  <2>3. status' = [status EXCEPT ![i] = status[i]]
    BY <2>1, <2>2
  <2> QED
    BY <1>0, <1>1, <2>0, <2>1, <2>2, <2>3, ObservedStep
<1>2. CASE ~Leased(w, cur[w].id)
  BY <1>0, <1>2, NotWritten DEF ApplyError, Fenced
<1> QED
  BY <1>1, <1>2

LEMMA ApplyMissingStep ==
  ASSUME Inv, NEW w \in Worker, ApplyMissing(w)
  PROVE  Inv' /\ PromiseStep
<1>0. job[w] = "apply" /\ Written(w) /\ NoFault /\ UNCHANGED provider
  BY DEF ApplyMissing
<1>1. CASE Leased(w, cur[w].id)
  <2>1. MarkFailed(cur[w].id)
    BY <1>1 DEF ApplyMissing, Fenced
  <2> QED
    BY <1>0, <1>1, <2>1, HeldKnown, SameGrows, WorkerCarries, FailedStep
<1>2. CASE ~Leased(w, cur[w].id)
  BY <1>0, <1>2, NotWritten DEF ApplyMissing, Fenced
<1> QED
  BY <1>1, <1>2

LEMMA ReleaseRowStep ==
  ASSUME Inv, NEW w \in Worker, ReleaseRow(w)
  PROVE  Inv' /\ PromiseStep
<1>0. job[w] = "release" /\ Leave(w, "reconcile") /\ NoFault /\ UNCHANGED provider
  BY DEF ReleaseRow
<1>1. CASE Leased(w, cur[w].id)
  <2>1. Release(cur[w].id)
    BY <1>1 DEF ReleaseRow, Fenced
  <2> QED
    BY <1>0, <2>1, HeldKnown, SameGrows, WorkerCarries, ReleasedStep
<1>2. CASE ~Leased(w, cur[w].id)
  BY <1>0, <1>2, NotWritten DEF ReleaseRow, Fenced
<1> QED
  BY <1>1, <1>2

-----------------------------------------------------------------------------
(* Claims *)

\* A claim hands the rows to w, as they are.
LEMMA ClaimStep ==
  ASSUME Inv, NEW w \in Worker, NEW S \in SUBSET Item, NEW next, Claim(w, S, next),
         \/ next = "process" /\ \A i \in S : status[i] = "queued"
         \/ next = "reconcile" /\ \A i \in S : status[i] \in {"accepted", "sent"}
  PROVE  Inv' /\ PromiseStep
<1> DEFINE copies == {[id |-> i, attempts |-> attempts[i], last |-> last[i]] : i \in S}
<1>0. /\ RowTyped /\ ProviderTyped /\ WorkerTyped /\ HandsInv /\ HeldInv /\ AnswerTrue
      /\ LocalIsTrue /\ AttemptsAreLeft /\ faults \in 0 .. MaxFaults
      /\ {"process", "reconcile"} \subseteq Job
  BY InvParts DEF Job
<1>1. /\ job[w] = "idle"
      /\ holder' = [i \in Item |-> IF i \in S THEN w ELSE holder[i]]
      /\ live' = [i \in Item |-> i \in S \/ live[i]]
      /\ batch' = [batch EXCEPT ![w] = copies]
      /\ job' = [job EXCEPT ![w] = next]
      /\ status' = status /\ attempts' = attempts /\ due' = due /\ aged' = aged
      /\ last' = last /\ msg' = msg /\ gone' = gone /\ cur' = cur /\ answer' = answer
      /\ seen' = seen /\ faults' = faults
  BY DEF Claim, NoFault, provider
<1>2. copies \in SUBSET Copy
  BY <1>0 DEF RowTyped, Copy
<1>3. \A item \in copies : item.id \in S /\ item.attempts = attempts[item.id]
  OBVIOUS
<1>4. \A a, b \in copies : a.id = b.id => a = b
  OBVIOUS
<1>5. cur[w] = NoItem
  BY <1>0, <1>1 DEF HandsInv, HasItem
<1> HIDE DEF copies
<1>6. RowTyped'
  <2>1. holder' \in [Item -> Worker \cup {Nobody}]
    BY <1>0, <1>1 DEF RowTyped
  <2>2. live' \in [Item -> BOOLEAN]
    BY <1>1
  <2> QED
    BY <1>0, <1>1, <2>1, <2>2 DEF RowTyped
<1>7. ProviderTyped' /\ WorkerTyped'
  BY <1>0, <1>1, <1>2 DEF ProviderTyped, WorkerTyped
<1>8. HandsInv'
  <2>1. HasItem'
    BY <1>0, <1>1, <1>5 DEF HandsInv, HasItem, WorkerTyped
  <2>2. Distinct'
    BY <1>0, <1>1, <1>4, <1>5 DEF HandsInv, Distinct, WorkerTyped
  <2> QED
    BY <2>1, <2>2 DEF HandsInv
<1>9. HeldInv'
  <2>1. ASSUME NEW item \in Copy, Sends(w, item)'
        PROVE  status[item.id] = "queued" /\ attempts[item.id] = item.attempts
    <3>1. job'[w] = next /\ next # "write" /\ next = "process" /\ item \in copies
      BY <1>0, <1>1, <2>1 DEF Sends, WorkerTyped
    <3> QED
      BY <1>3, <3>1
  <2>2. ASSUME NEW item \in Copy, Reconciles(w, item)'
        PROVE  msg[item.id] # NoMessage /\ status[item.id] \in {"accepted", "sent"}
    <3>1. next = "reconcile" /\ item \in copies
      BY <1>0, <1>1, <2>2 DEF Reconciles, WorkerTyped
    <3>2. item.id \in Item /\ status[item.id] \in {"accepted", "sent"}
      BY <1>3, <3>1
    <3> QED
      BY <1>0, <3>2 DEF LocalIsTrue, Promise!Justified
  <2>3. ASSUME NEW u \in Worker, u # w, NEW item \in Copy
        PROVE  /\ Sends(u, item)' <=> Sends(u, item)
               /\ Reconciles(u, item)' <=> Reconciles(u, item)
               /\ holder'[item.id] = u => holder[item.id] = u
    <3>1. item.id \in Item
      BY DEF Copy
    <3> QED
      BY <1>0, <1>1, <2>3, <3>1 DEF Sends, Reconciles, WorkerTyped
  <2>4. SendHeld'
    BY <1>0, <1>1, <2>1, <2>3 DEF HeldInv, SendHeld
  <2>5. ReconHeld'
    BY <1>0, <1>1, <2>2, <2>3 DEF HeldInv, ReconHeld
  <2> QED
    BY <2>4, <2>5 DEF HeldInv
<1>10. AnswerTrue'
  BY <1>0, <1>1 DEF AnswerTrue, WorkerTyped
<1>11. LocalIsTrue' /\ AttemptsAreLeft'
  BY <1>0, <1>1 DEF LocalIsTrue, AttemptsAreLeft
<1>12. Inv'
  BY <1>0, <1>1, <1>6, <1>7, <1>8, <1>9, <1>10, <1>11, InvPartsNext
<1>13. PromiseStep
  BY <1>1 DEF PromiseStep
<1> QED
  BY <1>12, <1>13

LEMMA ClaimsStep ==
  ASSUME Inv, NEW w \in Worker, ClaimDue(w) \/ ClaimReconcile(w)
  PROVE  Inv' /\ PromiseStep
BY ClaimStep DEF ClaimDue, ClaimReconcile

LEMMA AbortedStep ==
  ASSUME Inv, NEW w \in Worker, ApplyRaises(w) \/ Crash(w)
  PROVE  Inv' /\ PromiseStep
BY NotWritten DEF ApplyRaises, Crash

-----------------------------------------------------------------------------
(* Time and the provider *)

\* Leases, backoff and age, which no status hangs on.
LEMMA TimeStep ==
  ASSUME Inv, NEW i \in Item, LeaseExpires(i) \/ RetryDue(i) \/ Age(i)
  PROVE  Inv' /\ PromiseStep
<1>0. /\ RowTyped /\ ProviderTyped /\ WorkerTyped /\ HandsInv /\ HeldInv /\ AnswerTrue
      /\ LocalIsTrue /\ AttemptsAreLeft /\ faults \in 0 .. MaxFaults
  BY InvParts
<1>1. /\ UNCHANGED <<status, attempts, holder, last, provider, worker>>
      /\ Fault \/ NoFault
  BY DEF LeaseExpires, RetryDue, Age, NoFault
<1>2. RowTyped'
  BY <1>0 DEF LeaseExpires, RetryDue, Age, RowTyped
<1>3. ProviderTyped' /\ WorkerTyped'
  BY <1>0, <1>1 DEF ProviderTyped, WorkerTyped, provider, worker
<1>4. HandsShrink /\ HandsInv' /\ Grows
  BY <1>0, <1>1, SameHands, SameGrows
<1>5. HeldInv'
  BY <1>0, <1>1, <1>4, HeldSame
<1>6. AnswerTrue'
  BY <1>0, <1>1 DEF AnswerTrue, provider, worker
<1>7. LocalIsTrue' /\ AttemptsAreLeft'
  BY <1>0, <1>1 DEF LocalIsTrue, AttemptsAreLeft, provider
<1>8. faults' \in 0 .. MaxFaults
  BY <1>0, <1>1, FaultTyped
<1>9. Inv'
  BY <1>2, <1>3, <1>4, <1>5, <1>6, <1>7, <1>8, InvPartsNext
<1>10. PromiseStep
  BY <1>1 DEF PromiseStep, provider
<1> QED
  BY <1>9, <1>10

\* A step of the provider: its messages move on, and no worker takes notice.
LEMMA ProviderMoves ==
  ASSUME Inv, Grows, ProviderTyped', UNCHANGED <<row, worker>>, Fault \/ NoFault
  PROVE  Inv'
<1>0. ProviderTyped /\ WorkerTyped /\ HandsInv /\ HasItem /\ ReconHeld /\ AnswerTrue
  BY InvParts DEF HandsInv, HeldInv
<1>1. WorkerTyped'
  BY <1>0 DEF WorkerTyped, worker
<1>2. HandsShrink /\ HandsInv'
  BY <1>0, SameHands
<1>3. AnswerTrue'
  <2>1. \A u \in Worker : /\ job'[u] = job[u] /\ answer'[u] = answer[u]
                          /\ seen'[u] = seen[u] /\ cur'[u] = cur[u]
    BY DEF worker
  <2> QED
    BY <1>0, <2>1, AnswersKept DEF AnswerTrue
<1>4. faults' \in 0 .. MaxFaults
  BY InvParts, FaultTyped
<1> QED
  BY <1>1, <1>2, <1>3, <1>4, RowSame DEF Carried

LEMMA DeliversStep ==
  ASSUME Inv, NEW i \in Item, NEW r \in Recipient, ProviderDelivers(i, r)
  PROVE  Inv' /\ PromiseStep
<1>0. ProviderTyped /\ Promise!Deliver(i, r) /\ UNCHANGED <<row, gone, worker>> /\ NoFault
  BY InvParts DEF ProviderDelivers, NoFault
<1>1. PICK s \in RecipientStatus :
        Promise!Later(msg[i][r], s) /\ msg' = [msg EXCEPT ![i][r] = s]
  BY <1>0 DEF Promise!Deliver, RecipientStatus
<1>2. msg[i] \in Message
  BY <1>0 DEF ProviderTyped, Promise!Deliver
<1>3. msg'[i] \in Message /\ \A q \in Recipient : Since(msg[i][q], msg'[i][q])
  BY <1>0, <1>1, <1>2 DEF ProviderTyped, Since, Message, Promise!Message, RecipientStatus
<1>4. \A k \in Item \ {i} : msg'[k] = msg[k]
  BY <1>0, <1>1 DEF ProviderTyped
<1>5. Grows
  BY <1>3, <1>4 DEF Grows, Since
<1>6. ProviderTyped'
  <2>1. msg' \in [Item -> Message \cup {NoMessage}]
    BY <1>0, <1>1, <1>3, <1>4 DEF ProviderTyped
  <2> QED
    BY <1>0, <2>1 DEF ProviderTyped
<1>7. Inv'
  BY <1>0, <1>5, <1>6, ProviderMoves
<1>8. PromiseStep
  BY <1>0 DEF PromiseStep, Promise!Next
<1> QED
  BY <1>7, <1>8

LEMMA ForgetsStep ==
  ASSUME Inv, NEW i \in Item, ProviderForgets(i)
  PROVE  Inv' /\ PromiseStep
<1>0. ProviderTyped /\ msg' = msg /\ UNCHANGED <<row, worker>> /\ Fault
  BY InvParts DEF ProviderForgets
<1>1. Grows
  BY <1>0 DEF Grows, Since
<1>2. ProviderTyped'
  BY <1>0 DEF ProviderTyped, ProviderForgets
<1>3. Inv'
  BY <1>0, <1>1, <1>2, ProviderMoves
<1>4. PromiseStep
  BY <1>0 DEF PromiseStep, row
<1> QED
  BY <1>3, <1>4

-----------------------------------------------------------------------------
(* Theorems *)

LEMMA InitStep == Init => Inv /\ Promise!Init
<1> SUFFICES ASSUME Init PROVE Inv
  BY DEF Init
<1>0. /\ MaxAttempts \in Nat \ {0} /\ MaxFaults \in Nat /\ IsFiniteSet(Item)
      /\ Cardinality(Item) \in Nat
  BY BoundsAssumption, FS_CardinalityType DEF BoundsAssumption
<1>1. status = [i \in Item |-> "queued"] /\ msg = [i \in Item |-> NoMessage]
  BY DEF Init, Promise!Init
<1>2. RowTyped
  <2>1. last \in [Item -> Nat]
    BY <1>0 DEF Init
  <2>2. attempts \in [Item -> 0 .. MaxAttempts]
    BY <1>0 DEF Init
  <2>3. status \in [Item -> Status]
    BY <1>1, Ranks
  <2> QED
    BY <2>1, <2>2, <2>3 DEF Init, RowTyped
<1>3. ProviderTyped
  BY <1>1 DEF Init, ProviderTyped
<1>4. WorkerTyped /\ faults \in 0 .. MaxFaults
  BY <1>0 DEF Init, WorkerTyped, Job, Answer
<1>5. HandsInv /\ HeldInv /\ AnswerTrue
  BY DEF Init, HandsInv, HasItem, Distinct, HeldInv, SendHeld, ReconHeld,
         Sends, Reconciles, AnswerTrue
<1>6. AttemptsAreLeft
  BY <1>0 DEF Init, AttemptsAreLeft
<1>7. LocalIsTrue
  BY <1>1 DEF LocalIsTrue, Promise!Justified
<1> QED
  BY <1>2, <1>3, <1>4, <1>5, <1>6, <1>7, InvParts

LEMMA StutterStep ==
  ASSUME Inv, UNCHANGED vars PROVE Inv' /\ PromiseStep
<1>1. UNCHANGED <<row, worker>> /\ UNCHANGED provider /\ NoFault
  BY DEF vars, NoFault
<1>2. ProviderTyped'
  BY <1>1, InvParts DEF ProviderTyped, provider
<1> QED
  BY <1>1, <1>2, SameGrows, ProviderMoves, QuietPromise

LEMMA NextStep == Inv /\ [Next]_vars => Inv' /\ PromiseStep
<1> SUFFICES ASSUME Inv, [Next]_vars PROVE Inv' /\ PromiseStep
  OBVIOUS
<1>1. CASE UNCHANGED vars
  BY <1>1, StutterStep
<1>2. ASSUME NEW w \in Worker, ClaimDue(w) \/ ClaimReconcile(w) PROVE Inv' /\ PromiseStep
  BY <1>2, ClaimsStep
<1>3. ASSUME NEW w \in Worker, Process(w) PROVE Inv' /\ PromiseStep
  BY <1>3, SendStep, SendRaisesStep, WriteAcceptedStep, WriteRefusedStep, WriteNoIdStep
     DEF Process
<1>4. ASSUME NEW w \in Worker, Reconcile(w) PROVE Inv' /\ PromiseStep
  BY <1>4, GetStep, ApplyStep, AbortedStep, ApplyMissingStep, ApplyErrorStep, ReleaseRowStep
     DEF Reconcile
<1>5. ASSUME NEW w \in Worker, Crash(w) PROVE Inv' /\ PromiseStep
  BY <1>5, AbortedStep
<1>6. ASSUME NEW i \in Item, LeaseExpires(i) \/ RetryDue(i) \/ Age(i) PROVE Inv' /\ PromiseStep
  BY <1>6, TimeStep
<1>7. ASSUME NEW i \in Item, ProviderForgets(i) PROVE Inv' /\ PromiseStep
  BY <1>7, ForgetsStep
<1>8. ASSUME NEW i \in Item, NEW r \in Recipient, ProviderDelivers(i, r)
      PROVE  Inv' /\ PromiseStep
  BY <1>8, DeliversStep
<1> QED
  BY <1>1, <1>2, <1>3, <1>4, <1>5, <1>6, <1>7, <1>8 DEF Next

\* Every variable keeps its type, in particular no attempt_count passes
\* max_attempts.
THEOREM TypeCorrect == Spec => []TypeOK
<1>1. Inv => TypeOK
  BY DEF Inv
<1> QED
  BY <1>1, InitStep, NextStep, PTL DEF Spec

\* What the local status says of the provider's message is true of it.
THEOREM LocalIsTrueHolds == Spec => []LocalIsTrue
<1>1. Inv => LocalIsTrue
  BY DEF Inv
<1> QED
  BY <1>1, InitStep, NextStep, PTL DEF Spec

\* A row that is not terminal has attempts left.
THEOREM AttemptsAreLeftHolds == Spec => []AttemptsAreLeft
<1>1. Inv => AttemptsAreLeft
  BY DEF Inv
<1> QED
  BY <1>1, InitStep, NextStep, PTL DEF Spec

\* The drivers implement OutboxPromise: every step of them is a step of the
\* promise or leaves the statuses and the messages alone.
THEOREM PromiseKept == Spec => Promised
<1>1. PromiseStep <=> [Promise!Next]_<<status, msg>>
  BY DEF PromiseStep
<1> QED
  BY <1>1, InitStep, NextStep, PTL DEF Spec, Promised, Promise!Spec
=============================================================================
