--------------------------- MODULE OutboxPromise ---------------------------
(***************************************************************************)
(* What the notification outbox promises about its items, whatever the     *)
(* workers, their leases, crashes and lost answers: an item only moves on, *)
(* queued, accepted, sent, delivered, or to failed, and only to what the   *)
(* provider's message has reached.                                         *)
(***************************************************************************)
EXTENDS Naturals

CONSTANTS Item,       \* rows of the outbox
          Recipient,  \* recipients of a message
          NoMessage   \* the provider has accepted no message for the item

VARIABLES
  status,  \* local status of an item
  msg      \* the provider's message of an item: its status per recipient

Status == {"queued", "accepted", "sent", "delivered", "failed"}
Terminal == {"delivered", "failed"}
RecipientStatus == {"pending", "sent", "delivered", "failed", "other"}
Message == [Recipient -> RecipientStatus]

\* A recipient moves on from pending; "other" is a status the code does not know.
Later(a, b) ==
  \/ a = "pending" /\ b \in {"sent", "delivered", "failed", "other"}
  \/ a = "sent" /\ b \in {"delivered", "failed"}

Rank == [s \in Status |-> CASE s = "queued" -> 0
                            [] s = "accepted" -> 1
                            [] s = "sent" -> 2
                            [] OTHER -> 3]

\* What the local status says of the message is true of it.
Justified(s, m) ==
  /\ s \in {"accepted", "sent", "delivered"} => m # NoMessage
  /\ s = "sent" => \E r \in Recipient : m[r] # "pending"
  /\ s = "delivered" => \A r \in Recipient : m[r] = "delivered"

Init ==
  /\ status = [i \in Item |-> "queued"]
  /\ msg = [i \in Item |-> NoMessage]

\* The provider takes the message, once.
Take(i) ==
  /\ msg[i] = NoMessage
  /\ msg' = [msg EXCEPT ![i] = [r \in Recipient |-> "pending"]]
  /\ UNCHANGED status

Deliver(i, r) ==
  /\ msg[i] # NoMessage
  /\ \E s \in RecipientStatus :
       /\ Later(msg[i][r], s)
       /\ msg' = [msg EXCEPT ![i][r] = s]
  /\ UNCHANGED status

\* The outbox learns something new.
Advance(i) ==
  /\ \E s \in Status :
       /\ Rank[status[i]] < Rank[s]
       /\ Justified(s, msg[i])
       /\ status' = [status EXCEPT ![i] = s]
  /\ UNCHANGED msg

Next == \E i \in Item : Take(i) \/ Advance(i) \/ \E r \in Recipient : Deliver(i, r)

Spec == Init /\ [][Next]_<<status, msg>>
=============================================================================
