------------------------ MODULE MCNotificationOutbox ------------------------
(* Instances of NotificationOutbox for TLC. *)
EXTENDS NotificationOutbox, TLC

\* Recipients and workers are interchangeable.
Symmetric == Permutations(Recipient) \cup Permutations(Worker)
=============================================================================
