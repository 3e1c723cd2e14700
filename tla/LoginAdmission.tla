--------------------------- MODULE LoginAdmission ---------------------------
(***************************************************************************)
(* Admission of credentials in one process: the failures of each subject   *)
(* in a sliding window, and stripes of locks under which a subject is      *)
(* admitted, checked and its failure recorded.  Logins and second factors  *)
(* have windows and stripes of their own; the second is entered inside the *)
(* first.                                                                  *)
(*                                                                         *)
(* The counters of all attempts and of those of one address are filled by  *)
(* everybody's requests: whether they are exhausted is anybody's choice    *)
(* (busy).  Who takes these steps, and what the credential is, is said by  *)
(* the module that composes this one.                                      *)
(***************************************************************************)
EXTENDS Naturals

CONSTANTS Client,       \* request threads
          Subject,      \* normalised user names and account ids
          Stripe,       \* indices of locks
          StripeOf,     \* hash(identifier) % 256
          FailureLimit, \* failures of a subject that a window admits
          Nobody        \* no client

ASSUME AdmissionAssumption ==
  /\ StripeOf \in [Subject -> Stripe]
  /\ FailureLimit \in Nat \ {0}
  /\ Nobody \notin Client

VARIABLES
  failures,  \* of a family and a subject, within the window
  holder     \* of each lock: a client, or Nobody

admissionVars == <<failures, holder>>

Family == {"login", "second"}
Counter == Family \X Subject
Lock == Family \X Stripe
LockOf(f, s) == <<f, StripeOf[s]>>

AdmissionTypeOK ==
  /\ failures \in [Counter -> Nat]
  /\ holder \in [Lock -> Client \cup {Nobody}]

AdmissionInit ==
  /\ failures = [k \in Counter |-> 0]
  /\ holder = [l \in Lock |-> Nobody]

-----------------------------------------------------------------------------
(* The counters *)

Record(f, s) == failures' = [failures EXCEPT ![<<f, s>>] = @ + 1]

Clear(f, s) == failures' = [failures EXCEPT ![<<f, s>>] = 0]

\* Failures leave their window one by one, and all at once when the table
\* is full and sheds the key.
Forget ==
  /\ \E k \in Counter : \E n \in 0 .. failures[k] :
       /\ n < failures[k]
       /\ failures' = [failures EXCEPT ![k] = n]
  /\ UNCHANGED holder

-----------------------------------------------------------------------------
(* Admission under the lock *)

\* Mutant: both families take their lock from one array, which is not
\* reentrant.
FreeOfBoth(f, s) == \A g \in Family : holder[LockOf(g, s)] = Nobody

Free(f, s) == holder[LockOf(f, s)] = Nobody

Take(f, s, c) == holder' = [holder EXCEPT ![LockOf(f, s)] = c]

Release(f, s) == holder' = [holder EXCEPT ![LockOf(f, s)] = Nobody]

\* A request that ends inside both locks leaves both.
ReleaseAll(c) ==
  holder' = [l \in Lock |-> IF holder[l] = c THEN Nobody ELSE holder[l]]

\* Mutant: one failure too many.
WithinPlusOne(f, s) == failures[<<f, s>>] <= FailureLimit

\* The failures are only read, after the counters of all attempts.
Within(f, s) == failures[<<f, s>>] < FailureLimit

Admitted(f, s, busy) == ~busy /\ Within(f, s)

-----------------------------------------------------------------------------
(* Property *)

\* No subject has more failures in its window than the limit, whatever
\* requests overlap: whoever is admitted on the last one has failed, or not,
\* before another is admitted (_failure_admission, _admit).
FailuresBounded == \A k \in Counter : failures[k] <= FailureLimit
=============================================================================
