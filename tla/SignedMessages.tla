--------------------------- MODULE SignedMessages ---------------------------
(***************************************************************************)
(* The two messages that are trusted for their signature and their age:    *)
(* the principal a gateway puts into every request, and EasyAuth's webhook *)
(* call.  Neither is remembered, so one that somebody kept may be sent     *)
(* again: the bounds on its times decide for how long.                     *)
(***************************************************************************)
EXTENDS Integers

CONSTANTS Lifetime, \* BLANK_PRINCIPAL_MAX_LIFETIME_SECONDS
          Skew,     \* MAX_CLOCK_SKEW_SECONDS
          Window,   \* TIMESTAMP_WINDOW_SECONDS
          LastTime, \* bound: times run from 0 to it
          Never

ASSUME TimesAssumption ==
  /\ Lifetime \in Nat
  /\ Skew \in Nat
  /\ Window \in Nat
  /\ LastTime \in Nat
  /\ Never \notin Int

VARIABLES
  clock,   \* of the host
  message, \* what is sent, once or more often
  first    \* history: when it was accepted first

signedVars == <<clock, message, first>>

Time == 0 .. LastTime

\* genuine: signed with the secret, and the rest of it as it must be.
Principal == [kind : {"principal"}, genuine : BOOLEAN, iat : Time, exp : Time]
Delivery  == [kind : {"webhook"}, genuine : BOOLEAN, at : Time]
Message   == Principal \cup Delivery

SignedInit ==
  /\ clock = 0
  /\ message \in Message
  /\ first = Never

-----------------------------------------------------------------------------
\* Mutant: the claims may be as far apart as the gateway likes.
AnyLifetime(m, now) ==
  /\ m.exp > now
  /\ m.iat <= now + Skew
  /\ now - m.iat <= Lifetime + Skew

\* _require_freshness
InTime(m, now) ==
  /\ m.exp > now
  /\ m.iat <= now + Skew
  /\ m.exp > m.iat
  /\ m.exp - m.iat <= Lifetime
  /\ now - m.iat <= Lifetime + Skew

\* Mutant: only what is old is refused.
NotTooOld(m, now) == now - m.at <= Window

\* _validate_timestamp
InWindow(m, now) == now - m.at <= Window /\ m.at - now <= Window

Accepted(m, now) ==
  /\ m.genuine
  /\ \/ m.kind = "principal" /\ InTime(m, now)
     \/ m.kind = "webhook" /\ InWindow(m, now)

Tick ==
  /\ clock < LastTime
  /\ clock' = clock + 1
  /\ UNCHANGED <<message, first>>

\* Sent, or sent again.  What is not accepted is answered 401 and changes nothing.
Receive ==
  /\ Accepted(message, clock)
  /\ first' = IF first = Never THEN clock ELSE first
  /\ UNCHANGED <<clock, message>>

SignedNext == Tick \/ Receive

SignedSpec == SignedInit /\ [][SignedNext]_signedVars

-----------------------------------------------------------------------------
\* How long after its first use a message that was kept may be used at most, in
\* whole seconds: the host's clock has fractions, which add less than one.
Reuse(m) == IF m.kind = "principal" THEN Lifetime + Skew - 1 ELSE 2 * Window

\* A message is never accepted later after its first use than its bound,
\* whatever its times are.  (from_claims, verify_webhook: their rules on single
\* times must add up to it.)
ReuseIsBounded ==
  first # Never /\ Accepted(message, clock) => clock - first <= Reuse(message)
=============================================================================
