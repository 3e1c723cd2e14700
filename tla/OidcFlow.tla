------------------------------ MODULE OidcFlow ------------------------------
(***************************************************************************)
(* Logins by OpenID Connect from one browser: tabs start interactive       *)
(* logins and, every now and then, silent checks.  Each leaves a signed    *)
(* cookie, of which there is one per kind, and returns by a callback that  *)
(* must bring the state of its cookie.  A callback exchanges the code,     *)
(* finds the signing key in a cache of the provider's keys or fetches      *)
(* them, upserts the account and issues a session.                         *)
(*                                                                         *)
(* The provider and the browser are external.  Signatures hold, and what a *)
(* token says is given by its flow.                                        *)
(***************************************************************************)
EXTENDS Naturals, FiniteSets

CONSTANTS Flow,   \* states (with their nonces and verifiers)
          Sub,    \* subjects at the provider
          Key,    \* signing keys of the provider
          NoFlow,
          NoSub,
          NoKey

ASSUME OidcAssumption == NoFlow \notin Flow /\ NoSub \notin Sub /\ NoKey \notin Key

VARIABLES
  jar,        \* the cookie of each kind
  flow,       \* the flows
  lapsed,     \* flows whose cookie has expired
  overlapped, \* flows that ran beside another of their kind, or came twice
  orphaned,   \* flows whose key the provider withdrew under way
  published,  \* keys of the provider
  cached,     \* keys in the cache
  known       \* accounts of subjects

marks == <<lapsed, overlapped>>
keyVars == <<orphaned, published, cached>>
oidcVars == <<jar, flow, marks, keyVars, known>>

Kinds == {"silent", "login"}

FlowState == [at : {"unused", "away", "back", "exchange", "key", "answer",
                    "look", "upsert", "store", "issue", "end", "done"},
              kind : Kinds, code : BOOLEAN, sub : Sub \cup {NoSub},
              matched : BOOLEAN, kid : Key \cup {NoKey}, fetched : SUBSET Key,
              forced : BOOLEAN, new : BOOLEAN,
              result : {"none", "mismatch", "nokey", "error", "session"}]

Fresh == [at |-> "unused", kind |-> "login", code |-> FALSE, sub |-> NoSub,
          matched |-> FALSE, kid |-> NoKey, fetched |-> {}, forced |-> FALSE,
          new |-> FALSE, result |-> "none"]

OidcTypeOK ==
  /\ jar \in [Kinds -> Flow \cup {NoFlow}]
  /\ flow \in [Flow -> FlowState]
  /\ lapsed \subseteq Flow
  /\ overlapped \subseteq Flow
  /\ orphaned \subseteq Flow
  /\ published \subseteq Key
  /\ cached \subseteq Key
  /\ known \in [Sub -> {"none", "active", "inactive"}]

OidcInit ==
  /\ jar = [k \in Kinds |-> NoFlow]
  /\ flow = [f \in Flow |-> Fresh]
  /\ lapsed = {} /\ overlapped = {} /\ orphaned = {}
  /\ published \in SUBSET Key \ {{}}
  /\ cached = {}
  /\ known = [s \in Sub |-> "none"]

Is(f, at) == flow[f].at = at
Under(f) == flow[f].at \notin {"unused", "done"}

\* What is left of a flow at its end, or once it is done.
Ended(f, at, result) ==
  [Fresh EXCEPT !.at = at, !.result = result, !.kind = flow[f].kind,
                !.code = flow[f].code, !.sub = flow[f].sub,
                !.matched = flow[f].matched]

\* The callback has its answer, which is still to reach the browser.
Answer(f, result) == flow' = [flow EXCEPT ![f] = Ended(f, "end", result)]

\* An error that is no answer of the flow: it deletes no cookie.
Breaks(f) == flow' = [flow EXCEPT ![f] = Ended(f, "done", "error")]

-----------------------------------------------------------------------------
(* Away and back *)

\* The cookie of this kind is replaced.
Authorize(f) ==
  /\ Is(f, "unused")
  /\ \E k \in Kinds :
       LET beside == {g \in Flow : Under(g) /\ flow[g].kind = k} IN
       /\ flow' = [flow EXCEPT ![f].at = "away", ![f].kind = k]
       /\ jar' = [jar EXCEPT ![k] = f]
       /\ overlapped' = overlapped \cup
                        (IF beside = {} THEN {} ELSE beside \cup {f})
  /\ UNCHANGED <<lapsed, keyVars, known>>

\* The provider sends the browser back with a code, or with an error.
Return(f) ==
  /\ Is(f, "away")
  /\ \E s \in Sub, code \in BOOLEAN :
       flow' = [flow EXCEPT ![f].at = "back", ![f].sub = s, ![f].code = code]
  /\ UNCHANGED <<jar, marks, keyVars, known>>

\* Ten minutes are over.  Once the state is verified nobody asks.
Lapse(f) ==
  /\ Is(f, "away") \/ Is(f, "back")
  /\ f \notin lapsed
  /\ lapsed' = lapsed \cup {f}
  /\ UNCHANGED <<jar, flow, overlapped, keyVars, known>>

\* Mutant: the cookie of a login is sought only when there is no silent one.
MatchedFirst(f) ==
  IF jar["silent"] # NoFlow THEN jar["silent"] = f ELSE jar["login"] = f

\* select_cookie: the silent cookie, then the other, until the state is the one
\* of the callback.
Matched(f) == \E k \in Kinds : jar[k] = f

\* verify_state: a cookie that does not match or has expired is refused.
Verified(f) == Matched(f) /\ f \notin lapsed

\* The settings may be switched off or incomplete, or their secret unreadable,
\* which is found before the cookie is looked for.
Callback(f) ==
  /\ Is(f, "back")
  /\ \/ \E matched \in {Matched(f), FALSE} : flow' =
          [flow EXCEPT ![f].at = "end", ![f].result = "error", ![f].matched = matched]
     \/ /\ ~Verified(f)
        /\ flow' = [flow EXCEPT ![f].at = "end", ![f].result = "mismatch",
                                ![f].matched = Matched(f)]
     \/ /\ Verified(f)
        /\ flow' = [flow EXCEPT ![f] =
             IF @.code THEN [@ EXCEPT !.at = "exchange", !.matched = TRUE]
             ELSE [@ EXCEPT !.at = "end", !.result = "error", !.matched = TRUE]]
  /\ UNCHANGED <<jar, marks, keyVars, known>>

\* The answer deletes the cookie that was matched, by its name.
Deleted(f) == IF flow[f].matched THEN {flow[f].kind} ELSE {}

Respond(f) ==
  /\ Is(f, "end")
  /\ jar' = [k \in Kinds |-> IF k \in Deleted(f) THEN NoFlow ELSE jar[k]]
  /\ flow' = [flow EXCEPT ![f].at = "done", ![f].matched = FALSE]
  /\ UNCHANGED <<marks, keyVars, known>>

\* The browser asks for the same address again.
Reload(f) ==
  /\ Is(f, "done") /\ f \notin overlapped
  /\ flow' = [flow EXCEPT ![f].at = "back", ![f].matched = FALSE, ![f].result = "none"]
  /\ overlapped' = overlapped \cup {f}
  /\ UNCHANGED <<jar, lapsed, keyVars, known>>

-----------------------------------------------------------------------------
(* The callback *)

\* The provider takes a code once, and signs with a key it publishes.
Exchange(f) ==
  /\ Is(f, "exchange")
  /\ \/ Answer(f, "error")
     \/ /\ flow[f].code
        /\ \E k \in published : flow' =
             [flow EXCEPT ![f].at = "key", ![f].kid = k, ![f].code = FALSE]
  /\ UNCHANGED <<jar, marks, keyVars, known>>

\* A miss is final only after the cache was bypassed.
Missed(f, keys) == flow[f].forced

Found(f) ==
  flow' = [flow EXCEPT ![f].at = "look", ![f].kid = NoKey, ![f].fetched = {},
                       ![f].forced = FALSE]

\* _signing_key: in the cache, or else, once, past it.
FindKey(f) ==
  /\ Is(f, "key")
  /\ \/ /\ cached # {} /\ ~flow[f].forced
        /\ IF flow[f].kid \in cached
           THEN Found(f)
           ELSE IF Missed(f, cached) THEN Answer(f, "nokey")
                                     ELSE flow' = [flow EXCEPT ![f].forced = TRUE]
     \/ /\ cached = {} \/ flow[f].forced
        /\ \/ flow' = [flow EXCEPT ![f].at = "answer", ![f].fetched = published]
           \/ Answer(f, "error")
  /\ UNCHANGED <<jar, marks, keyVars, known>>

\* What was fetched is cached, also when another fetched later and cached
\* before; a key that is missed is sought again once.
KeysFetched(f) ==
  /\ Is(f, "answer")
  /\ cached' = flow[f].fetched
  /\ IF flow[f].kid \in flow[f].fetched
     THEN Found(f)
     ELSE IF Missed(f, flow[f].fetched) THEN Answer(f, "nokey")
          ELSE flow' = [flow EXCEPT ![f].at = "key", ![f].forced = TRUE,
                                    ![f].fetched = {}]
  /\ UNCHANGED <<jar, marks, orphaned, published, known>>

\* The token does not verify, or its account is inactive; else the account is
\* looked up, and written in the same transaction.
Look(f) ==
  /\ Is(f, "look")
  /\ \/ Answer(f, "error")
     \/ /\ known[flow[f].sub] # "inactive"
        /\ flow' = [flow EXCEPT ![f].at = "upsert",
                                ![f].new = known[flow[f].sub] = "none"]
  /\ UNCHANGED <<jar, marks, keyVars, known>>

\* An INSERT beside another one of the subject, or of its user name, fails.
Upsert(f) ==
  /\ Is(f, "upsert")
  /\ \/ /\ flow[f].new /\ Breaks(f)
        /\ UNCHANGED known
     \/ /\ flow[f].new => known[flow[f].sub] = "none"
        /\ flow' = [flow EXCEPT ![f].at = "store"]
        /\ known' = IF flow[f].new THEN [known EXCEPT ![flow[f].sub] = "active"] ELSE known
  /\ UNCHANGED <<jar, marks, keyVars>>

\* The id_token is kept for the logout, in a transaction of its own.
StoreIdToken(f) ==
  /\ Is(f, "store")
  /\ flow' = [flow EXCEPT ![f].at = "issue"]
  /\ UNCHANGED <<jar, marks, keyVars, known>>

\* issue_session of AccountSecurity; an account deactivated since is refused.
IssueSession(f) ==
  /\ Is(f, "issue")
  /\ IF known[flow[f].sub] = "active"
     THEN Answer(f, "session")
     ELSE Breaks(f)
  /\ UNCHANGED <<jar, marks, keyVars, known>>

-----------------------------------------------------------------------------
(* Around the flows *)

\* The key of a logout token is sought like that of a login, and fetched when
\* it is missed.  The sessions it revokes are those of AccountSecurity.
BackchannelLogout ==
  /\ cached' = published
  /\ UNCHANGED <<jar, flow, marks, orphaned, published, known>>

SetEligible ==
  /\ \E s \in Sub :
       /\ known[s] # "none"
       /\ known' = [known EXCEPT ![s] = IF @ = "active" THEN "inactive" ELSE "active"]
  /\ UNCHANGED <<jar, flow, marks, keyVars>>

Rotate ==
  /\ \E k \in Key :
       \/ k \notin published /\ published' = published \cup {k} /\ UNCHANGED orphaned
       \/ /\ k \in published /\ published # {k}
          /\ published' = published \ {k}
          /\ orphaned' = orphaned \cup {f \in Flow : flow[f].kid = k}
  /\ UNCHANGED <<jar, flow, marks, cached, known>>

CacheLapses ==
  /\ cached' = {}
  /\ UNCHANGED <<jar, flow, marks, orphaned, published, known>>

-----------------------------------------------------------------------------
(* Specification *)

OidcStep(f) ==
  \/ Authorize(f) \/ Return(f) \/ Lapse(f) \/ Callback(f) \/ Respond(f) \/ Reload(f)
  \/ Exchange(f) \/ FindKey(f) \/ KeysFetched(f) \/ Look(f) \/ Upsert(f)
  \/ StoreIdToken(f) \/ IssueSession(f)

OidcNext ==
  \/ \E f \in Flow : OidcStep(f)
  \/ BackchannelLogout \/ SetEligible \/ Rotate \/ CacheLapses

OidcSpec == OidcInit /\ [][OidcNext]_oidcVars

-----------------------------------------------------------------------------
(* Properties *)

\* A login is refused for its state only when another of its own kind ran
\* beside it in this browser, or it came late or twice: silent checks never
\* spoil an interactive login, nor it them (select_cookie, the two cookies).
\* And a token is not refused for its key while the provider publishes the key,
\* however stale the cache is and whoever writes it (_signing_key, fetch_jwks).
RefusalsAreJust ==
  \A f \in Flow :
    /\ flow[f].result = "mismatch" => f \in overlapped \cup lapsed
    /\ flow[f].result = "nokey" => f \in orphaned
=============================================================================
