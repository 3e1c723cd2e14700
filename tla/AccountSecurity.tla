-------------------------- MODULE AccountSecurity ---------------------------
(***************************************************************************)
(* The credentials of one local account: password, TOTP, passkeys with     *)
(* their challenges, and the sessions a login issues and a change revokes. *)
(* Requests run in the threads of one process and pass LoginAdmission;     *)
(* they read the row, verify slowly, and write later without a lock on the *)
(* row.  Administrators lock the row.                                      *)
(*                                                                         *)
(* sessions_revoked_at is a moment: it is known by the sessions that had   *)
(* started by then (covers), so that no clock is needed.  A request may    *)
(* present any password, code or answer: whether it is right is chosen     *)
(* when it is verified.                                                    *)
(***************************************************************************)
EXTENDS LoginAdmission

CONSTANTS Me,         \* the account, by user name and by id
          Passkey,    \* authenticators
          Challenge,  \* identifiers (jti) of challenges, used again once expired
          Session,    \* identifiers of sessions, used again once expired
          Untracked,  \* a session the model does not follow
          Kind,       \* the operations requested
          AdminKind   \* the operations of administrators

ASSUME SecurityAssumption ==
  /\ Me \in Subject
  /\ Untracked \notin Session
  /\ Nobody \notin Challenge
  /\ AdminKind \subseteq {"reset", "totp", "active"}

VARIABLES
  row,        \* the columns of the account
  keys,       \* passkeys registered
  challenge,  \* state of each challenge
  uses,       \* how often each was used
  session,    \* state of each session
  dead,       \* sessions started by sessions_revoked_at
  thread,     \* requests
  admin,      \* the administrator's transaction
  owes        \* second factors in force since each request began

accountVars == <<row, keys, challenge, uses, session, dead>>
vars == <<admissionVars, accountVars, thread, admin, owes>>

LoginKind == {"login", "passkeyBegin", "passkeyComplete"}
Reverified == {"change", "confirm", "disable"}
TotpKind == {"begin", "confirm", "disable"}
PasskeyKind == {"registerBegin", "registerComplete", "delete"}
SelfKind == TotpKind \cup PasskeyKind \cup {"change", "logout"}

Row == [totp : BOOLEAN, secret : BOOLEAN, pending : BOOLEAN,
        must : BOOLEAN, active : BOOLEAN]

Clean == [totp |-> FALSE, secret |-> FALSE, pending |-> FALSE,
          must |-> FALSE, active |-> TRUE]

\* Taken: a transaction that has used it is not over.  Gone: it is.
ChallengeState == {"none", "login", "register", "taken", "gone"}

Idle == [pc |-> "idle", op |-> "none", who |-> Me, copy |-> Clean,
         methods |-> {}, passed |-> FALSE, covers |-> {},
         jti |-> Nobody, sid |-> Untracked]

Thread == [pc : {"idle", "login", "read", "hash", "second", "factor", "consume",
                 "assert", "issue", "minted", "stamp", "commit"},
           op : LoginKind \cup SelfKind \cup {"none"}, who : Subject, copy : Row,
           methods : SUBSET {"totp", "passkey"}, passed : BOOLEAN,
           covers : SUBSET Session,
           jti : Challenge \cup {Nobody}, sid : Session \cup {Untracked}]

AdminOp == [kind : {"none", "reset", "totp", "active"}, covers : SUBSET Session]
NoAdmin == [kind |-> "none", covers |-> {}]

TypeOK ==
  /\ AdmissionTypeOK
  /\ row \in Row
  /\ keys \subseteq Passkey
  /\ challenge \in [Challenge -> ChallengeState]
  /\ uses \in [Challenge -> Nat]
  /\ session \in [Session -> {"free", "minted", "live"}]
  /\ dead \subseteq Session
  /\ thread \in [Client -> Thread]
  /\ admin \in AdminOp
  /\ owes \in [Client -> SUBSET {"totp", "passkey"}]

-----------------------------------------------------------------------------
(* Reading the account *)

\* Mutant: an account with passkeys alone logs in by its password.
MethodsOfTotp(totp, ks) == IF totp THEN {"totp"} ELSE {}

Methods(totp, ks) == (IF totp THEN {"totp"} ELSE {})
                     \cup (IF ks # {} THEN {"passkey"} ELSE {})

Started == {s \in Session : session[s] # "free"}

Accepted(s) == session[s] = "live" /\ s \notin dead /\ row.active

\* Mutant: the condition of the UPDATE without consumed_at.
LiveOrUsed(j, purpose) == challenge[j] \in {purpose, "gone"}

\* A challenge that the conditional UPDATE of this purpose finds.  While
\* another transaction has it ("taken"), the UPDATE waits.
Live(j, purpose) == challenge[j] = purpose

\* A challenge is issued for one purpose, and its row is written.
IssueFor(purpose) ==
  \E j \in Challenge : /\ challenge[j] = "none"
                       /\ challenge' = [challenge EXCEPT ![j] = purpose]

Purpose(op) == IF op = "passkeyComplete" THEN "login" ELSE "register"

\* SQLAlchemy writes a column when its value differs from the one read.
Dirty(read, new, now) == IF new = read THEN now ELSE new

Init ==
  /\ AdmissionInit
  /\ row = Clean
  /\ keys = {}
  /\ challenge = [j \in Challenge |-> "none"]
  /\ uses = [j \in Challenge |-> 0]
  /\ session = [s \in Session |-> "free"]
  /\ dead = {}
  /\ thread = [c \in Client |-> Idle]
  /\ admin = NoAdmin
  /\ owes = [c \in Client |-> {}]

At(c, pc) == thread[c].pc = pc
Goto(c, pc) == thread' = [thread EXCEPT ![c].pc = pc]
End(c) == thread' = [thread EXCEPT ![c] = Idle]

\* The request ends with a failure of family f, or without one.
Fail(c, f) ==
  /\ Record(f, thread[c].who)
  /\ ReleaseAll(c)
  /\ End(c)

GiveUp(c) ==
  /\ ReleaseAll(c)
  /\ End(c)
  /\ UNCHANGED failures

-----------------------------------------------------------------------------
(* Login *)

StartLogin(c) ==
  /\ At(c, "idle")
  /\ \E op \in LoginKind \cap Kind, s \in Subject :
       thread' = [thread EXCEPT ![c].pc = "login", ![c].op = op, ![c].who = s]
  /\ UNCHANGED <<admissionVars, accountVars, admin>>

\* LoginAdmissionGuard.run: the lock, then the admission under it.
EnterLogin(c) ==
  /\ At(c, "login")
  /\ Free("login", thread[c].who)
  /\ \E busy \in BOOLEAN :
       IF Admitted("login", thread[c].who, busy)
       THEN Take("login", thread[c].who, c) /\ Goto(c, "read")
       ELSE End(c) /\ UNCHANGED holder
  /\ UNCHANGED <<failures, accountVars, admin>>

\* authenticate_password loads the row, then takes its time over the hash.
ReadAccount(c) ==
  /\ At(c, "read") /\ thread[c].op \in LoginKind
  /\ thread' = [thread EXCEPT ![c].pc = "hash", ![c].copy = row]
  /\ UNCHANGED <<admissionVars, accountVars, admin>>

WrongPassword(c) ==
  /\ At(c, "hash")
  /\ Fail(c, "login")
  /\ UNCHANGED <<accountVars, admin>>

RightPassword(c) ==
  At(c, "hash") /\ thread[c].who = Me /\ thread[c].copy.active

\* The passkeys are looked up after the hash.
PasswordVerified(c) ==
  /\ RightPassword(c) /\ thread[c].op # "passkeyBegin"
  /\ LET ms == Methods(thread[c].copy.totp, keys)
         second == thread[c].op = "passkeyComplete" \/ ms # {}
     IN  thread' = [thread EXCEPT ![c].methods = ms, ![c].copy = Clean,
                      ![c].pc = IF second THEN "second" ELSE "issue"]
  /\ UNCHANGED <<admissionVars, accountVars, admin>>

\* The challenge is persisted; neither success nor the lack of a passkey
\* (400) touches the failures.
BeginPasskeyLogin(c) ==
  /\ RightPassword(c) /\ thread[c].op = "passkeyBegin"
  /\ (keys # {} /\ IssueFor("login")) \/ UNCHANGED challenge
  /\ GiveUp(c)
  /\ UNCHANGED <<row, keys, uses, session, dead, admin>>

\* The lock of the second factor, and its admission.  A refusal (429) ends the
\* request and counts for neither family.
EnterSecond(c) ==
  /\ At(c, "second")
  /\ Free("second", Me)
  /\ \E busy \in BOOLEAN :
       IF Admitted("second", Me, busy)
       THEN /\ Take("second", Me, c)
            /\ Goto(c, CASE thread[c].op = "login" -> "factor"
                         [] thread[c].op = "passkeyComplete" -> "consume"
                         [] OTHER -> "read")
            /\ UNCHANGED failures
       ELSE GiveUp(c)
  /\ UNCHANGED <<accountVars, admin>>

\* No code, or no TOTP: the answer asks for the second factor.
AskSecondFactor(c) ==
  /\ At(c, "factor")
  /\ GiveUp(c)
  /\ UNCHANGED <<accountVars, admin>>

WrongCode(c) ==
  /\ At(c, "factor") /\ "totp" \in thread[c].methods
  /\ Fail(c, "second")
  /\ UNCHANGED <<accountVars, admin>>

\* verify_totp reads the row again.
RightCode(c) ==
  /\ At(c, "factor") /\ "totp" \in thread[c].methods
  /\ row.active /\ row.totp /\ row.secret
  /\ Clear("second", Me)
  /\ Release("second", Me)
  /\ thread' = [thread EXCEPT ![c].pc = "issue", ![c].passed = TRUE,
                              ![c].methods = {}]
  /\ UNCHANGED <<accountVars, admin>>

\* issue_session takes the time first.  The model may follow the session.
Mint(c) ==
  /\ At(c, "issue")
  /\ \E s \in (Session \ Started) \cup {Untracked} :
       /\ session' = [t \in Session |-> IF t = s THEN "minted" ELSE session[t]]
       /\ thread' = [thread EXCEPT ![c].pc = "minted", ![c].sid = s]
  /\ UNCHANGED <<admissionVars, row, keys, challenge, uses, dead, admin>>

\* Sessions that are no more are forgotten wherever they are covered.
Forgotten(S) ==
  /\ dead' = dead \ S
  /\ admin' = [admin EXCEPT !.covers = @ \ S]

WithoutSessions(th, S) ==
  [c \in Client |-> [th[c] EXCEPT !.covers = @ \ S]]

\* ... and then the row; an account no longer eligible is a failed login.
Issue(c) ==
  /\ At(c, "minted")
  /\ IF row.active
     THEN /\ session' = [t \in Session |->
                           IF t = thread[c].sid THEN "live" ELSE session[t]]
          /\ Clear("login", Me)
          /\ ReleaseAll(c)
          /\ End(c)
          /\ UNCHANGED <<dead, admin>>
     ELSE /\ session' = [t \in Session |->
                           IF t = thread[c].sid THEN "free" ELSE session[t]]
          /\ Record("login", Me)
          /\ ReleaseAll(c)
          /\ thread' = WithoutSessions([thread EXCEPT ![c] = Idle], {thread[c].sid})
          /\ Forgotten({thread[c].sid})
  /\ UNCHANGED <<row, keys, challenge, uses>>

-----------------------------------------------------------------------------
(* Passkey ceremonies: one transaction that consumes the challenge, then   *)
(* verifies the answer, and rolls both back when the answer is wrong.      *)

BadCeremony(c) ==
  /\ At(c, "consume")
  /\ IF thread[c].op = "passkeyComplete" THEN Fail(c, "second") ELSE GiveUp(c)
  /\ UNCHANGED <<accountVars, admin>>

Consume(c) ==
  /\ At(c, "consume")
  /\ thread[c].op = "passkeyComplete" => row.active /\ keys # {}
  /\ \E j \in Challenge :
       /\ Live(j, Purpose(thread[c].op))
       /\ challenge' = [challenge EXCEPT ![j] = "taken"]
       /\ thread' = [thread EXCEPT ![c].pc = "assert", ![c].jti = j]
  /\ UNCHANGED <<admissionVars, row, keys, uses, session, dead, admin>>

RollBack(c) ==
  /\ At(c, "assert")
  /\ challenge' = [challenge EXCEPT ![thread[c].jti] = Purpose(thread[c].op)]
  /\ IF thread[c].op = "passkeyComplete" THEN Fail(c, "second") ELSE GiveUp(c)
  /\ UNCHANGED <<row, keys, uses, session, dead, admin>>

Used(j) ==
  /\ challenge' = [challenge EXCEPT ![j] = "gone"]
  /\ uses' = [uses EXCEPT ![j] = @ + 1]

PasskeyVerified(c) ==
  /\ At(c, "assert") /\ thread[c].op = "passkeyComplete"
  /\ Used(thread[c].jti)
  /\ Clear("second", Me)
  /\ Release("second", Me)
  /\ thread' = [thread EXCEPT ![c].pc = "issue", ![c].passed = TRUE,
                              ![c].jti = Nobody, ![c].methods = {}]
  /\ UNCHANGED <<row, keys, session, dead, admin>>

\* A passkey that is registered already (409) rolls back.
Register(c) ==
  /\ At(c, "assert") /\ thread[c].op = "registerComplete"
  /\ \E k \in Passkey \ keys : keys' = keys \cup {k}
  /\ dead' = thread[c].covers
  /\ Used(thread[c].jti)
  /\ End(c)
  /\ UNCHANGED <<admissionVars, row, session, admin>>

-----------------------------------------------------------------------------
(* Changes by the owner *)

\* The session is checked, and a password to be changed first closes all but
\* changing it and logging out.  begin_passkey_registration is over at once;
\* complete_passkey_registration takes its time of revocation first.
StartSelf(c) ==
  /\ At(c, "idle")
  /\ \E s \in Session : Accepted(s)
  /\ \E op \in (SelfKind \cap Kind) \ {"registerBegin"} :
       /\ row.must => op \in {"change", "logout"}
       /\ thread' = [thread EXCEPT
            ![c].op = op,
            ![c].covers = IF op = "registerComplete" THEN Started ELSE {},
            ![c].pc = CASE op \in Reverified -> "second"
                        [] op = "registerComplete" -> "consume"
                        [] OTHER -> "read"]
  /\ UNCHANGED <<admissionVars, accountVars, admin>>

BeginRegistration ==
  /\ "registerBegin" \in Kind
  /\ \E s \in Session : Accepted(s)
  /\ ~row.must
  /\ IssueFor("register")
  /\ UNCHANGED <<admissionVars, row, keys, uses, session, dead, thread, admin>>

\* run_reverified_mutation: the password or code is wrong.
VerifyFails(c) ==
  /\ At(c, "read") /\ thread[c].op \in Reverified
  /\ Fail(c, "second")
  /\ UNCHANGED <<accountVars, admin>>

\* The new password is too weak (422), TOTP is enabled already (409), or the
\* passkey does not exist (404).
Decline(c) ==
  /\ At(c, "read")
  /\ \/ thread[c].op = "change"
     \/ thread[c].op = "begin" /\ row.totp
     \/ thread[c].op = "delete"
  /\ GiveUp(c)
  /\ UNCHANGED <<accountVars, admin>>

Verified(c) ==
  CASE thread[c].op = "confirm" -> row.pending
    [] thread[c].op = "disable" -> row.secret
    [] thread[c].op = "begin" -> ~row.totp
    [] thread[c].op = "delete" -> keys # {}
    [] OTHER -> TRUE

ReadAndVerify(c) ==
  /\ At(c, "read") /\ thread[c].op \notin LoginKind
  /\ Verified(c)
  /\ thread' = [thread EXCEPT ![c].copy = row,
                  ![c].pc = IF thread[c].op = "begin" THEN "commit" ELSE "stamp"]
  /\ UNCHANGED <<admissionVars, accountVars, admin>>

\* The time of revocation is taken before the UPDATE.
Stamp(c) ==
  /\ At(c, "stamp")
  /\ thread' = [thread EXCEPT ![c].pc = "commit", ![c].covers = Started]
  /\ UNCHANGED <<admissionVars, accountVars, admin>>

\* Mutant: the pending secret is moved by the UPDATE, as it is by then.
MovedInPlace(copy) ==
  [row EXCEPT !.secret = row.pending, !.pending = FALSE, !.totp = Dirty(copy.totp, TRUE, @)]

\* totp_confirm puts the secret it has read in place.
Confirmed(copy) ==
  [row EXCEPT !.secret = TRUE, !.pending = FALSE, !.totp = Dirty(copy.totp, TRUE, @)]

\* The columns as the operation leaves them, given those it read.  A new secret
\* is never the old one, so that its column is always written.
Written(op, copy) ==
  CASE op = "change" ->
         [row EXCEPT !.must = Dirty(copy.must, FALSE, @)]
    [] op = "begin" ->
         [row EXCEPT !.pending = TRUE]
    [] op = "confirm" -> Confirmed(copy)
    [] op = "disable" ->
         [row EXCEPT !.secret = FALSE,
                     !.pending = Dirty(copy.pending, FALSE, @),
                     !.totp = Dirty(copy.totp, FALSE, @)]
    [] OTHER -> row

\* A passkey that is being verified is locked, and its deletion waits.
Commit(c) ==
  /\ At(c, "commit")
  /\ LET op == thread[c].op IN
     /\ row' = Written(op, thread[c].copy)
     /\ dead' = IF op = "begin" THEN dead ELSE thread[c].covers
     /\ IF op = "delete"
        THEN /\ \A d \in Client :
                  ~(At(d, "assert") /\ thread[d].op = "passkeyComplete")
             /\ \/ keys = {} /\ UNCHANGED keys
                \/ \E k \in keys : keys' = keys \ {k}
        ELSE UNCHANGED keys
     /\ IF op \in Reverified THEN Clear("second", Me) ELSE UNCHANGED failures
  /\ ReleaseAll(c)
  /\ End(c)
  /\ UNCHANGED <<challenge, uses, session, admin>>

-----------------------------------------------------------------------------
(* Administrators, who take their time before they wait for the locks, and *)
(* read the row under its lock.                                            *)

StartAdmin ==
  /\ admin = NoAdmin
  /\ \E k \in AdminKind : admin' = [kind |-> k, covers |-> Started]
  /\ UNCHANGED <<admissionVars, accountVars, thread>>

ResetPassword ==
  /\ admin.kind = "reset"
  /\ \E must \in BOOLEAN : row' = [row EXCEPT !.must = must]
  /\ dead' = admin.covers

DisableTotp ==
  /\ admin.kind = "totp"
  /\ row' = [row EXCEPT !.totp = FALSE, !.secret = FALSE, !.pending = FALSE]
  /\ dead' = admin.covers

\* Deactivated, expired, or made eligible again: sessions are not revoked.
SetActive ==
  /\ admin.kind = "active"
  /\ row' = [row EXCEPT !.active = ~@]
  /\ UNCHANGED dead

AdminEnds ==
  /\ admin # NoAdmin
  /\ \/ ResetPassword
     \/ DisableTotp
     \/ SetActive
     \/ UNCHANGED <<row, dead>>  \* the operation was refused
  /\ admin' = NoAdmin
  /\ UNCHANGED <<admissionVars, keys, challenge, uses, session, thread>>

-----------------------------------------------------------------------------
(* Time *)

ExpireSession ==
  /\ \E s \in Session :
       /\ session[s] = "live"
       /\ session' = [session EXCEPT ![s] = "free"]
       /\ thread' = WithoutSessions(thread, {s})
       /\ Forgotten({s})
  /\ UNCHANGED <<admissionVars, row, keys, challenge, uses>>

\* Its row is deleted and its token is refused.
ExpireChallenge ==
  /\ \E j \in Challenge :
       /\ challenge[j] \in {"login", "register", "gone"}
       /\ challenge' = [challenge EXCEPT ![j] = "none"]
       /\ uses' = [uses EXCEPT ![j] = 0]
  /\ UNCHANGED <<admissionVars, row, keys, session, dead, thread, admin>>

FailuresPass == Forget /\ UNCHANGED <<accountVars, thread, admin>>

-----------------------------------------------------------------------------
(* Specification *)

LoginStep(c) ==
  \/ EnterLogin(c) \/ ReadAccount(c) \/ WrongPassword(c)
  \/ PasswordVerified(c) \/ EnterSecond(c)
  \/ AskSecondFactor(c) \/ WrongCode(c) \/ RightCode(c)
  \/ Mint(c) \/ Issue(c)

CeremonyStep(c) ==
  \/ BeginPasskeyLogin(c) \/ BadCeremony(c) \/ Consume(c)
  \/ RollBack(c) \/ PasskeyVerified(c) \/ Register(c)

SelfStep(c) ==
  VerifyFails(c) \/ Decline(c) \/ ReadAndVerify(c) \/ Stamp(c) \/ Commit(c)

\* owes follows each step: what has been in force without a break since the
\* request began.
Follow ==
  LET now == (IF row'.totp THEN {"totp"} ELSE {})
             \cup (IF keys' # {} THEN {"passkey"} ELSE {})
  IN  owes' = [c \in Client |->
                 IF thread'[c].pc = "idle" THEN now ELSE owes[c] \cap now]

Step(c) == (LoginStep(c) \/ CeremonyStep(c) \/ SelfStep(c)) /\ Follow

Start(c) == (StartLogin(c) \/ StartSelf(c)) /\ Follow

Environment ==
  /\ \/ BeginRegistration
     \/ StartAdmin \/ AdminEnds
     \/ ExpireSession \/ ExpireChallenge \/ FailuresPass
  /\ Follow

Next == (\E c \in Client : Start(c) \/ Step(c)) \/ Environment

Spec == Init /\ [][Next]_vars

\* A request that has begun goes on, and a lock that is free again and again
\* is granted.
FairSpec == Spec /\ \A c \in Client : SF_vars(Step(c))

-----------------------------------------------------------------------------
(* Properties *)

\* An account whose TOTP is on has the secret to verify it with, whatever owner
\* and administrator write over each other: else nobody could log in
\* (totp_begin, totp_confirm, totp_disable and their partial UPDATEs).
EnabledHasSecret == row.totp => row.secret

\* A login gets a session only past a second factor, when one has been in
\* force since before the login began (authenticate_login).
FactorAsked ==
  \A c \in Client :
    At(c, "minted") /\ owes[c] # {} => thread[c].passed

\* A challenge serves one login or one registration, also when its answer is
\* sent to two threads (_consume_passkey_challenge).
ChallengeUsedOnce == \A j \in Challenge : uses[j] <= 1

\* Every request that has begun ends: no thread waits for ever for a stripe,
\* the second inside the first included.
RequestEnds == \A c \in Client : ~At(c, "idle") ~> At(c, "idle")
=============================================================================
