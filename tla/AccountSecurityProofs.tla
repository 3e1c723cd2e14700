----------------------- MODULE AccountSecurityProofs ------------------------
(***************************************************************************)
(* One account and the requests about it, for every number of request      *)
(* threads, subjects, stripes, passkeys, challenges and sessions.          *)
(***************************************************************************)
EXTENDS AccountSecurity, TLAPS

-----------------------------------------------------------------------------
(* The locks, and what is done under them *)

\* Between its admission and its end, a login has the stripe of its subject.
InLogin(c) == thread[c].op \in LoginKind /\ thread[c].pc \notin {"idle", "login"}

\* A second factor or a verified password is asked for under the stripe of Me.
InSecond(c) ==
  \/ thread[c].op \in Reverified /\ thread[c].pc \in {"read", "stamp", "commit"}
  \/ thread[c].op \in LoginKind /\ thread[c].pc \in {"factor", "consume", "assert"}

\* Where a request is, given what it does: only logins name other subjects, and
\* no longer once the password is right.
Fitting(c) ==
  /\ \/ thread[c].who = Me
     \/ thread[c].op \in LoginKind /\ thread[c].pc \in {"login", "read", "hash"}
  /\ thread[c].pc \in {"login", "hash", "factor", "issue", "minted"} =>
       thread[c].op \in LoginKind
  /\ thread[c].pc = "second" =>
       thread[c].op \in {"login", "passkeyComplete"} \cup Reverified
  /\ thread[c].pc \in {"consume", "assert"} =>
       thread[c].op \in {"passkeyComplete", "registerComplete"}
  /\ thread[c].pc \in {"stamp", "commit"} => thread[c].op \in SelfKind
  /\ thread[c].op = "none" => thread[c].pc = "idle"

\* Who has the stripe was admitted under it, and nobody has failed since.
LoginHeld(c) ==
  InLogin(c) => /\ holder[LockOf("login", thread[c].who)] = c
                /\ Within("login", thread[c].who)

SecondHeld(c) ==
  InSecond(c) => holder[LockOf("second", Me)] = c /\ Within("second", Me)

\* A stripe that a request has is one it works under.
StripesKept(c) ==
  \A l \in Lock : holder[l] = c =>
    \/ InLogin(c) /\ l = LockOf("login", thread[c].who)
    \/ InSecond(c) /\ l = LockOf("second", Me)

LocksInv ==
  /\ AdmissionTypeOK
  /\ \A c \in Client : Fitting(c) /\ LoginHeld(c) /\ SecondHeld(c) /\ StripesKept(c)
  /\ FailuresBounded

-----------------------------------------------------------------------------
(* The columns of TOTP *)

\* A request that disables TOTP knows that it is on when it is: it can only have
\* been turned off since, as turning it on takes the stripe the request has.
DisableKnows ==
  \A c \in Client :
    thread[c].op = "disable" /\ thread[c].pc \in {"stamp", "commit"} =>
      (row.totp => thread[c].copy.totp)

RowInv == DisableKnows /\ EnabledHasSecret

-----------------------------------------------------------------------------
(* Challenges *)

\* A challenge that is being used is so by one request, and was never used.
ChallengeInv ==
  /\ \A c \in Client : thread[c].pc = "assert" =>
       thread[c].jti \in Challenge /\ challenge[thread[c].jti] = "taken"
  /\ \A c, d \in Client :
       thread[c].pc = "assert" /\ thread[d].pc = "assert" /\ thread[c].jti = thread[d].jti =>
         c = d
  /\ \A j \in Challenge : challenge[j] # "gone" => uses[j] = 0
  /\ \A j \in Challenge : uses[j] \in {0, 1}

-----------------------------------------------------------------------------
(* Second factors *)

\* What a login owes is in force, was so when it read the account, and is paid
\* before a session is issued.
FactorInv ==
  \A c \in Client :
    /\ owes[c] \subseteq (IF row.totp THEN {"totp"} ELSE {})
                           \cup (IF keys # {} THEN {"passkey"} ELSE {})
    /\ thread[c].pc = "hash" /\ "totp" \in owes[c] => thread[c].copy.totp
    /\ thread[c].pc \in {"issue", "minted"} /\ owes[c] # {} => thread[c].passed

SecurityInv == TypeOK /\ LocksInv /\ RowInv /\ ChallengeInv /\ FactorInv

-----------------------------------------------------------------------------
(* Types *)

LEMMA ThreadFields ==
  ASSUME TypeOK, NEW c \in Client
  PROVE  /\ thread[c] \in Thread
         /\ thread[c].pc \in {"idle", "login", "read", "hash", "second", "factor", "consume",
                              "assert", "issue", "minted", "stamp", "commit"}
         /\ thread[c].op \in LoginKind \cup SelfKind \cup {"none"}
         /\ thread[c].who \in Subject /\ thread[c].copy \in Row
         /\ thread[c].methods \in SUBSET {"totp", "passkey"}
         /\ thread[c].passed \in BOOLEAN /\ thread[c].covers \in SUBSET Session
         /\ thread[c].jti \in Challenge \cup {Nobody}
         /\ thread[c].sid \in Session \cup {Untracked}
BY DEF TypeOK, Thread

LEMMA IdleTyped == Idle \in Thread
BY SecurityAssumption DEF Idle, Thread, Clean, Row

\* One request moves, and the others stay where they are.
LEMMA OneMoves ==
  ASSUME TypeOK, NEW c \in Client, NEW t \in Thread, thread' = [thread EXCEPT ![c] = t]
  PROVE  /\ thread' \in [Client -> Thread] /\ thread'[c] = t
         /\ \A d \in Client \ {c} : thread'[d] = thread[d]
BY DEF TypeOK


\* What the invariants see of a request.
Same(d) ==
  /\ thread'[d].pc = thread[d].pc /\ thread'[d].op = thread[d].op
  /\ thread'[d].who = thread[d].who /\ thread'[d].copy = thread[d].copy
  /\ thread'[d].passed = thread[d].passed /\ thread'[d].jti = thread[d].jti

Moves(c) ==
  /\ thread' \in [Client -> Thread]
  /\ \A d \in Client \ {c} : Same(d)

-----------------------------------------------------------------------------
(* The locks *)

\* A request leaves the locks of others alone, gives none away, and counts
\* failures only for subjects whose stripe it has.
Orderly(c) ==
  /\ AdmissionTypeOK'
  /\ \A l \in Lock : holder[l] \notin {c, Nobody} => holder'[l] = holder[l]
  /\ \A l \in Lock : holder'[l] \in {holder[l], c, Nobody}
  /\ \A f \in Family, s \in Subject :
       \/ failures'[<<f, s>>] <= failures[<<f, s>>]
       \/ failures'[<<f, s>>] <= FailureLimit /\ holder[LockOf(f, s)] = c
  /\ Fitting(c)' /\ LoginHeld(c)' /\ SecondHeld(c)' /\ StripesKept(c)'

LEMMA LocksTyped ==
  ASSUME LocksInv
  PROVE  /\ \A f \in Family, s \in Subject : LockOf(f, s) \in Lock /\ <<f, s>> \in Counter
         /\ \A f \in Family, s \in Subject : failures[<<f, s>>] \in Nat
         /\ \A l \in Lock : holder[l] \in Client \cup {Nobody}
         /\ FailureLimit \in Nat \ {0} /\ Me \in Subject /\ Nobody \notin Client
         /\ "login" \in Family /\ "second" \in Family
BY AdmissionAssumption, SecurityAssumption
   DEF LocksInv, AdmissionTypeOK, LockOf, Lock, Counter, Family

\* What a request knows of its stripes is not disturbed by others.
LEMMA OthersHold ==
  ASSUME TypeOK, LocksInv, NEW d \in Client, Same(d), AdmissionTypeOK',
         \A f \in Family, s \in Subject :
           holder[LockOf(f, s)] = d =>
             /\ holder'[LockOf(f, s)] = d
             /\ failures'[<<f, s>>] <= failures[<<f, s>>],
         \A l \in Lock : holder'[l] = d => holder[l] = d
  PROVE  Fitting(d)' /\ LoginHeld(d)' /\ SecondHeld(d)' /\ StripesKept(d)'
<1>1. /\ Fitting(d) /\ LoginHeld(d) /\ SecondHeld(d) /\ StripesKept(d)
      /\ thread[d].who \in Subject
  BY ThreadFields DEF LocksInv
<1>2. \A f \in Family, s \in Subject : failures'[<<f, s>>] \in Nat
  BY LocksTyped DEF AdmissionTypeOK
<1>3. \A f \in Family, s \in Subject :
        holder[LockOf(f, s)] = d /\ Within(f, s) =>
          holder'[LockOf(f, s)] = d /\ failures'[<<f, s>>] < FailureLimit
  BY <1>2, LocksTyped DEF Within
<1>4. Fitting(d)'
  BY <1>1 DEF Fitting, Same
<1>5. LoginHeld(d)'
  BY <1>1, <1>3, LocksTyped DEF LoginHeld, InLogin, Within, Same, LockOf
<1>6. SecondHeld(d)'
  BY <1>1, <1>3, LocksTyped DEF SecondHeld, InSecond, Within, Same, LockOf
<1>7. StripesKept(d)'
  BY <1>1 DEF StripesKept, InLogin, InSecond, Same, LockOf
<1> QED  BY <1>4, <1>5, <1>6, <1>7

LEMMA OrderlyKept ==
  ASSUME TypeOK, LocksInv, NEW c \in Client, Moves(c), Orderly(c)
  PROVE  LocksInv'
<1>1. ASSUME NEW d \in Client
      PROVE  Fitting(d)' /\ LoginHeld(d)' /\ SecondHeld(d)' /\ StripesKept(d)'
  <2>1. CASE d = c
    BY <2>1 DEF Orderly
  <2>2. CASE d # c
    <3>1. \A f \in Family, s \in Subject :
            holder[LockOf(f, s)] = d =>
              holder'[LockOf(f, s)] = d /\ failures'[<<f, s>>] <= failures[<<f, s>>]
      BY <2>2, LocksTyped DEF Orderly
    <3>2. \A l \in Lock : holder'[l] = d => holder[l] = d
      BY <2>2, LocksTyped DEF Orderly
    <3> QED  BY <2>2, <3>1, <3>2, OthersHold DEF Orderly, Moves
  <2> QED  BY <2>1, <2>2
<1>2. FailuresBounded'
  <2>1. ASSUME NEW f \in Family, NEW s \in Subject
        PROVE  failures'[<<f, s>>] <= FailureLimit
    <3>1. <<f, s>> \in Counter
      BY DEF Counter
    <3>2. failures[<<f, s>>] <= FailureLimit /\ failures[<<f, s>>] \in Nat
      BY <3>1 DEF LocksInv, FailuresBounded, AdmissionTypeOK
    <3>3. failures'[<<f, s>>] \in Nat
      BY <3>1 DEF Orderly, AdmissionTypeOK
    <3>4. failures'[<<f, s>>] <= failures[<<f, s>>] \/ failures'[<<f, s>>] <= FailureLimit
      BY DEF Orderly
    <3> QED  BY <3>2, <3>3, <3>4, AdmissionAssumption
  <2> QED  BY <2>1 DEF FailuresBounded, Counter
<1> QED  BY <1>1, <1>2 DEF LocksInv, Orderly

\* Nobody moves: time passes, or another transaction commits.
LEMMA OthersOrderly ==
  ASSUME TypeOK, LocksInv, \A d \in Client : Same(d), UNCHANGED admissionVars \/ Forget
  PROVE  LocksInv'
<1>1. /\ holder' = holder /\ failures' \in [Counter -> Nat]
      /\ \A k \in Counter : failures'[k] <= failures[k]
  <2>1. failures \in [Counter -> Nat]
    BY DEF LocksInv, AdmissionTypeOK
  <2>2. CASE UNCHANGED admissionVars
    BY <2>1, <2>2 DEF admissionVars
  <2>3. CASE Forget
    <3>1. PICK k \in Counter : \E n \in 0 .. failures[k] :
            n < failures[k] /\ failures' = [failures EXCEPT ![k] = n]
      BY <2>3 DEF Forget
    <3> QED  BY <2>1, <2>3, <3>1 DEF Forget
  <2> QED  BY <2>2, <2>3
<1>2. AdmissionTypeOK'
  BY <1>1 DEF LocksInv, AdmissionTypeOK
<1>3. \A d \in Client : Fitting(d)' /\ LoginHeld(d)' /\ SecondHeld(d)' /\ StripesKept(d)'
  BY <1>1, <1>2, OthersHold, LocksTyped
<1>4. FailuresBounded'
  <2>1. \A k \in Counter : failures[k] <= FailureLimit /\ failures[k] \in Nat
          /\ failures'[k] \in Nat
    BY <1>1 DEF LocksInv, AdmissionTypeOK, FailuresBounded
  <2> QED  BY <1>1, <2>1, AdmissionAssumption DEF FailuresBounded
<1> QED  BY <1>2, <1>3, <1>4 DEF LocksInv


-----------------------------------------------------------------------------
(* What a step makes of the request that takes it *)

Becomes(c, pc, op, who, copy, passed, jti) ==
  /\ Moves(c)
  /\ thread'[c].pc = pc /\ thread'[c].op = op /\ thread'[c].who = who
  /\ thread'[c].copy = copy /\ thread'[c].passed = passed /\ thread'[c].jti = jti

Ends(c) == Becomes(c, "idle", "none", Me, Clean, FALSE, Nobody)

\* The request goes elsewhere, and nothing else changes of it.
GoesTo(c, pc) ==
  Becomes(c, pc, thread[c].op, thread[c].who, thread[c].copy, thread[c].passed, thread[c].jti)

LEMMA TurnsInto ==
  ASSUME TypeOK, NEW c \in Client, NEW t \in Thread, thread' = [thread EXCEPT ![c] = t]
  PROVE  Becomes(c, t.pc, t.op, t.who, t.copy, t.passed, t.jti)
BY OneMoves DEF Becomes, Moves, Same

LEMMA EndTurns ==
  ASSUME TypeOK, NEW c \in Client, End(c)
  PROVE  Ends(c)
<1>1. Becomes(c, Idle.pc, Idle.op, Idle.who, Idle.copy, Idle.passed, Idle.jti)
  BY TurnsInto, IdleTyped DEF End
<1> QED  BY <1>1 DEF Ends, Idle

LEMMA GotoTurns ==
  ASSUME TypeOK, NEW c \in Client, NEW pc \in {"read", "factor", "consume"}, Goto(c, pc)
  PROVE  GoesTo(c, pc)
<1> DEFINE t == [thread[c] EXCEPT !.pc = pc]
<1>1. thread' = [thread EXCEPT ![c] = t]
  BY DEF Goto, TypeOK
<1>2. t \in Thread
  BY ThreadFields DEF Thread
<1>3. /\ t.pc = pc /\ t.op = thread[c].op /\ t.who = thread[c].who
      /\ t.copy = thread[c].copy /\ t.passed = thread[c].passed /\ t.jti = thread[c].jti
  BY ThreadFields DEF Thread
<1> HIDE DEF t
<1> QED  BY <1>1, <1>2, <1>3, TurnsInto DEF GoesTo

\* Of the steps of a login.
LEMMA LoginTurns ==
  ASSUME TypeOK, NEW c \in Client
  PROVE  /\ StartLogin(c) => \E op \in LoginKind, s \in Subject :
              Becomes(c, "login", op, s, thread[c].copy, thread[c].passed, thread[c].jti)
         /\ ReadAccount(c) => Becomes(c, "hash", thread[c].op, thread[c].who, row,
                                      thread[c].passed, thread[c].jti)
         /\ PasswordVerified(c) => \E pc \in {"second", "issue"} :
              /\ Becomes(c, pc, thread[c].op, thread[c].who, Clean,
                         thread[c].passed, thread[c].jti)
              /\ pc = "issue" => /\ thread[c].op # "passkeyComplete"
                                 /\ ~thread[c].copy.totp /\ keys = {}
         /\ RightCode(c) => Becomes(c, "issue", thread[c].op, thread[c].who, thread[c].copy,
                                    TRUE, thread[c].jti)
         /\ Mint(c) => GoesTo(c, "minted")
<1>1. ASSUME StartLogin(c)
      PROVE  \E op \in LoginKind, s \in Subject :
               Becomes(c, "login", op, s, thread[c].copy, thread[c].passed, thread[c].jti)
  <2>1. PICK op \in LoginKind, s \in Subject :
          thread' = [thread EXCEPT ![c].pc = "login", ![c].op = op, ![c].who = s]
    BY <1>1 DEF StartLogin
  <2> DEFINE t == [thread[c] EXCEPT !.pc = "login", !.op = op, !.who = s]
  <2>2. thread' = [thread EXCEPT ![c] = t]
    BY <2>1 DEF TypeOK
  <2>3. t \in Thread
    BY ThreadFields, ZenonT(40) DEF Thread
  <2>4. /\ t.pc = "login" /\ t.op = op /\ t.who = s
        /\ t.copy = thread[c].copy /\ t.passed = thread[c].passed /\ t.jti = thread[c].jti
    BY ThreadFields DEF Thread
  <2> HIDE DEF t
  <2> QED  BY <2>2, <2>3, <2>4, TurnsInto
<1>2. ASSUME ReadAccount(c)
      PROVE  Becomes(c, "hash", thread[c].op, thread[c].who, row, thread[c].passed, thread[c].jti)
  <2> DEFINE t == [thread[c] EXCEPT !.pc = "hash", !.copy = row]
  <2>1. thread' = [thread EXCEPT ![c] = t]
    BY <1>2 DEF ReadAccount, TypeOK
  <2>2. t \in Thread
    <3>1. row \in Row
      BY DEF TypeOK
    <3> QED  BY <3>1, ThreadFields, ZenonT(40) DEF Thread
  <2>3. /\ t.pc = "hash" /\ t.op = thread[c].op /\ t.who = thread[c].who
        /\ t.copy = row /\ t.passed = thread[c].passed /\ t.jti = thread[c].jti
    BY ThreadFields DEF Thread
  <2> HIDE DEF t
  <2> QED  BY <2>1, <2>2, <2>3, TurnsInto
<1>3. ASSUME PasswordVerified(c)
      PROVE  \E pc \in {"second", "issue"} :
               /\ Becomes(c, pc, thread[c].op, thread[c].who, Clean,
                          thread[c].passed, thread[c].jti)
               /\ pc = "issue" => /\ thread[c].op # "passkeyComplete"
                                  /\ ~thread[c].copy.totp /\ keys = {}
  <2> DEFINE ms == Methods(thread[c].copy.totp, keys)
             second == thread[c].op = "passkeyComplete" \/ ms # {}
             pc == IF second THEN "second" ELSE "issue"
             t == [thread[c] EXCEPT !.methods = ms, !.copy = Clean, !.pc = pc]
  <2>1. thread' = [thread EXCEPT ![c] = t]
    BY <1>3 DEF PasswordVerified, TypeOK
  <2>2. /\ ms \in SUBSET {"totp", "passkey"} /\ pc \in {"second", "issue"}
        /\ Clean \in Row
    BY DEF Methods, Clean, Row
  <2>3. ~second => /\ thread[c].op # "passkeyComplete"
                   /\ ~thread[c].copy.totp /\ keys = {}
    BY DEF Methods
  <2> HIDE DEF ms, pc
  <2>4. t \in Thread
    BY <2>2, ThreadFields, ZenonT(40) DEF Thread
  <2>5. /\ t.pc = pc /\ t.op = thread[c].op /\ t.who = thread[c].who
        /\ t.copy = Clean /\ t.passed = thread[c].passed /\ t.jti = thread[c].jti
    BY ThreadFields DEF Thread
  <2> HIDE DEF t
  <2>6. Becomes(c, pc, thread[c].op, thread[c].who, Clean, thread[c].passed, thread[c].jti)
    BY <2>1, <2>4, <2>5, TurnsInto
  <2>7. pc = "issue" => ~second
    BY DEF pc
  <2> QED  BY <2>2, <2>3, <2>6, <2>7
<1>4. ASSUME RightCode(c)
      PROVE  Becomes(c, "issue", thread[c].op, thread[c].who, thread[c].copy, TRUE,
                     thread[c].jti)
  <2> DEFINE t == [thread[c] EXCEPT !.pc = "issue", !.passed = TRUE, !.methods = {}]
  <2>1. thread' = [thread EXCEPT ![c] = t]
    BY <1>4 DEF RightCode, TypeOK
  <2>2. t \in Thread
    BY ThreadFields, ZenonT(40) DEF Thread
  <2>3. /\ t.pc = "issue" /\ t.op = thread[c].op /\ t.who = thread[c].who
        /\ t.copy = thread[c].copy /\ t.passed = TRUE /\ t.jti = thread[c].jti
    BY ThreadFields DEF Thread
  <2> HIDE DEF t
  <2> QED  BY <2>1, <2>2, <2>3, TurnsInto
<1>5. ASSUME Mint(c)
      PROVE  GoesTo(c, "minted")
  <2>1. PICK s \in Session \cup {Untracked} :
          thread' = [thread EXCEPT ![c].pc = "minted", ![c].sid = s]
    BY <1>5 DEF Mint
  <2> DEFINE t == [thread[c] EXCEPT !.pc = "minted", !.sid = s]
  <2>2. thread' = [thread EXCEPT ![c] = t]
    BY <2>1 DEF TypeOK
  <2>3. t \in Thread
    BY ThreadFields, ZenonT(40) DEF Thread
  <2>4. /\ t.pc = "minted" /\ t.op = thread[c].op /\ t.who = thread[c].who
        /\ t.copy = thread[c].copy /\ t.passed = thread[c].passed /\ t.jti = thread[c].jti
    BY ThreadFields DEF Thread
  <2> HIDE DEF t
  <2> QED  BY <2>2, <2>3, <2>4, TurnsInto DEF GoesTo
<1> QED  BY <1>1, <1>2, <1>3, <1>4, <1>5


\* Of the ceremonies of passkeys.
LEMMA CeremonyTurns ==
  ASSUME TypeOK, NEW c \in Client
  PROVE  /\ Consume(c) => \E j \in Challenge :
              /\ Becomes(c, "assert", thread[c].op, thread[c].who, thread[c].copy,
                         thread[c].passed, j)
              /\ Live(j, Purpose(thread[c].op))
              /\ challenge' = [challenge EXCEPT ![j] = "taken"]
         /\ PasskeyVerified(c) => Becomes(c, "issue", thread[c].op, thread[c].who,
                                          thread[c].copy, TRUE, Nobody)
<1>1. ASSUME Consume(c)
      PROVE  \E j \in Challenge :
               /\ Becomes(c, "assert", thread[c].op, thread[c].who, thread[c].copy,
                          thread[c].passed, j)
               /\ Live(j, Purpose(thread[c].op))
               /\ challenge' = [challenge EXCEPT ![j] = "taken"]
  <2>1. PICK j \in Challenge :
          /\ Live(j, Purpose(thread[c].op))
          /\ challenge' = [challenge EXCEPT ![j] = "taken"]
          /\ thread' = [thread EXCEPT ![c].pc = "assert", ![c].jti = j]
    BY <1>1 DEF Consume
  <2> DEFINE t == [thread[c] EXCEPT !.pc = "assert", !.jti = j]
  <2>2. thread' = [thread EXCEPT ![c] = t]
    BY <2>1 DEF TypeOK
  <2>3. t \in Thread
    BY ThreadFields, ZenonT(40) DEF Thread
  <2>4. /\ t.pc = "assert" /\ t.op = thread[c].op /\ t.who = thread[c].who
        /\ t.copy = thread[c].copy /\ t.passed = thread[c].passed /\ t.jti = j
    BY ThreadFields DEF Thread
  <2> HIDE DEF t
  <2>5. Becomes(c, "assert", thread[c].op, thread[c].who, thread[c].copy,
                thread[c].passed, j)
    BY <2>2, <2>3, <2>4, TurnsInto
  <2> QED  BY <2>1, <2>5
<1>2. ASSUME PasskeyVerified(c)
      PROVE  Becomes(c, "issue", thread[c].op, thread[c].who, thread[c].copy, TRUE, Nobody)
  <2> DEFINE t == [thread[c] EXCEPT !.pc = "issue", !.passed = TRUE, !.jti = Nobody,
                                    !.methods = {}]
  <2>1. thread' = [thread EXCEPT ![c] = t]
    BY <1>2 DEF PasskeyVerified, TypeOK
  <2>2. t \in Thread
    BY ThreadFields, ZenonT(40) DEF Thread
  <2>3. /\ t.pc = "issue" /\ t.op = thread[c].op /\ t.who = thread[c].who
        /\ t.copy = thread[c].copy /\ t.passed = TRUE /\ t.jti = Nobody
    BY ThreadFields DEF Thread
  <2> HIDE DEF t
  <2> QED  BY <2>1, <2>2, <2>3, TurnsInto
<1> QED  BY <1>1, <1>2

\* Of the changes by the owner.
LEMMA SelfTurns ==
  ASSUME TypeOK, NEW c \in Client
  PROVE  /\ StartSelf(c) => \E op \in SelfKind, pc \in {"second", "consume", "read"} :
              /\ Becomes(c, pc, op, thread[c].who, thread[c].copy,
                         thread[c].passed, thread[c].jti)
              /\ pc = "second" <=> op \in Reverified
              /\ pc = "consume" <=> op = "registerComplete"
         /\ ReadAndVerify(c) => \E pc \in {"commit", "stamp"} :
              /\ Becomes(c, pc, thread[c].op, thread[c].who, row,
                         thread[c].passed, thread[c].jti)
         /\ Stamp(c) => GoesTo(c, "commit")
<1>1. ASSUME StartSelf(c)
      PROVE  \E op \in SelfKind, pc \in {"second", "consume", "read"} :
               /\ Becomes(c, pc, op, thread[c].who, thread[c].copy,
                          thread[c].passed, thread[c].jti)
               /\ pc = "second" <=> op \in Reverified
               /\ pc = "consume" <=> op = "registerComplete"
  <2>1. PICK op \in SelfKind :
          thread' = [thread EXCEPT
                       ![c].op = op,
                       ![c].covers = IF op = "registerComplete" THEN Started ELSE {},
                       ![c].pc = CASE op \in Reverified -> "second"
                                   [] op = "registerComplete" -> "consume"
                                   [] OTHER -> "read"]
    BY <1>1 DEF StartSelf
  <2> DEFINE pc == CASE op \in Reverified -> "second"
                     [] op = "registerComplete" -> "consume"
                     [] OTHER -> "read"
             covers == IF op = "registerComplete" THEN Started ELSE {}
             t == [thread[c] EXCEPT !.op = op, !.covers = covers, !.pc = pc]
  <2>2. thread' = [thread EXCEPT ![c].op = op, ![c].covers = covers, ![c].pc = pc]
    BY <2>1
  <2>3. /\ pc \in {"second", "consume", "read"} /\ covers \subseteq Session
        /\ pc = "second" <=> op \in Reverified
        /\ pc = "consume" <=> op = "registerComplete"
    BY DEF Started, Reverified
  <2> HIDE DEF pc, covers
  <2>4. thread' = [thread EXCEPT ![c] = t] /\ t \in Thread
    <3>1. thread' = [thread EXCEPT ![c] = t]
      BY <2>2 DEF TypeOK
    <3>2. t \in Thread
      BY <2>3, ThreadFields, ZenonT(40) DEF Thread
    <3> QED  BY <3>1, <3>2
  <2>5. /\ t.pc = pc /\ t.op = op /\ t.who = thread[c].who
        /\ t.copy = thread[c].copy /\ t.passed = thread[c].passed /\ t.jti = thread[c].jti
    BY ThreadFields DEF Thread
  <2> HIDE DEF t
  <2>6. Becomes(c, pc, op, thread[c].who, thread[c].copy, thread[c].passed, thread[c].jti)
    BY <2>4, <2>5, TurnsInto
  <2> QED  BY <2>3, <2>6
<1>2. ASSUME ReadAndVerify(c)
      PROVE  \E pc \in {"commit", "stamp"} :
               /\ Becomes(c, pc, thread[c].op, thread[c].who, row,
                          thread[c].passed, thread[c].jti)
  <2> DEFINE pc == IF thread[c].op = "begin" THEN "commit" ELSE "stamp"
             t == [thread[c] EXCEPT !.copy = row, !.pc = pc]
  <2>1. thread' = [thread EXCEPT ![c] = t]
    BY <1>2 DEF ReadAndVerify, TypeOK
  <2>2. pc \in {"commit", "stamp"} /\ row \in Row
    BY DEF TypeOK
  <2> HIDE DEF pc
  <2>3. t \in Thread
    BY <2>2, ThreadFields, ZenonT(40) DEF Thread
  <2>4. /\ t.pc = pc /\ t.op = thread[c].op /\ t.who = thread[c].who
        /\ t.copy = row /\ t.passed = thread[c].passed /\ t.jti = thread[c].jti
    BY ThreadFields DEF Thread
  <2> HIDE DEF t
  <2> QED  BY <2>1, <2>2, <2>3, <2>4, TurnsInto
<1>3. ASSUME Stamp(c)
      PROVE  GoesTo(c, "commit")
  <2> DEFINE t == [thread[c] EXCEPT !.pc = "commit", !.covers = Started]
  <2>1. thread' = [thread EXCEPT ![c] = t]
    BY <1>3 DEF Stamp, TypeOK
  <2>2. t \in Thread
    BY ThreadFields, ZenonT(40) DEF Thread, Started
  <2>3. /\ t.pc = "commit" /\ t.op = thread[c].op /\ t.who = thread[c].who
        /\ t.copy = thread[c].copy /\ t.passed = thread[c].passed /\ t.jti = thread[c].jti
    BY ThreadFields DEF Thread
  <2> HIDE DEF t
  <2> QED  BY <2>1, <2>2, <2>3, TurnsInto DEF GoesTo
<1> QED  BY <1>1, <1>2, <1>3


\* A session that is no more is forgotten by all requests, of which nothing else
\* changes.
LEMMA Forgetting ==
  ASSUME TypeOK, NEW S, NEW th \in [Client -> Thread], thread' = WithoutSessions(th, S)
  PROVE  /\ thread' \in [Client -> Thread]
         /\ \A d \in Client :
              /\ thread'[d].pc = th[d].pc /\ thread'[d].op = th[d].op
              /\ thread'[d].who = th[d].who /\ thread'[d].copy = th[d].copy
              /\ thread'[d].passed = th[d].passed /\ thread'[d].jti = th[d].jti
<1>1. ASSUME NEW d \in Client
      PROVE  /\ thread'[d] \in Thread
             /\ thread'[d].pc = th[d].pc /\ thread'[d].op = th[d].op
             /\ thread'[d].who = th[d].who /\ thread'[d].copy = th[d].copy
             /\ thread'[d].passed = th[d].passed /\ thread'[d].jti = th[d].jti
  <2> DEFINE t == [th[d] EXCEPT !.covers = @ \ S]
  <2>1. thread'[d] = t
    BY DEF WithoutSessions
  <2>2. t \in Thread
    BY DEF Thread
  <2>3. /\ t.pc = th[d].pc /\ t.op = th[d].op /\ t.who = th[d].who
        /\ t.copy = th[d].copy /\ t.passed = th[d].passed /\ t.jti = th[d].jti
    BY DEF Thread
  <2> HIDE DEF t
  <2> QED  BY <2>1, <2>2, <2>3
<1>2. thread' = [d \in Client |-> thread'[d]]
  BY DEF WithoutSessions
<1> QED  BY <1>1, <1>2

LEMMA IssueTurns ==
  ASSUME TypeOK, NEW c \in Client, Issue(c)
  PROVE  Ends(c)
<1>1. CASE row.active
  BY <1>1, EndTurns DEF Issue
<1>2. CASE ~row.active
  <2> DEFINE th == [thread EXCEPT ![c] = Idle]
  <2>1. th \in [Client -> Thread] /\ th[c] = Idle /\ \A d \in Client \ {c} : th[d] = thread[d]
    BY IdleTyped DEF TypeOK
  <2>2. thread' = WithoutSessions(th, {thread[c].sid})
    BY <1>2 DEF Issue
  <2> HIDE DEF th
  <2>3. /\ thread' \in [Client -> Thread]
        /\ \A d \in Client :
             /\ thread'[d].pc = th[d].pc /\ thread'[d].op = th[d].op
             /\ thread'[d].who = th[d].who /\ thread'[d].copy = th[d].copy
             /\ thread'[d].passed = th[d].passed /\ thread'[d].jti = th[d].jti
    BY <2>1, <2>2, Forgetting
  <2> QED  BY <2>1, <2>3 DEF Ends, Becomes, Moves, Same, Idle
<1> QED  BY <1>1, <1>2

-----------------------------------------------------------------------------
(* Each step is orderly *)

\* A request that goes on under the stripes it has, and counts nothing.
LEMMA WalksOrderly ==
  ASSUME TypeOK, LocksInv, NEW c \in Client, UNCHANGED admissionVars, Fitting(c)',
         InLogin(c)' <=> InLogin(c), InSecond(c)' <=> InSecond(c),
         InLogin(c) => thread'[c].who = thread[c].who
  PROVE  Orderly(c)
<1>1. UNCHANGED <<failures, holder>>
  BY DEF admissionVars
<1>2. AdmissionTypeOK'
  BY <1>1 DEF LocksInv, AdmissionTypeOK
<1>3. LoginHeld(c) /\ SecondHeld(c) /\ StripesKept(c)
  BY DEF LocksInv
<1>4. LoginHeld(c)' /\ SecondHeld(c)' /\ StripesKept(c)'
  BY <1>1, <1>3 DEF LoginHeld, SecondHeld, StripesKept, Within
<1>5. ASSUME NEW f \in Family, NEW s \in Subject
      PROVE  failures'[<<f, s>>] <= failures[<<f, s>>]
  <2>1. failures[<<f, s>>] \in Nat
    BY LocksTyped
  <2> QED  BY <1>1, <2>1
<1> QED  BY <1>1, <1>2, <1>4, <1>5 DEF Orderly

\* A request that ends leaves its stripes, and may have counted a failure under one.
LEMMA EndsOrderly ==
  ASSUME TypeOK, LocksInv, NEW c \in Client, Ends(c), ReleaseAll(c),
         failures' \in [Counter -> Nat],
         \A f \in Family, s \in Subject :
           \/ failures'[<<f, s>>] <= failures[<<f, s>>]
           \/ failures'[<<f, s>>] <= FailureLimit /\ holder[LockOf(f, s)] = c
  PROVE  Orderly(c)
<1>1. /\ holder' \in [Lock -> Client \cup {Nobody}]
      /\ \A l \in Lock : holder[l] \notin {c, Nobody} => holder'[l] = holder[l]
      /\ \A l \in Lock : holder'[l] \in {holder[l], Nobody} /\ holder'[l] # c
  BY LocksTyped DEF ReleaseAll
<1>2. ~InLogin(c)' /\ ~InSecond(c)' /\ Fitting(c)'
  BY DEF Ends, Becomes, InLogin, InSecond, Fitting, LoginKind, Reverified
<1> QED  BY <1>1, <1>2 DEF Orderly, AdmissionTypeOK, LoginHeld, SecondHeld, StripesKept

LEMMA GiveUpOrderly ==
  ASSUME TypeOK, LocksInv, NEW c \in Client, GiveUp(c)
  PROVE  Ends(c) /\ Orderly(c)
<1>1. Ends(c) /\ ReleaseAll(c) /\ failures' = failures
  BY EndTurns DEF GiveUp
<1>2. ASSUME NEW f \in Family, NEW s \in Subject
      PROVE  failures'[<<f, s>>] <= failures[<<f, s>>]
  <2>1. failures[<<f, s>>] \in Nat
    BY LocksTyped
  <2> QED  BY <1>1, <2>1
<1>3. failures' \in [Counter -> Nat]
  BY <1>1 DEF LocksInv, AdmissionTypeOK
<1> QED  BY <1>1, <1>2, <1>3, EndsOrderly

\* One failure more under the stripe, where there was room for it.
LEMMA RecordUnderLock ==
  ASSUME LocksInv, NEW c \in Client, NEW f \in Family, NEW s \in Subject,
         holder[LockOf(f, s)] = c, Within(f, s), Record(f, s)
  PROVE  /\ failures' \in [Counter -> Nat]
         /\ \A g \in Family, t \in Subject :
              \/ failures'[<<g, t>>] <= failures[<<g, t>>]
              \/ failures'[<<g, t>>] <= FailureLimit /\ holder[LockOf(g, t)] = c
<1>1. failures \in [Counter -> Nat] /\ <<f, s>> \in Counter
  BY LocksTyped DEF LocksInv, AdmissionTypeOK
<1>2. failures' = [failures EXCEPT ![<<f, s>>] = failures[<<f, s>>] + 1]
  BY DEF Record
<1>3. failures' \in [Counter -> Nat]
  BY <1>1, <1>2
<1>4. ASSUME NEW g \in Family, NEW t \in Subject
      PROVE  \/ failures'[<<g, t>>] <= failures[<<g, t>>]
             \/ failures'[<<g, t>>] <= FailureLimit /\ holder[LockOf(g, t)] = c
  <2>1. <<g, t>> \in Counter /\ failures[<<g, t>>] \in Nat
    BY LocksTyped
  <2>2. CASE g = f /\ t = s
    <3>1. failures'[<<g, t>>] = failures[<<g, t>>] + 1
      BY <1>1, <1>2, <2>2
    <3>2. failures[<<g, t>>] < FailureLimit /\ FailureLimit \in Nat
      BY <2>2, AdmissionAssumption DEF Within
    <3> QED  BY <2>1, <2>2, <3>1, <3>2
  <2>3. CASE ~(g = f /\ t = s)
    <3>1. <<g, t>> # <<f, s>>
      BY <2>3
    <3>2. failures'[<<g, t>>] = failures[<<g, t>>]
      BY <1>1, <1>2, <2>1, <3>1
    <3> QED  BY <2>1, <3>2
  <2> QED  BY <2>2, <2>3
<1> QED  BY <1>3, <1>4

LEMMA FailOrderly ==
  ASSUME TypeOK, LocksInv, NEW c \in Client, NEW f \in Family,
         holder[LockOf(f, thread[c].who)] = c, Within(f, thread[c].who), Fail(c, f)
  PROVE  Ends(c) /\ Orderly(c)
<1>1. Ends(c) /\ ReleaseAll(c) /\ Record(f, thread[c].who)
  BY EndTurns DEF Fail
<1>2. thread[c].who \in Subject
  BY ThreadFields
<1> QED  BY <1>1, <1>2, RecordUnderLock, EndsOrderly

LEMMA ClearTyped ==
  ASSUME LocksInv, NEW f \in Family, NEW s \in Subject, Clear(f, s)
  PROVE  /\ failures' \in [Counter -> Nat]
         /\ \A g \in Family, t \in Subject : failures'[<<g, t>>] <= failures[<<g, t>>]
<1>1. failures \in [Counter -> Nat] /\ <<f, s>> \in Counter
  BY LocksTyped DEF LocksInv, AdmissionTypeOK
<1>2. failures' = [failures EXCEPT ![<<f, s>>] = 0]
  BY DEF Clear
<1>3. \A g \in Family, t \in Subject : <<g, t>> \in Counter
  BY LocksTyped
<1>4. \A k \in Counter : failures'[k] <= failures[k]
  BY <1>1, <1>2
<1> QED  BY <1>1, <1>2, <1>3, <1>4


LEMMA TakeOrderly ==
  ASSUME LocksInv, NEW c \in Client, NEW f \in Family, NEW s \in Subject,
         Free(f, s), Take(f, s, c), UNCHANGED failures
  PROVE  /\ AdmissionTypeOK' /\ holder'[LockOf(f, s)] = c
         /\ \A l \in Lock : holder[l] # Nobody => holder'[l] = holder[l]
         /\ \A l \in Lock \ {LockOf(f, s)} : holder'[l] = holder[l]
         /\ \A g \in Family, t \in Subject : failures'[<<g, t>>] <= failures[<<g, t>>]
<1>1. LockOf(f, s) \in Lock /\ holder \in [Lock -> Client \cup {Nobody}]
  BY LocksTyped DEF LocksInv, AdmissionTypeOK
<1>2. holder[LockOf(f, s)] = Nobody /\ holder' = [holder EXCEPT ![LockOf(f, s)] = c]
  BY DEF Free, Take
<1>3. ASSUME NEW g \in Family, NEW t \in Subject
      PROVE  failures'[<<g, t>>] <= failures[<<g, t>>]
  <2>1. failures[<<g, t>>] \in Nat
    BY LocksTyped
  <2> QED  BY <2>1
<1>4. AdmissionTypeOK'
  BY <1>1, <1>2 DEF LocksInv, AdmissionTypeOK
<1> QED  BY <1>1, <1>2, <1>3, <1>4

LEMMA EnterLoginOrderly ==
  ASSUME TypeOK, LocksInv, NEW c \in Client, EnterLogin(c)
  PROVE  Moves(c) /\ Orderly(c)
<1>1. /\ thread[c].pc = "login" /\ thread[c].op \in LoginKind /\ thread[c].who \in Subject
      /\ Fitting(c)
  BY ThreadFields DEF EnterLogin, At, LocksInv, Fitting
<1>2. CASE Take("login", thread[c].who, c) /\ Goto(c, "read") /\ Within("login", thread[c].who)
  <2>1. GoesTo(c, "read")
    BY <1>2, GotoTurns
  <2>2. /\ AdmissionTypeOK' /\ holder'[LockOf("login", thread[c].who)] = c
        /\ \A l \in Lock : holder[l] # Nobody => holder'[l] = holder[l]
        /\ \A l \in Lock \ {LockOf("login", thread[c].who)} : holder'[l] = holder[l]
        /\ \A g \in Family, t \in Subject : failures'[<<g, t>>] <= failures[<<g, t>>]
    BY <1>1, <1>2, TakeOrderly, LocksTyped DEF EnterLogin
  <2>3. thread'[c].pc = "read" /\ thread'[c].op = thread[c].op /\ thread'[c].who = thread[c].who
    BY <2>1 DEF GoesTo, Becomes
  <2>4. Fitting(c)' /\ ~InSecond(c)'
    BY <1>1, <2>3 DEF Fitting, InSecond, LoginKind, Reverified
  <2>5. failures' = failures
    BY DEF EnterLogin
  <2>6. LoginHeld(c)'
    BY <1>2, <2>2, <2>3, <2>5 DEF LoginHeld, Within
  <2>7. InLogin(c)' /\ ~InLogin(c) /\ ~InSecond(c) /\ StripesKept(c)
    BY <1>1, <2>3 DEF InLogin, InSecond, Reverified, LocksInv
  <2>8. StripesKept(c)'
    BY <2>2, <2>3, <2>7 DEF StripesKept, LockOf
  <2>9. \A l \in Lock : holder'[l] \in {holder[l], c, Nobody}
    BY <2>2
  <2> QED  BY <2>1, <2>2, <2>4, <2>6, <2>8, <2>9 DEF GoesTo, Becomes, Orderly, SecondHeld
<1>3. CASE End(c) /\ UNCHANGED holder
  <2>1. Ends(c)
    BY <1>3, EndTurns
  <2>2. UNCHANGED admissionVars
    BY <1>3 DEF EnterLogin, admissionVars
  <2>3. ~InLogin(c)' /\ ~InSecond(c)' /\ Fitting(c)'
    BY <2>1 DEF Ends, Becomes, InLogin, InSecond, Fitting, LoginKind, Reverified
  <2>4. ~InLogin(c) /\ ~InSecond(c)
    BY <1>1 DEF InLogin, InSecond
  <2> QED  BY <2>1, <2>2, <2>3, <2>4, WalksOrderly DEF Ends, Becomes
<1> QED  BY <1>2, <1>3 DEF EnterLogin, Admitted

LEMMA EnterSecondOrderly ==
  ASSUME TypeOK, LocksInv, NEW c \in Client, EnterSecond(c)
  PROVE  /\ Moves(c) /\ Orderly(c)
         /\ Ends(c) \/ \E pc \in {"read", "factor", "consume"} : GoesTo(c, pc)
<1>1. /\ thread[c].pc = "second" /\ thread[c].who = Me
      /\ thread[c].op \in {"login", "passkeyComplete"} \cup Reverified
      /\ LoginHeld(c)
  BY DEF EnterSecond, At, LocksInv, Fitting
<1> DEFINE pc == CASE thread[c].op = "login" -> "factor"
                   [] thread[c].op = "passkeyComplete" -> "consume"
                   [] OTHER -> "read"
<1>2. CASE /\ Take("second", Me, c) /\ Within("second", Me)
           /\ Goto(c, pc)
           /\ UNCHANGED failures
  <2>1. /\ pc \in {"read", "factor", "consume"}
        /\ thread[c].op = "login" => pc = "factor"
        /\ thread[c].op = "passkeyComplete" => pc = "consume"
        /\ thread[c].op \in Reverified => pc = "read"
    BY <1>1 DEF Reverified
  <2>2. Goto(c, pc)
    BY <1>2
  <2> HIDE DEF pc
  <2>3. GoesTo(c, pc)
    BY <2>1, <2>2, GotoTurns
  <2>4. /\ AdmissionTypeOK' /\ holder'[LockOf("second", Me)] = c
        /\ \A l \in Lock : holder[l] # Nobody => holder'[l] = holder[l]
        /\ \A l \in Lock \ {LockOf("second", Me)} : holder'[l] = holder[l]
        /\ \A g \in Family, t \in Subject : failures'[<<g, t>>] <= failures[<<g, t>>]
    BY <1>2, TakeOrderly, LocksTyped DEF EnterSecond
  <2>5. thread'[c].pc = pc /\ thread'[c].op = thread[c].op /\ thread'[c].who = thread[c].who
    BY <2>3 DEF GoesTo, Becomes
  <2>6. Fitting(c)'
    BY <1>1, <2>1, <2>5 DEF Fitting, LoginKind, Reverified
  <2>7. SecondHeld(c)'
    BY <1>2, <2>4 DEF SecondHeld, Within
  <2>8. LoginHeld(c)'
    <3>1. InLogin(c)' => InLogin(c)
      BY <1>1, <2>5 DEF InLogin
    <3>2. LockOf("login", Me) \in Lock
      BY LocksTyped
    <3> QED  BY <1>1, <1>2, <2>4, <2>5, <3>1, <3>2, LocksTyped DEF LoginHeld, Within
  <2>9. StripesKept(c)'
    <3>1. InSecond(c)' /\ (InLogin(c) => InLogin(c)') /\ ~InSecond(c) /\ StripesKept(c)
      BY <1>1, <2>1, <2>5 DEF InLogin, InSecond, LoginKind, LocksInv
    <3> QED  BY <2>4, <2>5, <3>1 DEF StripesKept, LockOf
  <2>10. \A l \in Lock : holder'[l] \in {holder[l], c, Nobody}
    BY <2>4
  <2>11. Orderly(c)
    BY <2>4, <2>6, <2>7, <2>8, <2>9, <2>10 DEF Orderly
  <2> QED  BY <2>1, <2>3, <2>11 DEF GoesTo, Becomes
<1>3. CASE GiveUp(c)
  BY <1>3, GiveUpOrderly DEF Ends, Becomes
<1> QED  BY <1>2, <1>3 DEF EnterSecond, Admitted

\* The second factor is right: its stripe is left, and the failures are forgotten.
LEMMA PassOrderly ==
  ASSUME TypeOK, LocksInv, NEW c \in Client, InSecond(c), InLogin(c), thread[c].who = Me,
         Clear("second", Me), Release("second", Me), Moves(c),
         thread'[c].pc = "issue", thread'[c].op = thread[c].op, thread'[c].who = thread[c].who
  PROVE  Orderly(c)
<1>1. holder[LockOf("second", Me)] = c /\ LoginHeld(c)
  BY DEF LocksInv, SecondHeld
<1>2. /\ failures' \in [Counter -> Nat]
      /\ \A g \in Family, t \in Subject : failures'[<<g, t>>] <= failures[<<g, t>>]
  BY ClearTyped, LocksTyped
<1>3. holder' = [holder EXCEPT ![LockOf("second", Me)] = Nobody]
      /\ holder \in [Lock -> Client \cup {Nobody}]
  BY DEF Release, LocksInv, AdmissionTypeOK
<1>4. /\ AdmissionTypeOK'
      /\ \A l \in Lock : l # LockOf("second", Me) => holder'[l] = holder[l]
  BY <1>2, <1>3 DEF AdmissionTypeOK
<1>5. Fitting(c)' /\ ~InSecond(c)'
  BY DEF Fitting, InSecond, InLogin, Reverified, LoginKind
<1>6. LoginHeld(c)'
  <2>1. LockOf("login", Me) # LockOf("second", Me) /\ LockOf("login", Me) \in Lock
    BY LocksTyped DEF LockOf
  <2>2. holder'[LockOf("login", Me)] = c
    BY <1>1, <1>4, <2>1 DEF LoginHeld
  <2>3. failures[<<"login", Me>>] < FailureLimit
    BY <1>1 DEF LoginHeld, Within
  <2>4. failures'[<<"login", Me>>] <= failures[<<"login", Me>>]
    BY <1>2, LocksTyped
  <2>5. /\ failures'[<<"login", Me>>] \in Nat /\ failures[<<"login", Me>>] \in Nat
        /\ FailureLimit \in Nat
    BY <1>2, LocksTyped
  <2> QED  BY <2>2, <2>3, <2>4, <2>5 DEF LoginHeld, Within
<1>7. StripesKept(c)' /\ \A l \in Lock : holder'[l] \in {holder[l], c, Nobody}
  <2>1. holder'[LockOf("second", Me)] = Nobody /\ StripesKept(c) /\ InLogin(c)'
    BY <1>3, LocksTyped DEF LocksInv, InLogin
  <2>2. ASSUME NEW l \in Lock
        PROVE  /\ holder'[l] \in {holder[l], c, Nobody}
               /\ holder'[l] = c => holder[l] = c /\ l # LockOf("second", Me)
    BY <1>4, <2>1, LocksTyped
  <2> QED  BY <2>1, <2>2 DEF StripesKept, LockOf
<1> QED  BY <1>1, <1>2, <1>4, <1>5, <1>6, <1>7 DEF Orderly, SecondHeld


LEMMA LoginOrderly ==
  ASSUME TypeOK, LocksInv, NEW c \in Client, LoginStep(c) \/ StartLogin(c)
  PROVE  Moves(c) /\ Orderly(c)
<1> USE DEF At
<1>1. Fitting(c) /\ LoginHeld(c) /\ SecondHeld(c) /\ thread[c].who \in Subject
  BY ThreadFields DEF LocksInv
<1>2. "login" \in Family /\ "second" \in Family
  BY DEF Family
<1>3. CASE StartLogin(c)
  <2>1. PICK op \in LoginKind, s \in Subject :
          Becomes(c, "login", op, s, thread[c].copy, thread[c].passed, thread[c].jti)
    BY <1>3, LoginTurns
  <2>2. ~InLogin(c)' /\ ~InSecond(c)' /\ Fitting(c)'
    BY <2>1 DEF Becomes, InLogin, InSecond, Fitting, LoginKind, Reverified
  <2>3. ~InLogin(c) /\ ~InSecond(c)
    BY <1>3 DEF StartLogin, InLogin, InSecond
  <2> QED  BY <1>3, <2>1, <2>2, <2>3, WalksOrderly DEF Becomes, StartLogin
<1>4. CASE EnterLogin(c)
  BY <1>4, EnterLoginOrderly
<1>5. CASE ReadAccount(c)
  <2>1. Becomes(c, "hash", thread[c].op, thread[c].who, row, thread[c].passed, thread[c].jti)
    BY <1>5, LoginTurns
  <2>2. thread[c].pc = "read" /\ thread[c].op \in LoginKind
    BY <1>5 DEF ReadAccount
  <2>3. /\ InLogin(c) /\ InLogin(c)' /\ ~InSecond(c) /\ ~InSecond(c)'
        /\ Fitting(c)' /\ thread'[c].who = thread[c].who
    BY <1>1, <2>1, <2>2 DEF Becomes, InLogin, InSecond, Fitting, LoginKind, Reverified
  <2> QED  BY <1>5, <2>1, <2>3, WalksOrderly DEF Becomes, ReadAccount
<1>6. CASE WrongPassword(c)
  <2>1. InLogin(c)
    BY <1>1, <1>6 DEF WrongPassword, Fitting, InLogin
  <2> QED  BY <1>1, <1>2, <1>6, <2>1, FailOrderly DEF WrongPassword, LoginHeld, Ends, Becomes
<1>7. CASE PasswordVerified(c)
  <2>1. PICK pc \in {"second", "issue"} :
          Becomes(c, pc, thread[c].op, thread[c].who, Clean, thread[c].passed, thread[c].jti)
    BY <1>7, LoginTurns
  <2>2. /\ thread[c].pc = "hash" /\ thread[c].who = Me
        /\ thread[c].op \in LoginKind /\ thread[c].op # "passkeyBegin"
    BY <1>1, <1>7 DEF PasswordVerified, RightPassword, Fitting
  <2>3. /\ InLogin(c) /\ InLogin(c)' /\ ~InSecond(c) /\ ~InSecond(c)'
        /\ Fitting(c)' /\ thread'[c].who = thread[c].who
    BY <2>1, <2>2 DEF Becomes, InLogin, InSecond, Fitting, LoginKind, Reverified
  <2> QED  BY <1>7, <2>1, <2>3, WalksOrderly DEF Becomes, PasswordVerified
<1>8. CASE EnterSecond(c)
  BY <1>8, EnterSecondOrderly
<1>9. CASE AskSecondFactor(c)
  BY <1>9, GiveUpOrderly DEF AskSecondFactor, Ends, Becomes
<1>10. CASE WrongCode(c)
  <2>1. InSecond(c) /\ thread[c].who = Me
    BY <1>1, <1>10 DEF WrongCode, Fitting, InSecond
  <2> QED  BY <1>1, <1>2, <1>10, <2>1, FailOrderly DEF WrongCode, SecondHeld, Ends, Becomes
<1>11. CASE RightCode(c)
  <2>1. Becomes(c, "issue", thread[c].op, thread[c].who, thread[c].copy, TRUE, thread[c].jti)
    BY <1>11, LoginTurns
  <2>2. thread[c].pc = "factor" /\ Clear("second", Me) /\ Release("second", Me)
    BY <1>11 DEF RightCode
  <2>3. InSecond(c) /\ InLogin(c) /\ thread[c].who = Me
    BY <1>1, <2>2 DEF Fitting, InSecond, InLogin
  <2> QED  BY <2>1, <2>2, <2>3, PassOrderly DEF Becomes
<1>12. CASE Mint(c)
  <2>1. GoesTo(c, "minted")
    BY <1>12, LoginTurns
  <2>2. thread[c].pc = "issue"
    BY <1>12 DEF Mint
  <2>3. /\ InLogin(c) /\ InLogin(c)' /\ ~InSecond(c) /\ ~InSecond(c)'
        /\ Fitting(c)' /\ thread'[c].who = thread[c].who
    BY <1>1, <2>1, <2>2 DEF GoesTo, Becomes, InLogin, InSecond, Fitting, LoginKind, Reverified
  <2> QED  BY <1>12, <2>1, <2>3, WalksOrderly DEF GoesTo, Becomes, Mint
<1>13. CASE Issue(c)
  <2>1. Ends(c) /\ ReleaseAll(c)
    BY <1>13, IssueTurns DEF Issue
  <2>2. InLogin(c) /\ thread[c].who = Me
    BY <1>1, <1>13 DEF Issue, Fitting, InLogin
  <2>3. /\ failures' \in [Counter -> Nat]
        /\ \A f \in Family, s \in Subject :
             \/ failures'[<<f, s>>] <= failures[<<f, s>>]
             \/ failures'[<<f, s>>] <= FailureLimit /\ holder[LockOf(f, s)] = c
    <3>1. CASE Clear("login", Me)
      BY <1>1, <1>2, <2>2, <3>1, ClearTyped
    <3>2. CASE Record("login", Me)
      BY <1>1, <1>2, <2>2, <3>2, RecordUnderLock DEF LoginHeld
    <3> QED  BY <1>13, <3>1, <3>2 DEF Issue
  <2> QED  BY <2>1, <2>3, EndsOrderly DEF Ends, Becomes
<1> QED  BY <1>3, <1>4, <1>5, <1>6, <1>7, <1>8, <1>9, <1>10, <1>11, <1>12, <1>13 DEF LoginStep

LEMMA CeremonyOrderly ==
  ASSUME TypeOK, LocksInv, NEW c \in Client, CeremonyStep(c)
  PROVE  Moves(c) /\ Orderly(c)
<1> USE DEF At
<1>1. Fitting(c) /\ LoginHeld(c) /\ SecondHeld(c) /\ thread[c].who \in Subject
  BY ThreadFields DEF LocksInv
<1>2. "login" \in Family /\ "second" \in Family
  BY DEF Family
<1>3. CASE BeginPasskeyLogin(c)
  BY <1>3, GiveUpOrderly DEF BeginPasskeyLogin, Ends, Becomes
<1>4. ASSUME thread[c].pc \in {"consume", "assert"},
             IF thread[c].op = "passkeyComplete" THEN Fail(c, "second") ELSE GiveUp(c)
      PROVE  Moves(c) /\ Orderly(c)
  <2>1. CASE thread[c].op = "passkeyComplete"
    <3>1. InSecond(c) /\ thread[c].who = Me
      BY <1>1, <1>4, <2>1 DEF Fitting, InSecond, LoginKind
    <3> QED  BY <1>1, <1>2, <1>4, <2>1, <3>1, FailOrderly DEF SecondHeld, Ends, Becomes
  <2>2. CASE thread[c].op # "passkeyComplete"
    BY <1>4, <2>2, GiveUpOrderly DEF Ends, Becomes
  <2> QED  BY <2>1, <2>2
<1>5. CASE BadCeremony(c)
  BY <1>4, <1>5 DEF BadCeremony
<1>6. CASE Consume(c)
  <2>1. PICK j \in Challenge :
          Becomes(c, "assert", thread[c].op, thread[c].who, thread[c].copy,
                  thread[c].passed, j)
    BY <1>6, CeremonyTurns
  <2>2. thread[c].pc = "consume"
    BY <1>6 DEF Consume
  <2>3. /\ InLogin(c)' <=> InLogin(c)
        /\ InSecond(c)' <=> InSecond(c)
        /\ Fitting(c)' /\ thread'[c].who = thread[c].who
    BY <1>1, <2>1, <2>2 DEF Becomes, InLogin, InSecond, Fitting, LoginKind, Reverified
  <2> QED  BY <1>6, <2>1, <2>3, WalksOrderly DEF Becomes, Consume
<1>7. CASE RollBack(c)
  BY <1>4, <1>7 DEF RollBack
<1>8. CASE PasskeyVerified(c)
  <2>1. Becomes(c, "issue", thread[c].op, thread[c].who, thread[c].copy, TRUE, Nobody)
    BY <1>8, CeremonyTurns
  <2>2. /\ thread[c].pc = "assert" /\ thread[c].op = "passkeyComplete"
        /\ Clear("second", Me) /\ Release("second", Me)
    BY <1>8 DEF PasskeyVerified
  <2>3. InSecond(c) /\ InLogin(c) /\ thread[c].who = Me
    BY <1>1, <2>2 DEF Fitting, InSecond, InLogin, LoginKind
  <2> QED  BY <2>1, <2>2, <2>3, PassOrderly DEF Becomes
<1>9. CASE Register(c)
  <2>1. Ends(c) /\ UNCHANGED admissionVars
    BY <1>9, EndTurns DEF Register
  <2>2. ~InLogin(c)' /\ ~InSecond(c)' /\ Fitting(c)'
    BY <2>1 DEF Ends, Becomes, InLogin, InSecond, Fitting, LoginKind, Reverified
  <2>3. ~InLogin(c) /\ ~InSecond(c)
    BY <1>9 DEF Register, InLogin, InSecond, LoginKind, Reverified
  <2> QED  BY <2>1, <2>2, <2>3, WalksOrderly DEF Ends, Becomes
<1> QED  BY <1>3, <1>5, <1>6, <1>7, <1>8, <1>9 DEF CeremonyStep

LEMMA SelfOrderly ==
  ASSUME TypeOK, LocksInv, NEW c \in Client, SelfStep(c) \/ StartSelf(c)
  PROVE  Moves(c) /\ Orderly(c)
<1> USE DEF At
<1>1. Fitting(c) /\ LoginHeld(c) /\ SecondHeld(c) /\ thread[c].who \in Subject
  BY ThreadFields DEF LocksInv
<1>2. "second" \in Family
  BY DEF Family
<1>3. CASE StartSelf(c)
  <2>1. PICK op \in SelfKind, pc \in {"second", "consume", "read"} :
          /\ Becomes(c, pc, op, thread[c].who, thread[c].copy,
                     thread[c].passed, thread[c].jti)
          /\ pc = "second" <=> op \in Reverified
          /\ pc = "consume" <=> op = "registerComplete"
    BY <1>3, SelfTurns
  <2>2. thread[c].who = Me
    BY <1>1, <1>3 DEF StartSelf, Fitting
  <2>3. ~InLogin(c)' /\ ~InSecond(c)' /\ Fitting(c)'
    BY <2>1, <2>2 DEF Becomes, InLogin, InSecond, Fitting, LoginKind, Reverified,
       SelfKind, TotpKind, PasskeyKind
  <2>4. ~InLogin(c) /\ ~InSecond(c)
    BY <1>3 DEF StartSelf, InLogin, InSecond
  <2> QED  BY <1>3, <2>1, <2>3, <2>4, WalksOrderly DEF Becomes, StartSelf
<1>4. CASE VerifyFails(c)
  <2>1. InSecond(c) /\ thread[c].who = Me
    BY <1>1, <1>4 DEF VerifyFails, Fitting, InSecond, LoginKind, Reverified
  <2> QED  BY <1>1, <1>2, <1>4, <2>1, FailOrderly DEF VerifyFails, SecondHeld, Ends, Becomes
<1>5. CASE Decline(c)
  BY <1>5, GiveUpOrderly DEF Decline, Ends, Becomes
<1>6. CASE ReadAndVerify(c)
  <2>1. PICK pc \in {"commit", "stamp"} :
          Becomes(c, pc, thread[c].op, thread[c].who, row, thread[c].passed, thread[c].jti)
    BY <1>6, SelfTurns
  <2>2. thread[c].pc = "read" /\ thread[c].op \notin LoginKind
    BY <1>6 DEF ReadAndVerify
  <2>3. thread[c].op \in SelfKind
    BY <1>1, <2>2, ThreadFields DEF Fitting
  <2>4. /\ ~InLogin(c)' /\ ~InLogin(c)
        /\ InSecond(c)' <=> InSecond(c)
        /\ Fitting(c)'
    BY <1>1, <2>1, <2>2, <2>3 DEF Becomes, InLogin, InSecond, Fitting, LoginKind, Reverified
  <2> QED  BY <1>6, <2>1, <2>4, WalksOrderly DEF Becomes, ReadAndVerify
<1>7. CASE Stamp(c)
  <2>1. GoesTo(c, "commit")
    BY <1>7, SelfTurns
  <2>2. thread[c].pc = "stamp"
    BY <1>7 DEF Stamp
  <2>3. /\ InLogin(c)' <=> InLogin(c)
        /\ InSecond(c)' <=> InSecond(c)
        /\ Fitting(c)' /\ thread'[c].who = thread[c].who
    BY <1>1, <2>1, <2>2 DEF GoesTo, Becomes, InLogin, InSecond, Fitting, LoginKind, Reverified
  <2> QED  BY <1>7, <2>1, <2>3, WalksOrderly DEF GoesTo, Becomes, Stamp
<1>8. CASE Commit(c)
  <2>1. Ends(c) /\ ReleaseAll(c)
    BY <1>8, EndTurns DEF Commit
  <2>2. /\ failures' \in [Counter -> Nat]
        /\ \A f \in Family, s \in Subject : failures'[<<f, s>>] <= failures[<<f, s>>]
    <3>1. CASE Clear("second", Me)
      BY <1>2, <3>1, ClearTyped, SecurityAssumption
    <3>2. CASE UNCHANGED failures
      <4>1. failures \in [Counter -> Nat]
        BY DEF LocksInv, AdmissionTypeOK
      <4>2. ASSUME NEW f \in Family, NEW s \in Subject
            PROVE  failures'[<<f, s>>] <= failures[<<f, s>>]
        <5>1. failures[<<f, s>>] \in Nat
          BY LocksTyped
        <5> QED  BY <3>2, <5>1
      <4> QED  BY <3>2, <4>1, <4>2
    <3> QED  BY <1>8, <3>1, <3>2 DEF Commit
  <2> QED  BY <2>1, <2>2, EndsOrderly DEF Ends, Becomes
<1> QED  BY <1>3, <1>4, <1>5, <1>6, <1>7, <1>8 DEF SelfStep


-----------------------------------------------------------------------------
(* Types of the account *)

AccountTypeOK ==
  /\ row \in Row /\ keys \subseteq Passkey
  /\ challenge \in [Challenge -> ChallengeState] /\ uses \in [Challenge -> Nat]
  /\ session \in [Session -> {"free", "minted", "live"}] /\ dead \subseteq Session
  /\ admin \in AdminOp

LEMMA RowUpdated ==
  ASSUME NEW r \in Row, NEW totp \in BOOLEAN, NEW secret \in BOOLEAN, NEW pending \in BOOLEAN
  PROVE  /\ [r EXCEPT !.secret = secret, !.pending = pending, !.totp = totp] \in Row
         /\ [r EXCEPT !.totp = totp, !.secret = secret, !.pending = pending] \in Row
         /\ [r EXCEPT !.must = pending] \in Row
         /\ [r EXCEPT !.pending = pending] \in Row
         /\ [r EXCEPT !.active = pending] \in Row
BY DEF Row

LEMMA WrittenTyped ==
  ASSUME NEW op, NEW copy \in Row, row \in Row
  PROVE  Written(op, copy) \in Row
<1>1. /\ copy.totp \in BOOLEAN /\ copy.pending \in BOOLEAN /\ copy.must \in BOOLEAN
      /\ row.totp \in BOOLEAN /\ row.pending \in BOOLEAN /\ row.must \in BOOLEAN
  BY DEF Row
<1>2. CASE op = "change"
  <2>1. Written(op, copy) = [row EXCEPT !.must = Dirty(copy.must, FALSE, row.must)]
    BY <1>2 DEF Written
  <2>2. Dirty(copy.must, FALSE, row.must) \in BOOLEAN
    BY <1>1 DEF Dirty
  <2> QED  BY <2>1, <2>2, RowUpdated
<1>3. CASE op = "begin"
  <2>1. Written(op, copy) = [row EXCEPT !.pending = TRUE]
    BY <1>3 DEF Written
  <2> QED  BY <2>1, RowUpdated
<1>4. CASE op = "confirm"
  <2>1. Written(op, copy) = [row EXCEPT !.secret = TRUE, !.pending = FALSE,
                                        !.totp = Dirty(copy.totp, TRUE, row.totp)]
    BY <1>4 DEF Written, Confirmed
  <2>2. Dirty(copy.totp, TRUE, row.totp) \in BOOLEAN
    BY <1>1 DEF Dirty
  <2> QED  BY <2>1, <2>2, RowUpdated, ZenonT(40)
<1>5. CASE op = "disable"
  <2>1. Written(op, copy) = [row EXCEPT !.secret = FALSE,
                               !.pending = Dirty(copy.pending, FALSE, row.pending),
                               !.totp = Dirty(copy.totp, FALSE, row.totp)]
    BY <1>5 DEF Written
  <2>2. /\ Dirty(copy.pending, FALSE, row.pending) \in BOOLEAN
        /\ Dirty(copy.totp, FALSE, row.totp) \in BOOLEAN
    BY <1>1 DEF Dirty
  <2> QED  BY <2>1, <2>2, RowUpdated
<1>6. CASE op \notin {"change", "begin", "confirm", "disable"}
  BY <1>6 DEF Written
<1> QED  BY <1>2, <1>3, <1>4, <1>5, <1>6

LEMMA LoginAccount ==
  ASSUME TypeOK, NEW c \in Client, LoginStep(c) \/ StartLogin(c) \/ StartSelf(c)
  PROVE  AccountTypeOK' /\ UNCHANGED <<row, keys, challenge, uses>>
<1>1. AccountTypeOK
  BY DEF TypeOK, AccountTypeOK
<1>2. CASE UNCHANGED <<accountVars, admin>>
  BY <1>1, <1>2 DEF AccountTypeOK, accountVars
<1>3. CASE Mint(c)
  BY <1>1, <1>3 DEF Mint, AccountTypeOK
<1>4. CASE Issue(c)
  <2>1. session' \in [Session -> {"free", "minted", "live"}]
    BY <1>1, <1>4 DEF Issue, AccountTypeOK
  <2>2. dead' \subseteq Session /\ admin' \in AdminOp
    <3>1. CASE UNCHANGED <<dead, admin>>
      BY <1>1, <3>1 DEF AccountTypeOK
    <3>2. CASE Forgotten({thread[c].sid})
      BY <1>1, <3>2 DEF AccountTypeOK, Forgotten, AdminOp
    <3> QED  BY <1>4, <3>1, <3>2 DEF Issue
  <2> QED  BY <1>1, <1>4, <2>1, <2>2 DEF Issue, AccountTypeOK
<1> QED  BY <1>2, <1>3, <1>4
         DEF LoginStep, StartLogin, StartSelf, EnterLogin, ReadAccount, WrongPassword,
             PasswordVerified, EnterSecond, AskSecondFactor, WrongCode, RightCode

LEMMA CeremonyAccount ==
  ASSUME TypeOK, ChallengeInv, NEW c \in Client, CeremonyStep(c)
  PROVE  AccountTypeOK' /\ UNCHANGED <<row, session, admin>>
<1>1. AccountTypeOK /\ thread[c].covers \subseteq Session
  BY ThreadFields DEF TypeOK, AccountTypeOK
<1>2. CASE BeginPasskeyLogin(c)
  BY <1>1, <1>2 DEF BeginPasskeyLogin, IssueFor, AccountTypeOK, ChallengeState
<1>3. CASE BadCeremony(c)
  BY <1>1, <1>3 DEF BadCeremony, AccountTypeOK, accountVars
<1>4. CASE Consume(c)
  BY <1>1, <1>4 DEF Consume, AccountTypeOK, ChallengeState
<1>5. CASE RollBack(c)
  BY <1>1, <1>5 DEF RollBack, AccountTypeOK, ChallengeState, Purpose
<1>6. ASSUME thread[c].pc = "assert", Used(thread[c].jti)
      PROVE  challenge' \in [Challenge -> ChallengeState] /\ uses' \in [Challenge -> Nat]
  <2>1. thread[c].jti \in Challenge
    BY <1>6 DEF ChallengeInv
  <2> QED  BY <1>1, <1>6, <2>1 DEF Used, AccountTypeOK, ChallengeState
<1>7. CASE PasskeyVerified(c)
  BY <1>1, <1>6, <1>7 DEF PasskeyVerified, At, AccountTypeOK
<1>8. CASE Register(c)
  BY <1>1, <1>6, <1>8 DEF Register, At, AccountTypeOK
<1> QED  BY <1>2, <1>3, <1>4, <1>5, <1>7, <1>8 DEF CeremonyStep

LEMMA SelfAccount ==
  ASSUME TypeOK, NEW c \in Client, SelfStep(c)
  PROVE  AccountTypeOK' /\ UNCHANGED <<challenge, uses, session, admin>>
<1>1. AccountTypeOK /\ thread[c].covers \subseteq Session /\ thread[c].copy \in Row
  BY ThreadFields DEF TypeOK, AccountTypeOK
<1>2. CASE UNCHANGED <<accountVars, admin>>
  BY <1>1, <1>2 DEF AccountTypeOK, accountVars
<1>3. CASE Commit(c)
  <2>1. row' \in Row
    BY <1>1, <1>3, WrittenTyped DEF Commit, AccountTypeOK
  <2>2. keys' \subseteq Passkey /\ dead' \subseteq Session
    BY <1>1, <1>3 DEF Commit, AccountTypeOK
  <2> QED  BY <1>1, <1>3, <2>1, <2>2 DEF Commit, AccountTypeOK
<1> QED  BY <1>2, <1>3 DEF SelfStep, VerifyFails, Decline, ReadAndVerify, Stamp


\* Nobody's request moves with the rest of the world.
LEMMA WorldMoves ==
  ASSUME TypeOK, Environment
  PROVE  /\ AccountTypeOK' /\ thread' \in [Client -> Thread]
         /\ \A d \in Client : Same(d)
         /\ UNCHANGED admissionVars \/ Forget
<1>1. AccountTypeOK /\ thread \in [Client -> Thread]
  BY DEF TypeOK, AccountTypeOK
<1>2. CASE BeginRegistration
  BY <1>1, <1>2 DEF BeginRegistration, IssueFor, AccountTypeOK, ChallengeState, Same
<1>3. CASE StartAdmin
  <2>1. PICK k \in AdminKind : admin' = [kind |-> k, covers |-> Started]
    BY <1>3 DEF StartAdmin
  <2>2. admin' \in AdminOp
    BY <2>1, SecurityAssumption DEF AdminOp, Started
  <2> QED  BY <1>1, <1>3, <2>2 DEF StartAdmin, AccountTypeOK, accountVars, Same
<1>4. CASE AdminEnds
  <2>1. admin' \in AdminOp /\ admin.covers \subseteq Session
    BY <1>1, <1>4 DEF AdminEnds, NoAdmin, AdminOp, AccountTypeOK
  <2>2. row' \in Row /\ dead' \subseteq Session
    <3>1. CASE ResetPassword
      BY <1>1, <2>1, <3>1, RowUpdated DEF ResetPassword, AccountTypeOK
    <3>2. CASE DisableTotp
      BY <1>1, <2>1, <3>2, RowUpdated DEF DisableTotp, AccountTypeOK
    <3>3. CASE SetActive
      <4>1. row.active \in BOOLEAN /\ row' = [row EXCEPT !.active = ~row.active]
        BY <1>1, <3>3 DEF SetActive, AccountTypeOK, Row
      <4> QED  BY <1>1, <3>3, <4>1 DEF SetActive, AccountTypeOK, Row
    <3>4. CASE UNCHANGED <<row, dead>>
      BY <1>1, <3>4 DEF AccountTypeOK
    <3> QED  BY <1>4, <3>1, <3>2, <3>3, <3>4 DEF AdminEnds
  <2> QED  BY <1>1, <1>4, <2>1, <2>2 DEF AdminEnds, AccountTypeOK, Same
<1>5. CASE ExpireSession
  <2>1. PICK s \in Session :
          /\ session' = [session EXCEPT ![s] = "free"]
          /\ thread' = WithoutSessions(thread, {s})
          /\ Forgotten({s})
    BY <1>5 DEF ExpireSession
  <2>2. session' \in [Session -> {"free", "minted", "live"}] /\ dead' \subseteq Session
        /\ admin' \in AdminOp
    BY <1>1, <2>1 DEF AccountTypeOK, Forgotten, AdminOp
  <2>3. thread' \in [Client -> Thread] /\ \A d \in Client : Same(d)
    BY <1>1, <2>1, Forgetting DEF Same
  <2> QED  BY <1>1, <1>5, <2>2, <2>3 DEF ExpireSession, AccountTypeOK
<1>6. CASE ExpireChallenge
  BY <1>1, <1>6 DEF ExpireChallenge, AccountTypeOK, ChallengeState, Same
<1>7. CASE FailuresPass
  BY <1>1, <1>7 DEF FailuresPass, AccountTypeOK, accountVars, Same
<1> QED  BY <1>2, <1>3, <1>4, <1>5, <1>6, <1>7
         DEF Environment, BeginRegistration, StartAdmin, AdminEnds, ExpireSession,
             ExpireChallenge, FailuresPass

LEMMA FollowTyped ==
  ASSUME TypeOK, Follow
  PROVE  /\ owes' \in [Client -> SUBSET {"totp", "passkey"}]
         /\ \A d \in Client :
              /\ owes'[d] \subseteq (IF row'.totp THEN {"totp"} ELSE {})
                                      \cup (IF keys' # {} THEN {"passkey"} ELSE {})
              /\ thread'[d].pc = "idle" \/ owes'[d] \subseteq owes[d]
BY DEF TypeOK, Follow

-----------------------------------------------------------------------------
(* The columns of TOTP *)

\* A step that does not turn TOTP on, or does so under the stripe of Me.
LEMMA RowKept ==
  ASSUME LocksInv, RowInv, NEW c \in Client, Moves(c),
         row'.totp => row'.secret,
         (row'.totp => row.totp) \/ InSecond(c),
         thread'[c].op = "disable" /\ thread'[c].pc \in {"stamp", "commit"} =>
           (row'.totp => thread'[c].copy.totp)
  PROVE  RowInv'
<1>1. ASSUME NEW d \in Client, thread'[d].op = "disable", thread'[d].pc \in {"stamp", "commit"},
             row'.totp
      PROVE  thread'[d].copy.totp
  <2>1. CASE d = c
    BY <1>1, <2>1
  <2>2. CASE d # c
    <3>1. thread[d].op = "disable" /\ thread[d].pc \in {"stamp", "commit"}
          /\ thread'[d].copy = thread[d].copy
      BY <1>1, <2>2 DEF Moves, Same
    <3>2. InSecond(d)
      BY <3>1 DEF InSecond, Reverified
    <3>3. ~InSecond(c)
      BY <2>2, <3>2 DEF LocksInv, SecondHeld
    <3> QED  BY <1>1, <3>1, <3>3 DEF RowInv, DisableKnows
  <2> QED  BY <2>1, <2>2
<1> QED  BY <1>1 DEF RowInv, DisableKnows, EnabledHasSecret

LEMMA CommitRow ==
  ASSUME TypeOK, LocksInv, RowInv, NEW c \in Client, Commit(c)
  PROVE  RowInv'
<1> DEFINE op == thread[c].op
           copy == thread[c].copy
<1>1. Ends(c) /\ row' = Written(op, copy) /\ thread[c].pc = "commit"
  BY EndTurns DEF Commit, At
<1>2. /\ row \in Row /\ row.totp \in BOOLEAN /\ copy.totp \in BOOLEAN
      /\ row.totp => row.secret
  BY ThreadFields DEF TypeOK, Row, RowInv, EnabledHasSecret
<1>3. CASE op = "confirm"
  <2>1. row' = [row EXCEPT !.secret = TRUE, !.pending = FALSE,
                           !.totp = Dirty(copy.totp, TRUE, row.totp)]
    BY <1>1, <1>3 DEF Written, Confirmed
  <2>2. row'.secret = TRUE
    BY <1>2, <2>1 DEF Row
  <2>3. InSecond(c)
    BY <1>1, <1>3 DEF InSecond, Reverified
  <2> QED  BY <1>1, <2>2, <2>3, RowKept DEF Ends, Becomes
<1>4. CASE op = "disable"
  <2>1. row' = [row EXCEPT !.secret = FALSE,
                  !.pending = Dirty(copy.pending, FALSE, row.pending),
                  !.totp = Dirty(copy.totp, FALSE, row.totp)]
    BY <1>1, <1>4 DEF Written
  <2>2. row'.totp = Dirty(copy.totp, FALSE, row.totp)
    BY <1>2, <2>1 DEF Row
  <2>3. row.totp => copy.totp
    BY <1>1, <1>4 DEF RowInv, DisableKnows
  <2>4. row'.totp = FALSE
    BY <1>2, <2>2, <2>3 DEF Dirty
  <2> QED  BY <1>1, <2>4, RowKept DEF Ends, Becomes
<1>5. CASE op \notin {"confirm", "disable"}
  <2>1. row'.totp = row.totp /\ row'.secret = row.secret
    <3>1. CASE op = "change"
      BY <1>1, <1>2, <3>1 DEF Written, Row
    <3>2. CASE op = "begin"
      BY <1>1, <1>2, <3>2 DEF Written, Row
    <3>3. CASE op \notin {"change", "begin"}
      BY <1>1, <1>5, <3>3 DEF Written
    <3> QED  BY <3>1, <3>2, <3>3
  <2> QED  BY <1>1, <1>2, <2>1, RowKept DEF Ends, Becomes
<1> QED  BY <1>3, <1>4, <1>5


-----------------------------------------------------------------------------
(* One step of a request *)

RequestStep(c) ==
  LoginStep(c) \/ CeremonyStep(c) \/ SelfStep(c) \/ StartLogin(c) \/ StartSelf(c)

\* Where nothing is known yet of the account, or nothing any more.
Quiet == {"idle", "login", "read", "factor", "consume", "second"}

LEMMA Places ==
  ASSUME TypeOK, LocksInv, NEW c \in Client, RequestStep(c)
  PROVE  \/ thread'[c].pc \in Quiet
         \/ ReadAccount(c) \/ PasswordVerified(c) \/ RightCode(c) \/ Mint(c)
         \/ Consume(c) \/ PasskeyVerified(c) \/ ReadAndVerify(c) \/ Stamp(c)
<1> USE DEF Quiet
<1>1. CASE Ends(c)
  BY <1>1 DEF Ends, Becomes
<1>2. CASE StartLogin(c)
  BY <1>2, LoginTurns DEF Becomes
<1>3. CASE StartSelf(c)
  <2>1. \E op \in SelfKind, pc \in {"second", "consume", "read"} :
          Becomes(c, pc, op, thread[c].who, thread[c].copy, thread[c].passed, thread[c].jti)
    BY <1>3, SelfTurns
  <2> QED  BY <2>1 DEF Becomes
<1>4. CASE EnterLogin(c)
  BY <1>1, <1>4, GotoTurns, EndTurns DEF EnterLogin, GoesTo, Becomes
<1>5. CASE EnterSecond(c)
  <2>1. Ends(c) \/ \E pc \in {"read", "factor", "consume"} : GoesTo(c, pc)
    BY <1>5, EnterSecondOrderly
  <2> QED  BY <1>1, <2>1 DEF GoesTo, Becomes
<1>6. CASE \/ WrongPassword(c) \/ AskSecondFactor(c) \/ WrongCode(c) \/ BeginPasskeyLogin(c)
           \/ BadCeremony(c) \/ RollBack(c) \/ Register(c)
           \/ VerifyFails(c) \/ Decline(c) \/ Commit(c)
  <2>1. End(c)
    BY <1>6 DEF WrongPassword, AskSecondFactor, WrongCode, BeginPasskeyLogin, BadCeremony,
       RollBack, Register, VerifyFails, Decline, Commit, Fail, GiveUp
  <2> QED  BY <1>1, <2>1, EndTurns
<1>7. CASE Issue(c)
  BY <1>1, <1>7, IssueTurns
<1> QED  BY <1>2, <1>3, <1>4, <1>5, <1>6, <1>7 DEF RequestStep, LoginStep, CeremonyStep, SelfStep

LEMMA RequestOrderly ==
  ASSUME TypeOK, LocksInv, NEW c \in Client, RequestStep(c)
  PROVE  Moves(c) /\ LocksInv'
<1>1. Moves(c) /\ Orderly(c)
  BY LoginOrderly, CeremonyOrderly, SelfOrderly DEF RequestStep
<1> QED  BY <1>1, OrderlyKept

LEMMA RequestTyped ==
  ASSUME TypeOK, LocksInv, ChallengeInv, NEW c \in Client, RequestStep(c)
  PROVE  AccountTypeOK'
BY LoginAccount, CeremonyAccount, SelfAccount DEF RequestStep

LEMMA RequestRow ==
  ASSUME TypeOK, LocksInv, RowInv, ChallengeInv, NEW c \in Client, RequestStep(c)
  PROVE  RowInv'
<1>1. Moves(c)
  BY RequestOrderly
<1>2. CASE Commit(c)
  BY <1>2, CommitRow
<1>3. CASE UNCHANGED row
  <2>1. ASSUME thread'[c].op = "disable", thread'[c].pc \in {"stamp", "commit"}, row'.totp
        PROVE  thread'[c].copy.totp
    <3>1. CASE thread'[c].pc \in Quiet
      BY <2>1, <3>1 DEF Quiet
    <3>2. CASE ReadAccount(c) \/ PasswordVerified(c) \/ RightCode(c) \/ Mint(c)
      <4>1. thread'[c].pc \in {"hash", "second", "issue", "minted"}
        BY <3>2, LoginTurns DEF GoesTo, Becomes
      <4> QED  BY <2>1, <4>1
    <3>3. CASE Consume(c) \/ PasskeyVerified(c)
      <4>1. thread'[c].pc \in {"assert", "issue"}
        BY <3>3, CeremonyTurns DEF Becomes
      <4> QED  BY <2>1, <4>1
    <3>4. CASE ReadAndVerify(c)
      <4>1. thread'[c].copy = row
        BY <3>4, SelfTurns DEF Becomes
      <4> QED  BY <1>3, <2>1, <4>1
    <3>5. CASE Stamp(c)
      <4>1. GoesTo(c, "commit") /\ thread[c].pc = "stamp"
        BY <3>5, SelfTurns DEF Stamp, At
      <4> QED  BY <1>3, <2>1, <4>1 DEF GoesTo, Becomes, RowInv, DisableKnows
    <3> QED  BY <3>1, <3>2, <3>3, <3>4, <3>5, Places
  <2> QED  BY <1>1, <1>3, <2>1, RowKept DEF RowInv, EnabledHasSecret
<1>4. Commit(c) \/ UNCHANGED row
  <2>1. CASE LoginStep(c) \/ StartLogin(c) \/ StartSelf(c)
    BY <2>1, LoginAccount
  <2>2. CASE CeremonyStep(c)
    BY <2>2, CeremonyAccount
  <2>3. CASE SelfStep(c)
    BY <2>3 DEF SelfStep, VerifyFails, Decline, ReadAndVerify, Stamp, accountVars
  <2> QED  BY <2>1, <2>2, <2>3 DEF RequestStep
<1> QED  BY <1>2, <1>3, <1>4

\* An administrator only turns TOTP off.
LEMMA WorldRow ==
  ASSUME TypeOK, RowInv, Environment
  PROVE  RowInv'
<1>1. \A d \in Client : Same(d)
  BY WorldMoves
<1>2. (row'.totp => row.totp) /\ (row'.totp => row'.secret)
  <2>1. row \in Row /\ (row.totp => row.secret)
    BY DEF TypeOK, RowInv, EnabledHasSecret
  <2>2. CASE UNCHANGED row
    BY <2>1, <2>2
  <2>3. CASE ResetPassword
    BY <2>1, <2>3 DEF ResetPassword, Row
  <2>4. CASE DisableTotp
    BY <2>1, <2>4 DEF DisableTotp, Row
  <2>5. CASE SetActive
    BY <2>1, <2>5 DEF SetActive, Row
  <2> QED  BY <2>2, <2>3, <2>4, <2>5
           DEF Environment, BeginRegistration, StartAdmin, AdminEnds, ExpireSession,
               ExpireChallenge, FailuresPass, accountVars
<1> QED  BY <1>1, <1>2 DEF RowInv, DisableKnows, EnabledHasSecret, Same


-----------------------------------------------------------------------------
(* Challenges *)

\* Challenges change only between their free states: those in use are left alone.
LEMMA FreeChallenges ==
  ASSUME ChallengeInv, \A d \in Client : thread'[d].pc = "assert" =>
           thread[d].pc = "assert" /\ thread'[d].jti = thread[d].jti,
         \A j \in Challenge : challenge[j] = "taken" => challenge'[j] = "taken",
         \A j \in Challenge : uses'[j] \in {0, 1} /\ (challenge'[j] # "gone" => uses'[j] = 0)
  PROVE  ChallengeInv'
BY DEF ChallengeInv

LEMMA IssueFrees ==
  ASSUME TypeOK, ChallengeInv, NEW purpose \in {"login", "register"},
         IssueFor(purpose) \/ UNCHANGED challenge, UNCHANGED uses
  PROVE  /\ \A j \in Challenge : challenge[j] = "taken" => challenge'[j] = "taken"
         /\ \A j \in Challenge :
              uses'[j] \in {0, 1} /\ (challenge'[j] # "gone" => uses'[j] = 0)
BY DEF TypeOK, IssueFor, ChallengeInv

LEMMA ConsumeChallenge ==
  ASSUME TypeOK, ChallengeInv, NEW c \in Client, Consume(c)
  PROVE  ChallengeInv'
<1>1. PICK j \in Challenge :
        /\ Becomes(c, "assert", thread[c].op, thread[c].who, thread[c].copy,
                   thread[c].passed, j)
        /\ Live(j, Purpose(thread[c].op))
        /\ challenge' = [challenge EXCEPT ![j] = "taken"]
  BY CeremonyTurns
<1>2. challenge[j] \in {"login", "register"} /\ UNCHANGED uses
  BY <1>1 DEF Live, Purpose, Consume
<1>3. \A d \in Client : thread[d].pc = "assert" => thread[d].jti # j
  BY <1>2 DEF ChallengeInv
<1>4. challenge'[j] = "taken" /\ \A i \in Challenge \ {j} : challenge'[i] = challenge[i]
  BY <1>1 DEF TypeOK
<1>5. /\ thread'[c].pc = "assert" /\ thread'[c].jti = j
      /\ \A d \in Client \ {c} : thread'[d].pc = thread[d].pc /\ thread'[d].jti = thread[d].jti
  BY <1>1 DEF Becomes, Moves, Same
<1> QED  BY <1>2, <1>3, <1>4, <1>5 DEF ChallengeInv

\* The request that has used a challenge, or has failed to, has it no longer.
LEMMA ReturnChallenge ==
  ASSUME TypeOK, ChallengeInv, NEW c \in Client, Moves(c), thread[c].pc = "assert",
         thread'[c].pc # "assert",
         NEW to \in ChallengeState \ {"taken"},
         challenge' = [challenge EXCEPT ![thread[c].jti] = to],
         \/ to # "gone" /\ UNCHANGED uses
         \/ to = "gone" /\ uses' = [uses EXCEPT ![thread[c].jti] = @ + 1]
  PROVE  ChallengeInv'
<1> DEFINE j == thread[c].jti
<1>1. j \in Challenge /\ challenge[j] = "taken" /\ uses[j] = 0
  BY DEF ChallengeInv
<1>2. \A d \in Client \ {c} :
        thread'[d].pc = "assert" =>
          thread[d].pc = "assert" /\ thread'[d].jti = thread[d].jti /\ thread[d].jti # j
  BY DEF Moves, Same, ChallengeInv
<1>3. challenge'[j] = to /\ \A i \in Challenge \ {j} : challenge'[i] = challenge[i]
  BY <1>1 DEF TypeOK
<1>4. \A i \in Challenge \ {j} : uses'[i] = uses[i]
  BY <1>1 DEF TypeOK
<1>5. uses'[j] \in {0, 1} /\ (to # "gone" => uses'[j] = 0)
  BY <1>1 DEF TypeOK
<1> HIDE DEF j
<1> QED  BY <1>1, <1>2, <1>3, <1>4, <1>5 DEF ChallengeInv

LEMMA RequestChallenge ==
  ASSUME TypeOK, LocksInv, ChallengeInv, NEW c \in Client, RequestStep(c)
  PROVE  ChallengeInv'
<1>1. Moves(c)
  BY RequestOrderly
<1>2. CASE Consume(c)
  BY <1>2, ConsumeChallenge
<1>3. CASE RollBack(c)
  <2>1. Ends(c)
    BY <1>3, EndTurns DEF RollBack, Fail, GiveUp
  <2>2. Purpose(thread[c].op) \in ChallengeState \ {"taken"} /\ Purpose(thread[c].op) # "gone"
    BY DEF Purpose, ChallengeState
  <2>3. /\ challenge' = [challenge EXCEPT ![thread[c].jti] = Purpose(thread[c].op)]
        /\ UNCHANGED uses /\ thread[c].pc = "assert"
    BY <1>3 DEF RollBack, At
  <2>4. thread'[c].pc # "assert"
    BY <2>1 DEF Ends, Becomes
  <2> HIDE DEF Purpose
  <2> QED  BY <1>1, <2>2, <2>3, <2>4, ReturnChallenge
<1>4. CASE PasskeyVerified(c) \/ Register(c)
  <2>1. thread'[c].pc # "assert"
    BY <1>4, CeremonyTurns, EndTurns DEF Register, Ends, Becomes
  <2>2. thread[c].pc = "assert" /\ Used(thread[c].jti)
    BY <1>4 DEF PasskeyVerified, Register, At
  <2>3. /\ challenge' = [challenge EXCEPT ![thread[c].jti] = "gone"]
        /\ uses' = [uses EXCEPT ![thread[c].jti] = @ + 1]
    BY <2>2 DEF Used
  <2>4. "gone" \in ChallengeState \ {"taken"}
    BY DEF ChallengeState
  <2> QED  BY <1>1, <2>1, <2>2, <2>3, <2>4, ReturnChallenge
<1>5. CASE /\ ~Consume(c) /\ UNCHANGED uses
           /\ \E purpose \in {"login", "register"} : IssueFor(purpose) \/ UNCHANGED challenge
  <2>1. thread'[c].pc # "assert"
    <3>1. CASE thread'[c].pc \in Quiet
      BY <3>1 DEF Quiet
    <3>2. CASE ReadAccount(c) \/ PasswordVerified(c) \/ RightCode(c) \/ Mint(c)
      <4>1. thread'[c].pc \in {"hash", "second", "issue", "minted"}
        BY <3>2, LoginTurns DEF GoesTo, Becomes
      <4> QED  BY <4>1
    <3>3. CASE PasskeyVerified(c)
      BY <3>3, CeremonyTurns DEF Becomes
    <3>4. CASE ReadAndVerify(c) \/ Stamp(c)
      <4>1. thread'[c].pc \in {"stamp", "commit"}
        BY <3>4, SelfTurns DEF GoesTo, Becomes
      <4> QED  BY <4>1
    <3> QED  BY <1>5, <3>1, <3>2, <3>3, <3>4, Places
  <2>2. \A d \in Client : thread'[d].pc = "assert" =>
          thread[d].pc = "assert" /\ thread'[d].jti = thread[d].jti
    BY <1>1, <2>1 DEF Moves, Same
  <2> QED  BY <1>5, <2>2, IssueFrees, FreeChallenges
<1>6. \/ Consume(c) \/ RollBack(c) \/ PasskeyVerified(c) \/ Register(c)
      \/ /\ UNCHANGED uses
         /\ \E purpose \in {"login", "register"} : IssueFor(purpose) \/ UNCHANGED challenge
  <2>1. CASE LoginStep(c) \/ StartLogin(c) \/ StartSelf(c)
    BY <2>1, LoginAccount
  <2>2. CASE SelfStep(c)
    BY <2>2, SelfAccount
  <2>3. CASE BeginPasskeyLogin(c)
    BY <2>3 DEF BeginPasskeyLogin
  <2>4. CASE BadCeremony(c)
    BY <2>4 DEF BadCeremony, accountVars
  <2> QED  BY <2>1, <2>2, <2>3, <2>4 DEF RequestStep, CeremonyStep
<1> QED  BY <1>2, <1>3, <1>4, <1>5, <1>6

LEMMA WorldChallenge ==
  ASSUME TypeOK, ChallengeInv, Environment
  PROVE  ChallengeInv'
<1>1. \A d \in Client : thread'[d].pc = "assert" =>
        thread[d].pc = "assert" /\ thread'[d].jti = thread[d].jti
  BY WorldMoves DEF Same
<1>2. CASE ExpireChallenge
  <2>1. PICK j \in Challenge :
          /\ challenge[j] \in {"login", "register", "gone"}
          /\ challenge' = [challenge EXCEPT ![j] = "none"]
          /\ uses' = [uses EXCEPT ![j] = 0]
    BY <1>2 DEF ExpireChallenge
  <2>2. /\ \A i \in Challenge : challenge[i] = "taken" => challenge'[i] = "taken"
        /\ \A i \in Challenge : uses'[i] \in {0, 1} /\ (challenge'[i] # "gone" => uses'[i] = 0)
    BY <2>1 DEF TypeOK, ChallengeInv
  <2> QED  BY <1>1, <2>2, FreeChallenges
<1>3. CASE UNCHANGED uses /\ (IssueFor("register") \/ UNCHANGED challenge)
  <2>1. /\ \A j \in Challenge : challenge[j] = "taken" => challenge'[j] = "taken"
        /\ \A j \in Challenge : uses'[j] \in {0, 1} /\ (challenge'[j] # "gone" => uses'[j] = 0)
    BY <1>3, IssueFrees
  <2> QED  BY <1>1, <2>1, FreeChallenges
<1> QED  BY <1>2, <1>3
         DEF Environment, BeginRegistration, StartAdmin, AdminEnds, ExpireSession,
             FailuresPass, accountVars


-----------------------------------------------------------------------------
(* Second factors *)

\* What the others owe can only have become less.
LEMMA FactorKept ==
  ASSUME TypeOK, FactorInv, Follow,
         \A d \in Client :
           \/ Same(d)
           \/ /\ thread'[d].pc = "hash" /\ "totp" \in owes'[d] => thread'[d].copy.totp
              /\ thread'[d].pc \in {"issue", "minted"} /\ owes'[d] # {} => thread'[d].passed
  PROVE  FactorInv'
<1>1. ASSUME NEW d \in Client
      PROVE  /\ thread'[d].pc = "hash" /\ "totp" \in owes'[d] => thread'[d].copy.totp
             /\ thread'[d].pc \in {"issue", "minted"} /\ owes'[d] # {} => thread'[d].passed
  <2>1. CASE Same(d)
    <3>1. thread'[d].pc = "idle" \/ owes'[d] \subseteq owes[d]
      BY FollowTyped
    <3>2. /\ thread[d].pc = "hash" /\ "totp" \in owes[d] => thread[d].copy.totp
          /\ thread[d].pc \in {"issue", "minted"} /\ owes[d] # {} => thread[d].passed
      BY DEF FactorInv
    <3> QED  BY <2>1, <3>1, <3>2 DEF Same
  <2>2. CASE ~Same(d)
    BY <2>2
  <2> QED  BY <2>1, <2>2
<1> QED  BY <1>1, FollowTyped DEF FactorInv

LEMMA RequestFactor ==
  ASSUME TypeOK, LocksInv, FactorInv, NEW c \in Client, RequestStep(c), Follow
  PROVE  FactorInv'
<1>1. \A d \in Client \ {c} : Same(d)
  BY RequestOrderly DEF Moves
<1>2. /\ owes[c] \subseteq (IF row.totp THEN {"totp"} ELSE {})
                             \cup (IF keys # {} THEN {"passkey"} ELSE {})
      /\ thread[c].pc = "hash" /\ "totp" \in owes[c] => thread[c].copy.totp
      /\ thread[c].pc \in {"issue", "minted"} /\ owes[c] # {} => thread[c].passed
  BY DEF FactorInv
<1>3. thread'[c].pc = "idle" \/ owes'[c] \subseteq owes[c]
  BY FollowTyped
<1>4. /\ thread'[c].pc = "hash" /\ "totp" \in owes'[c] => thread'[c].copy.totp
      /\ thread'[c].pc \in {"issue", "minted"} /\ owes'[c] # {} => thread'[c].passed
  <2>1. CASE thread'[c].pc \in Quiet
    BY <2>1 DEF Quiet
  <2>2. CASE ReadAccount(c)
    <3>1. thread'[c].pc = "hash" /\ thread'[c].copy = row
      BY <2>2, LoginTurns DEF Becomes
    <3> QED  BY <1>2, <1>3, <3>1
  <2>3. CASE PasswordVerified(c)
    <3>1. PICK pc \in {"second", "issue"} :
            /\ thread'[c].pc = pc
            /\ pc = "issue" => ~thread[c].copy.totp /\ keys = {}
      BY <2>3, LoginTurns DEF Becomes
    <3>2. thread[c].pc = "hash"
      BY <2>3 DEF PasswordVerified, RightPassword, At
    <3>3. pc = "issue" => owes[c] = {}
      BY <1>2, <3>1, <3>2
    <3> QED  BY <1>3, <3>1, <3>3
  <2>4. CASE RightCode(c)
    BY <2>4, LoginTurns DEF Becomes
  <2>5. CASE Mint(c)
    <3>1. GoesTo(c, "minted") /\ thread[c].pc = "issue"
      BY <2>5, LoginTurns DEF Mint, At
    <3> QED  BY <1>2, <1>3, <3>1 DEF GoesTo, Becomes
  <2>6. CASE Consume(c) \/ PasskeyVerified(c)
    BY <2>6, CeremonyTurns DEF Becomes
  <2>7. CASE ReadAndVerify(c) \/ Stamp(c)
    <3>1. thread'[c].pc \in {"stamp", "commit"}
      BY <2>7, SelfTurns DEF GoesTo, Becomes
    <3> QED  BY <3>1
  <2> QED  BY <2>1, <2>2, <2>3, <2>4, <2>5, <2>6, <2>7, Places
<1> QED  BY <1>1, <1>4, FactorKept

-----------------------------------------------------------------------------
(* The account *)

LEMMA SecurityKept == SecurityInv /\ [Next]_vars => SecurityInv'
<1> SUFFICES ASSUME SecurityInv, [Next]_vars PROVE SecurityInv'
  OBVIOUS
<1>1. TypeOK /\ LocksInv /\ RowInv /\ ChallengeInv /\ FactorInv
  BY DEF SecurityInv
<1>2. ASSUME NEW c \in Client, RequestStep(c), Follow
      PROVE  SecurityInv'
  <2>1. Moves(c) /\ LocksInv'
    BY <1>1, <1>2, RequestOrderly
  <2>2. AccountTypeOK'
    BY <1>1, <1>2, RequestTyped
  <2>3. TypeOK'
    BY <1>1, <1>2, <2>1, <2>2, FollowTyped DEF TypeOK, AccountTypeOK, LocksInv, Moves
  <2>4. RowInv' /\ ChallengeInv'
    BY <1>1, <1>2, RequestRow, RequestChallenge
  <2>5. FactorInv'
    BY <1>1, <1>2, RequestFactor
  <2> QED  BY <2>1, <2>3, <2>4, <2>5 DEF SecurityInv
<1>3. CASE Environment
  <2>1. Follow
    BY <1>3 DEF Environment
  <2>2. /\ AccountTypeOK' /\ thread' \in [Client -> Thread]
        /\ \A d \in Client : Same(d)
        /\ UNCHANGED admissionVars \/ Forget
    BY <1>1, <1>3, WorldMoves
  <2>3. LocksInv'
    BY <1>1, <2>2, OthersOrderly
  <2>4. TypeOK'
    BY <1>1, <2>1, <2>2, <2>3, FollowTyped DEF TypeOK, AccountTypeOK, LocksInv
  <2>5. RowInv' /\ ChallengeInv'
    BY <1>1, <1>3, WorldRow, WorldChallenge
  <2>6. FactorInv'
    BY <1>1, <2>1, <2>2, FactorKept
  <2> QED  BY <2>3, <2>4, <2>5, <2>6 DEF SecurityInv
<1>4. CASE UNCHANGED vars
  <2>1. UNCHANGED <<failures, holder, row, keys, challenge, uses, session, dead, thread,
                    admin, owes>>
    BY <1>4 DEF vars, admissionVars, accountVars
  <2>2. TypeOK'
    BY <1>1, <2>1 DEF TypeOK, AdmissionTypeOK
  <2>3. LocksInv'
    BY <1>1, <2>1 DEF LocksInv, AdmissionTypeOK, Fitting, LoginHeld, SecondHeld, StripesKept,
       InLogin, InSecond, Within, FailuresBounded
  <2>4. RowInv' /\ ChallengeInv' /\ FactorInv'
    BY <1>1, <2>1 DEF RowInv, DisableKnows, EnabledHasSecret, ChallengeInv, FactorInv
  <2> QED  BY <2>2, <2>3, <2>4 DEF SecurityInv
<1>5. CASE \E c \in Client : Start(c) \/ Step(c)
  BY <1>2, <1>5 DEF Start, Step, RequestStep
<1> QED  BY <1>3, <1>4, <1>5 DEF Next

LEMMA SecurityBegins == Init => SecurityInv
<1> SUFFICES ASSUME Init PROVE SecurityInv
  OBVIOUS
<1>1. /\ failures \in [Counter -> Nat] /\ holder \in [Lock -> Client \cup {Nobody}]
      /\ \A k \in Counter : failures[k] = 0
  BY DEF Init, AdmissionInit
<1>2. TypeOK
  BY <1>1, IdleTyped DEF Init, TypeOK, AdmissionTypeOK, Clean, Row, ChallengeState, NoAdmin,
     AdminOp
<1>3. \A c \in Client : thread[c] = Idle /\ owes[c] = {}
  BY DEF Init
<1>4. LocksInv
  <2>1. ASSUME NEW c \in Client
        PROVE  Fitting(c) /\ ~InLogin(c) /\ ~InSecond(c)
    <3>1. thread[c].pc = "idle" /\ thread[c].op = "none" /\ thread[c].who = Me
      BY <1>3 DEF Idle
    <3> QED  BY <3>1 DEF Fitting, InLogin, InSecond, LoginKind, Reverified
  <2>2. FailuresBounded
    BY <1>1, AdmissionAssumption DEF FailuresBounded
  <2>3. ASSUME NEW c \in Client
        PROVE  StripesKept(c)
    BY AdmissionAssumption DEF Init, AdmissionInit, StripesKept
  <2> QED  BY <1>2, <2>1, <2>2, <2>3 DEF TypeOK, LocksInv, LoginHeld, SecondHeld
<1>5. RowInv
  BY <1>3 DEF Init, RowInv, DisableKnows, EnabledHasSecret, Idle, Clean
<1>6. ChallengeInv
  BY <1>3 DEF Init, ChallengeInv, Idle
<1>7. FactorInv
  BY <1>3 DEF FactorInv
<1> QED  BY <1>2, <1>4, <1>5, <1>6, <1>7 DEF SecurityInv

LEMMA SecurityHolds == Spec => []SecurityInv
BY SecurityBegins, SecurityKept, PTL DEF Spec

\* The stripe a request waits for, and who has it.
Wants(c, l) ==
  \/ thread[c].pc = "login" /\ l = LockOf("login", thread[c].who)
  \/ thread[c].pc = "second" /\ l = LockOf("second", Me)

WaitsFor(c, d) == \E l \in Lock : Wants(c, l) /\ holder[l] = d

\* Who is waited for may wait in turn, for one who does not: no requests wait for each
\* other, themselves included, however many subjects share a stripe
\* (LoginAdmissionGuard.run, the second lock inside the first).
WaitsAreShort ==
  \A c, d, e, f \in Client : ~(WaitsFor(c, d) /\ WaitsFor(d, e) /\ WaitsFor(e, f))

\* No two requests wait for each other's stripes, for every number of threads and however
\* subjects share a stripe: a login waits for the second stripe at most, and who has that
\* waits for none (LoginAdmissionGuard.run).
THEOREM NobodyWaitsInCircle == Spec => []WaitsAreShort
<1>1. ASSUME LocksInv, NEW c \in Client, NEW d \in Client, NEW e \in Client, NEW f \in Client,
             WaitsFor(c, d), WaitsFor(d, e), WaitsFor(e, f)
      PROVE  FALSE
  <2>1. Fitting(d) /\ StripesKept(d) /\ StripesKept(e)
    BY <1>1 DEF LocksInv
  <2>2. InLogin(d) \/ InSecond(d)
    BY <1>1, <2>1 DEF WaitsFor, StripesKept
  <2>3. thread[d].pc \in {"login", "second"}
    BY <1>1 DEF WaitsFor, Wants
  <2>4. thread[d].pc = "second"
    BY <2>2, <2>3 DEF InLogin, InSecond
  <2>5. holder[LockOf("second", Me)] = e /\ LockOf("second", Me) \in Lock
    BY <1>1, <2>4, LocksTyped DEF WaitsFor, Wants
  <2>6. InSecond(e)
    BY <2>1, <2>5 DEF StripesKept, LockOf
  <2>7. thread[e].pc \in {"login", "second"}
    BY <1>1 DEF WaitsFor, Wants
  <2> QED  BY <2>6, <2>7 DEF InSecond
<1>2. SecurityInv => WaitsAreShort
  BY <1>1 DEF SecurityInv, WaitsAreShort
<1> QED  BY <1>2, SecurityHolds, PTL

\* No subject has more failures in its window than the limit, for every number of threads
\* and however many subjects share a stripe (_failure_admission, _admit).
THEOREM NoSubjectGuessesOn == Spec => []FailuresBounded
<1>1. SecurityInv => FailuresBounded
  BY DEF SecurityInv, LocksInv
<1> QED  BY <1>1, SecurityHolds, PTL

\* TOTP that is on has its secret, for every number of the owner's requests
\* (totp_begin, totp_confirm, totp_disable).
THEOREM TotpHasItsSecret == Spec => []EnabledHasSecret
<1>1. SecurityInv => EnabledHasSecret
  BY DEF SecurityInv, RowInv
<1> QED  BY <1>1, SecurityHolds, PTL

\* A challenge is used at most once, whatever number of threads its answer is sent to
\* (_consume_passkey_challenge).
THEOREM ChallengesServeOnce == Spec => []ChallengeUsedOnce
<1>1. SecurityInv => ChallengeUsedOnce
  <2> SUFFICES ASSUME ChallengeInv PROVE ChallengeUsedOnce
    BY DEF SecurityInv
  <2>1. \A j \in Challenge : uses[j] = 0 \/ uses[j] = 1
    BY DEF ChallengeInv
  <2> QED  BY <2>1 DEF ChallengeUsedOnce
<1> QED  BY <1>1, SecurityHolds, PTL

\* A session is issued past every second factor that has been in force since the login
\* began (authenticate_login).
THEOREM FactorsAreAsked == Spec => []FactorAsked
<1>1. SecurityInv => FactorAsked
  BY DEF SecurityInv, FactorInv, FactorAsked, At
<1> QED  BY <1>1, SecurityHolds, PTL
=============================================================================
