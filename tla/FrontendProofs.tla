--------------------------- MODULE FrontendProofs ---------------------------
(***************************************************************************)
(* What a tab of the frontend shows, for every number of accounts,         *)
(* preferences, loads and saves; and what its read cache takes, for every  *)
(* number of hooks, paths, credentials and reads under way.                *)
(***************************************************************************)
EXTENDS ShellIdentity, ReadCache, WellFoundedInduction, TLAPS

-----------------------------------------------------------------------------
(* Whose shell it is *)

\* A tab without a shell has no load to wait for and nothing to be told.
OffIsQuiet == shell = "off" => told /\ \A l \in loads : ~l.alive

\* What is still shown after the shell has gone was left behind.
LeftBehind == shell # "on" /\ identity # NoIdentity => residue

\* A load that may still be taken asks for the person of the token, as long as
\* the tab knows the token.
LoadsAreOwn == shell = "on" /\ told => \A l \in loads : l.alive => l.by = credential

\* /auth/me answers for somebody.
AnsweredForSomebody == \A l \in loads : l.me => l.by # NoPerson

-----------------------------------------------------------------------------
(* Which preferences it has *)

\* A save that is taken belongs to the identity in place.
ValidSaves ==
  \A s \in saves : s.valid => shell = "on" /\ identity # NoIdentity

\* While a load is calm, no save can be taken after it, and what it has read is
\* what is stored.
CalmLoads ==
  \A l \in loads : l.calm =>
    /\ \A s \in saves : ~s.valid
    /\ l.session # NoIdentity => l.by # NoPerson /\ l.session = prefsOf[l.by]

\* As ShowsStored, whoever the token belongs to by now.
ShowsItsOwn ==
  caughtUp =>
    /\ \A s \in saves : ~s.valid
    /\ identity # NoIdentity /\ identity.prefs = prefsOf[identity.who]

ShellInv ==
  /\ ShellTypeOK
  /\ OffIsQuiet /\ LeftBehind /\ LoadsAreOwn /\ AnsweredForSomebody
  /\ ValidSaves /\ CalmLoads /\ ShowsItsOwn
  /\ OwnShell


-----------------------------------------------------------------------------
(* The steps of the store *)

LEMMA Typed ==
  ASSUME ShellTypeOK
  PROVE  /\ NoPerson \notin Person /\ NoIdentity \notin Identities
         /\ NoIdentity \notin Preferences /\ Defaults \in Preferences
         /\ \A l \in loads :
              /\ l.by \in Person \cup {NoPerson} /\ l.alive \in BOOLEAN /\ l.me \in BOOLEAN
              /\ l.session \in Preferences \cup {NoIdentity} /\ l.calm \in BOOLEAN
         /\ \A s \in saves : s.key \in Pref /\ s.by \in Person /\ s.valid \in BOOLEAN
         /\ identity # NoIdentity => identity.who \in Person /\ identity.prefs \in Preferences
BY ShellAssumption DEF ShellTypeOK, Loads, Saves, Identities, Defaults, Preferences

\* Saves that are no longer taken.
LEMMA InvalidSaves ==
  ASSUME ShellTypeOK
  PROVE  Invalid \subseteq Saves /\ \A s \in Invalid : ~s.valid
<1>1. ASSUME NEW s \in saves
      PROVE  [s EXCEPT !.valid = FALSE] \in Saves /\ ~[s EXCEPT !.valid = FALSE].valid
  BY DEF ShellTypeOK, Saves
<1> QED  BY <1>1 DEF Invalid

\* A cancelled load is as it was, but for that, and not calm.
LEMMA CancelledLoads ==
  ASSUME ShellTypeOK
  PROVE  /\ Cancelled \subseteq Loads
         /\ \A c \in Cancelled : ~c.alive /\ ~c.calm /\ \E l \in loads :
              c.by = l.by /\ c.me = l.me /\ c.session = l.session
<1>1. ASSUME NEW l \in loads
      PROVE  LET c == [l EXCEPT !.alive = FALSE, !.calm = FALSE] IN
             /\ c \in Loads /\ ~c.alive /\ ~c.calm
             /\ c.by = l.by /\ c.me = l.me /\ c.session = l.session
  BY DEF ShellTypeOK, Loads
<1> QED  BY <1>1 DEF Cancelled

LEMMA StirredLoads ==
  ASSUME ShellTypeOK, Stir
  PROVE  /\ loads' \subseteq Loads /\ caughtUp' = FALSE
         /\ \A c \in loads' : ~c.calm /\ \E l \in loads :
              c.by = l.by /\ c.me = l.me /\ c.session = l.session /\ c.alive = l.alive
<1>1. ASSUME NEW l \in loads
      PROVE  LET c == [l EXCEPT !.calm = FALSE] IN
             /\ c \in Loads /\ ~c.calm
             /\ c.by = l.by /\ c.me = l.me /\ c.session = l.session /\ c.alive = l.alive
  BY DEF ShellTypeOK, Loads
<1> QED  BY <1>1, ZenonT(40) DEF Stir

\* An answer is put in place of the identity.
LEMMA Applied ==
  ASSUME ShellTypeOK, NEW p \in Person, NEW f \in Preferences, NEW settled \in BOOLEAN,
         Apply([who |-> p, prefs |-> f], settled)
  PROVE  /\ identity' \in Identities /\ identity'.who = p
         /\ settled => identity'.prefs = f
         /\ residue' = (shell = "leaving")
         /\ saves' \subseteq Saves
         /\ \A s \in saves' : s.valid => s \in saves
<1> DEFINE fresh == [who |-> p, prefs |-> f]
<1>1. identity' = Reconciled(fresh, settled)
  BY DEF Apply
<1>2. fresh \in Identities /\ fresh.who = p /\ fresh.prefs = f
  BY DEF Identities
<1> HIDE DEF fresh
<1>4. identity' \in Identities /\ identity'.who = p /\ (settled => identity'.prefs = f)
  <2>1. CASE ~(identity = NoIdentity \/ identity.who # p \/ settled)
    <3>1. identity' = [fresh EXCEPT !.prefs = identity.prefs] /\ identity.prefs \in Preferences
      BY <1>1, <1>2, <2>1, Typed DEF Reconciled
    <3> QED  BY <1>2, <2>1, <3>1 DEF Identities
  <2>2. CASE identity = NoIdentity \/ identity.who # p \/ settled
    BY <1>1, <1>2, <2>2 DEF Reconciled
  <2> QED  BY <2>1, <2>2
<1>5. saves' \in {saves, Invalid} /\ residue' = (shell = "leaving")
  BY DEF Apply
<1> QED  BY <1>4, <1>5, InvalidSaves DEF ShellTypeOK

-----------------------------------------------------------------------------
(* The steps of the tab *)

LEMMA InitHolds == ShellInit => ShellInv
<1> SUFFICES ASSUME ShellInit PROVE ShellInv
  OBVIOUS
<1>1. ShellTypeOK
  BY DEF ShellInit, ShellTypeOK, Defaults, Preferences, Loads, Saves
<1> QED
  BY <1>1 DEF ShellInit, ShellInv, OffIsQuiet, LeftBehind, LoadsAreOwn, AnsweredForSomebody,
     ValidSaves, CalmLoads, ShowsItsOwn, OwnShell

\* Tokens come and go with no shell of theirs, or behind the back of this tab.
LEMMA TokensHold ==
  ASSUME ShellInv, NEW p \in Person \cup {NoPerson},
         (p \in Person /\ LogInHere(p)) \/ LogInElsewhere(p)
  PROVE  ShellInv'
<1>1. ShellTypeOK'
  BY DEF ShellInv, ShellTypeOK, LogInHere, LogInElsewhere
<1>2. shell = "off" \/ ~told'
  BY DEF LogInHere, LogInElsewhere
<1>3. UNCHANGED <<shell, identity, loads, saves, prefsOf, residue, caughtUp>>
      /\ (shell = "off" => told')
  BY DEF LogInHere, LogInElsewhere
<1>4. OffIsQuiet' /\ LeftBehind' /\ LoadsAreOwn' /\ AnsweredForSomebody'
  BY <1>2, <1>3 DEF ShellInv, OffIsQuiet, LeftBehind, LoadsAreOwn, AnsweredForSomebody
<1>5. ValidSaves' /\ CalmLoads' /\ ShowsItsOwn' /\ OwnShell'
  BY <1>2, <1>3 DEF ShellInv, ValidSaves, CalmLoads, ShowsItsOwn, OwnShell
<1> QED  BY <1>1, <1>4, <1>5 DEF ShellInv

\* A load that begins asks for the person of the token, and has read nothing.
LEMMA BegunLoad ==
  ASSUME ShellTypeOK
  PROVE  /\ NewLoad \in Loads /\ NewLoad.by = credential /\ NewLoad.alive /\ ~NewLoad.me
         /\ NewLoad.session = NoIdentity
         /\ NewLoad.calm => \A s \in saves : ~s.valid
<1>1. (\A s \in saves : ~s.valid) \in BOOLEAN
  OBVIOUS
<1> QED  BY <1>1 DEF NewLoad, Loads, ShellTypeOK

LEMMA StartHolds ==
  ASSUME ShellInv, OpenShell \/ RunLoad
  PROVE  ShellInv'
<1>1. /\ UNCHANGED <<credential, told, identity, saves, prefsOf, residue, caughtUp>>
      /\ shell' = "on" /\ shell \in {"off", "on"}
      /\ loads' = Cancelled \cup {NewLoad}
  BY DEF OpenShell, RunLoad, StartLoad
<1>2. ShellTypeOK'
  BY <1>1, CancelledLoads, BegunLoad DEF ShellInv, ShellTypeOK
<1>3. OffIsQuiet' /\ LeftBehind' /\ LoadsAreOwn'
  BY <1>1, CancelledLoads, BegunLoad DEF ShellInv, OffIsQuiet, LeftBehind, LoadsAreOwn
<1>4. AnsweredForSomebody' /\ ValidSaves'
  BY <1>1, CancelledLoads, BegunLoad DEF ShellInv, AnsweredForSomebody, ValidSaves
<1>5. CalmLoads'
  BY <1>1, CancelledLoads, BegunLoad DEF ShellInv, CalmLoads
<1>6. ShowsItsOwn' /\ OwnShell'
  BY <1>1 DEF ShellInv, ShowsItsOwn, OwnShell, LeftBehind
<1> QED  BY <1>2, <1>3, <1>4, <1>5, <1>6 DEF ShellInv

\* What is cancelled, with or without its saves, is no longer taken.
LEMMA CancelHolds ==
  ASSUME ShellInv, CancelLoad \/ CloseShell \/ Depart
  PROVE  ShellInv'
<1>1. /\ UNCHANGED <<credential, identity, prefsOf, caughtUp>>
      /\ loads' = Cancelled
      /\ (shell' = "on" /\ UNCHANGED <<shell, told, saves, residue>>)
         \/ (shell' = "off" /\ told' = TRUE /\ saves' = Invalid
             /\ (residue' = TRUE \/ (shell # "on" /\ residue' = residue)))
  BY DEF CancelLoad, CloseShell, Depart
<1>2. ShellTypeOK'
  BY <1>1, CancelledLoads, InvalidSaves DEF ShellInv, ShellTypeOK
<1>3. OffIsQuiet' /\ LeftBehind' /\ LoadsAreOwn'
  BY <1>1, CancelledLoads DEF ShellInv, OffIsQuiet, LeftBehind, LoadsAreOwn
<1>4. AnsweredForSomebody' /\ ValidSaves'
  BY <1>1, CancelledLoads, InvalidSaves DEF ShellInv, AnsweredForSomebody, ValidSaves
<1>5. CalmLoads'
  BY <1>1, CancelledLoads, InvalidSaves DEF ShellInv, CalmLoads
<1>6. ShowsItsOwn' /\ OwnShell'
  BY <1>1, InvalidSaves DEF ShellInv, ShowsItsOwn, OwnShell
<1> QED  BY <1>2, <1>3, <1>4, <1>5, <1>6 DEF ShellInv

\* The end of a session leaves no identity, and no save that counts.
LEMMA EndHolds ==
  ASSUME ShellInv, ClearIdentity, told' = TRUE, shell' = "leaving", caughtUp' = FALSE,
         credential' \in {credential, NoPerson}, loads' \subseteq loads, prefsOf' = prefsOf
  PROVE  ShellInv'
<1>1. identity' = NoIdentity /\ saves' = Invalid /\ residue' = FALSE
  BY DEF ClearIdentity
<1>2. ShellTypeOK'
  BY <1>1, InvalidSaves DEF ShellInv, ShellTypeOK
<1>3. OffIsQuiet' /\ LeftBehind' /\ LoadsAreOwn' /\ AnsweredForSomebody'
  BY <1>1 DEF ShellInv, OffIsQuiet, LeftBehind, LoadsAreOwn, AnsweredForSomebody
<1>4. ValidSaves' /\ CalmLoads' /\ ShowsItsOwn' /\ OwnShell'
  BY <1>1, InvalidSaves DEF ShellInv, ValidSaves, CalmLoads, ShowsItsOwn, OwnShell
<1> QED  BY <1>2, <1>3, <1>4 DEF ShellInv

LEMMA EndingsHold ==
  ASSUME ShellInv, EndShell \/ StorageEvent
  PROVE  ShellInv'
<1>1. CASE EndShell
  BY <1>1, EndHolds DEF EndShell
<1>2. CASE StorageEvent
  BY <1>2, EndHolds DEF StorageEvent
<1> QED  BY <1>1, <1>2

-----------------------------------------------------------------------------
(* The steps of a load *)

\* A load that goes on is the load it was, but for what it has just learnt.
LEMMA ReadHolds ==
  ASSUME ShellInv, NEW l \in loads, ReadSession(l)
  PROVE  ShellInv'
<1>1. UNCHANGED <<credential, told, shell, identity, saves, prefsOf, residue, caughtUp>>
  BY DEF ReadSession
<1>2. PICK n \in Loads :
        /\ loads' = (loads \ {l}) \cup {n}
        /\ n.by = l.by /\ n.alive = l.alive /\ n.me = l.me /\ (n.calm => l.calm)
        /\ n.calm => n.by # NoPerson /\ n.session = prefsOf[n.by]
  <2>1. l \in Loads /\ prefsOf \in [Person -> Preferences] /\ Defaults \in Preferences
    BY Typed DEF ShellInv, ShellTypeOK
  <2>2. CASE l.by # NoPerson /\ Becomes(l, [l EXCEPT !.session = prefsOf[l.by]])
    <3>1. l.by \in Person /\ prefsOf[l.by] \in Preferences
      BY <2>1, <2>2 DEF Loads
    <3>2. [l EXCEPT !.session = prefsOf[l.by]] \in Loads
      BY <2>1, <3>1 DEF Loads
    <3> WITNESS [l EXCEPT !.session = prefsOf[l.by]] \in Loads
    <3> QED  BY <2>1, <2>2, <3>1 DEF Loads, Becomes
  <2>3. CASE Becomes(l, [l EXCEPT !.session = Defaults, !.calm = FALSE])
    <3>1. [l EXCEPT !.session = Defaults, !.calm = FALSE] \in Loads
      BY <2>1 DEF Loads
    <3> WITNESS [l EXCEPT !.session = Defaults, !.calm = FALSE] \in Loads
    <3> QED  BY <2>1, <2>3 DEF Loads, Becomes
  <2> QED  BY <2>2, <2>3 DEF ReadSession
<1>3. ShellTypeOK'
  BY <1>1, <1>2 DEF ShellInv, ShellTypeOK
<1>4. OffIsQuiet' /\ LeftBehind' /\ LoadsAreOwn' /\ AnsweredForSomebody'
  BY <1>1, <1>2 DEF ShellInv, OffIsQuiet, LeftBehind, LoadsAreOwn, AnsweredForSomebody
<1>5. ValidSaves' /\ ShowsItsOwn' /\ OwnShell'
  BY <1>1 DEF ShellInv, ValidSaves, ShowsItsOwn, OwnShell
<1>6. CalmLoads'
  BY <1>1, <1>2 DEF ShellInv, CalmLoads
<1> QED  BY <1>3, <1>4, <1>5, <1>6 DEF ShellInv

\* A load that settles, with nothing taken from it.
LEMMA DroppedHolds ==
  ASSUME ShellInv, loads' \subseteq loads,
         UNCHANGED <<credential, told, shell, identity, saves, prefsOf, residue, caughtUp>>
  PROVE  ShellInv'
<1>1. ShellTypeOK'
  BY DEF ShellInv, ShellTypeOK
<1>2. OffIsQuiet' /\ LeftBehind' /\ LoadsAreOwn' /\ AnsweredForSomebody'
  BY DEF ShellInv, OffIsQuiet, LeftBehind, LoadsAreOwn, AnsweredForSomebody
<1>3. ValidSaves' /\ CalmLoads' /\ ShowsItsOwn' /\ OwnShell'
  BY DEF ShellInv, ValidSaves, CalmLoads, ShowsItsOwn, OwnShell
<1> QED  BY <1>1, <1>2, <1>3 DEF ShellInv

\* An identity that a load puts in place: its person is the one the load asked
\* for, and nothing but the load's own last word claims to have caught up.
LEMMA AppliedHolds ==
  ASSUME ShellInv, NEW l \in loads, l.alive, l.by # NoPerson,
         NEW f \in Preferences, NEW settled \in BOOLEAN,
         Apply([who |-> l.by, prefs |-> f], settled),
         UNCHANGED <<credential, told, shell, prefsOf>>,
         loads' \subseteq Loads,
         \A c \in loads' : \E b \in loads : c.by = b.by /\ c.alive = b.alive
                             /\ (c.calm => b.calm) /\ c.session = b.session
                             /\ (c.me => c.by # NoPerson),
         caughtUp' \in BOOLEAN,
         caughtUp' => \/ caughtUp /\ identity' = identity
                      \/ settled /\ l.calm /\ f = prefsOf[l.by]
  PROVE  ShellInv'
<1>1. l.by \in Person /\ shell # "off" /\ (shell = "on" /\ told => l.by = credential)
  BY Typed DEF ShellInv, OffIsQuiet, LoadsAreOwn
<1>2. /\ identity' \in Identities /\ identity'.who = l.by /\ (settled => identity'.prefs = f)
      /\ residue' = (shell = "leaving") /\ saves' \subseteq Saves
      /\ \A s \in saves' : s.valid => s \in saves
  BY <1>1, Applied DEF ShellInv
<1>3. identity' # NoIdentity
  BY <1>2, ShellAssumption
<1>4. ShellTypeOK'
  BY <1>2 DEF ShellInv, ShellTypeOK
<1>5. OffIsQuiet' /\ LoadsAreOwn' /\ AnsweredForSomebody'
  BY <1>1 DEF ShellInv, OffIsQuiet, LoadsAreOwn, AnsweredForSomebody
<1>6. LeftBehind' /\ OwnShell'
  <2>1. shell \in {"on", "leaving"}
    BY <1>1 DEF ShellInv, ShellTypeOK
  <2> QED  BY <1>1, <1>2, <2>1 DEF LeftBehind, OwnShell
<1>7. ValidSaves'
  BY <1>2, <1>3 DEF ShellInv, ValidSaves
<1>8. CalmLoads'
  BY <1>2 DEF ShellInv, CalmLoads
<1>9. ShowsItsOwn'
  <2>1. CASE caughtUp /\ identity' = identity
    BY <1>2, <2>1 DEF ShellInv, ShowsItsOwn
  <2>2. CASE settled /\ l.calm /\ f = prefsOf[l.by]
    BY <1>2, <1>3, <2>2 DEF ShellInv, ShowsItsOwn, CalmLoads
  <2> QED  BY <2>1, <2>2 DEF ShowsItsOwn
<1> QED  BY <1>4, <1>5, <1>6, <1>7, <1>8, <1>9 DEF ShellInv

LEMMA MeHolds ==
  ASSUME ShellInv, NEW l \in loads, MeLands(l)
  PROVE  ShellInv'
<1> DEFINE n == [l EXCEPT !.me = TRUE]
<1>1. l \in Loads /\ n \in Loads /\ n.by = l.by /\ n.alive = l.alive /\ n.calm = l.calm
      /\ n.session = l.session /\ n.me /\ l.by # NoPerson
      /\ loads' = (loads \ {l}) \cup {n}
  BY DEF ShellInv, ShellTypeOK, Loads, MeLands, Becomes
<1> HIDE DEF n
<1>2. /\ loads' \subseteq Loads
      /\ \A c \in loads' : \E b \in loads : c.by = b.by /\ c.alive = b.alive
                             /\ (c.calm => b.calm) /\ c.session = b.session
                             /\ (c.me => c.by # NoPerson)
  <2>1. loads' \subseteq Loads
    BY <1>1 DEF ShellInv, ShellTypeOK
  <2>2. ASSUME NEW c \in loads'
        PROVE  \E b \in loads : c.by = b.by /\ c.alive = b.alive
                 /\ (c.calm => b.calm) /\ c.session = b.session /\ (c.me => c.by # NoPerson)
    BY <1>1, <2>2 DEF ShellInv, AnsweredForSomebody
  <2> QED  BY <2>1, <2>2
<1>3. CASE l.alive
  <2>1. Apply([who |-> l.by, prefs |-> Defaults], FALSE)
        /\ caughtUp' = (caughtUp /\ identity' = identity)
        /\ UNCHANGED <<credential, told, shell, prefsOf>>
    BY <1>3 DEF MeLands, Applies
  <2>2. Defaults \in Preferences
    BY Typed DEF ShellInv
  <2> QED  BY <1>1, <1>2, <1>3, <2>1, <2>2, AppliedHolds
<1>4. CASE ~l.alive
  <2>1. UNCHANGED <<credential, told, shell, identity, saves, prefsOf, residue, caughtUp>>
    BY <1>4 DEF MeLands, Applies
  <2>2. ShellTypeOK'
    BY <1>2, <2>1 DEF ShellInv, ShellTypeOK
  <2>3. OffIsQuiet' /\ LeftBehind' /\ LoadsAreOwn' /\ AnsweredForSomebody'
    BY <1>2, <2>1 DEF ShellInv, OffIsQuiet, LeftBehind, LoadsAreOwn, AnsweredForSomebody
  <2>4. ValidSaves' /\ CalmLoads' /\ ShowsItsOwn' /\ OwnShell'
    BY <1>2, <2>1 DEF ShellInv, ValidSaves, CalmLoads, ShowsItsOwn, OwnShell
  <2> QED  BY <2>2, <2>3, <2>4 DEF ShellInv
<1> QED  BY <1>3, <1>4

LEMMA SessionHolds ==
  ASSUME ShellInv, NEW l \in loads, SessionLands(l)
  PROVE  ShellInv'
<1>1. l.me /\ l.session # NoIdentity /\ loads' = loads \ {l} /\ l.by # NoPerson
  BY DEF SessionLands, ShellInv, AnsweredForSomebody
<1>2. CASE l.alive
  <2>1. Apply([who |-> l.by, prefs |-> l.session], TRUE)
        /\ caughtUp' = (l.calm /\ l.by = credential)
        /\ UNCHANGED <<credential, told, shell, prefsOf>>
    BY <1>2 DEF SessionLands, Applies
  <2>2. l.session \in Preferences /\ (l.calm => l.session = prefsOf[l.by])
    BY <1>1, Typed DEF ShellInv, CalmLoads
  <2>3. /\ loads' \subseteq Loads
        /\ \A c \in loads' : \E b \in loads : c.by = b.by /\ c.alive = b.alive
                               /\ (c.calm => b.calm) /\ c.session = b.session
                               /\ (c.me => c.by # NoPerson)
    BY <1>1 DEF ShellInv, ShellTypeOK, AnsweredForSomebody
  <2> QED  BY <1>1, <1>2, <2>1, <2>2, <2>3, AppliedHolds
<1>3. CASE ~l.alive
  BY <1>1, <1>3, DroppedHolds DEF SessionLands, Applies
<1> QED  BY <1>2, <1>3

LEMMA FailureHolds ==
  ASSUME ShellInv, NEW l \in loads, MeFails(l)
  PROVE  ShellInv'
<1>1. CASE Applies(l) /\ shell = "on"
  BY <1>1, EndHolds DEF MeFails
<1>2. CASE ~(Applies(l) /\ shell = "on")
  BY <1>2, DroppedHolds DEF MeFails
<1> QED  BY <1>1, <1>2

-----------------------------------------------------------------------------
(* The steps of a preference *)

\* With a row changed, no load is calm and nothing has caught up: the rest is as
\* it was, and the saves that count belong where they did.
LEMMA StirHolds ==
  ASSUME ShellInv, Stir,
         UNCHANGED <<credential, told, shell, identity, residue>>,
         prefsOf' \in [Person -> Preferences], saves' \subseteq Saves,
         \A s \in saves' : s.valid => shell = "on" /\ identity # NoIdentity
  PROVE  ShellInv'
<1>1. ShellTypeOK'
  BY StirredLoads DEF ShellInv, ShellTypeOK
<1>2. OffIsQuiet' /\ LeftBehind' /\ LoadsAreOwn'
  BY StirredLoads DEF ShellInv, OffIsQuiet, LeftBehind, LoadsAreOwn
<1>3. AnsweredForSomebody'
  <2>1. ASSUME NEW c \in loads', c.me PROVE c.by # NoPerson
    <3>1. PICK l \in loads : c = [l EXCEPT !.calm = FALSE]
      BY DEF Stir
    <3>2. c.me = l.me /\ c.by = l.by
      BY <3>1 DEF ShellInv, ShellTypeOK, Loads
    <3> QED  BY <2>1, <3>2 DEF ShellInv, AnsweredForSomebody
  <2> QED  BY <2>1 DEF AnsweredForSomebody
<1>4. ValidSaves' /\ CalmLoads' /\ ShowsItsOwn' /\ OwnShell'
  BY StirredLoads DEF ShellInv, ValidSaves, CalmLoads, ShowsItsOwn, OwnShell
<1> QED  BY <1>1, <1>2, <1>3, <1>4 DEF ShellInv

LEMMA SaveHolds ==
  ASSUME ShellInv, NEW k \in Pref, SavePref(k)
  PROVE  ShellInv'
<1> DEFINE n == [key |-> k, by |-> credential, valid |-> TRUE, step |-> "sent", answer |-> 0]
<1>1. credential \in Person
  BY DEF SavePref, ShellInv, ShellTypeOK
<1>2. n \in Saves
  BY <1>1 DEF Saves
<1>3. saves' = saves \cup {n} /\ shell = "on" /\ identity # NoIdentity
  BY DEF SavePref
<1> HIDE DEF n
<1>4. saves' \subseteq Saves /\ prefsOf' \in [Person -> Preferences]
  BY <1>2, <1>3 DEF SavePref, ShellInv, ShellTypeOK
<1> QED  BY <1>3, <1>4, StirHolds DEF SavePref

\* A change of a row leaves rows.
LEMMA ChangedRows ==
  ASSUME ShellTypeOK, NEW p \in Person, NEW k \in Pref, ChangeStored(p, k)
  PROVE  prefsOf' \in [Person -> Preferences]
<1>1. prefsOf[p] \in Preferences
  BY DEF ShellTypeOK
<1>2. [prefsOf[p] EXCEPT ![k] = @ + 1] \in Preferences
  BY <1>1 DEF Preferences
<1>3. prefsOf' = [prefsOf EXCEPT ![p] = [prefsOf[p] EXCEPT ![k] = @ + 1]]
  BY DEF ChangeStored, ShellTypeOK
<1> QED  BY <1>2, <1>3 DEF ShellTypeOK

LEMMA ChangeHolds ==
  ASSUME ShellInv, NEW p \in Person, NEW k \in Pref, ChangeElsewhere(p, k)
  PROVE  ShellInv'
<1>1. prefsOf' \in [Person -> Preferences] /\ Stir
  BY ChangedRows DEF ChangeElsewhere, ChangeStored, ShellInv
<1> QED
  BY <1>1, StirHolds DEF ChangeElsewhere, ShellInv, ShellTypeOK, ValidSaves

\* A save that goes on counts as much as it did.
LEMMA GoingSave ==
  ASSUME ShellInv, NEW s \in saves, NEW n \in Saves, n.valid = s.valid, Goes(s, n)
  PROVE  /\ saves' \subseteq Saves
         /\ \A t \in saves' : \E b \in saves : t.valid = b.valid
BY DEF Goes, ShellInv, ShellTypeOK

LEMMA WriteHolds ==
  ASSUME ShellInv, NEW s \in saves, WritePref(s)
  PROVE  ShellInv'
<1> DEFINE n == [s EXCEPT !.step = "written"]
<1>1. s \in Saves /\ n \in Saves /\ n.valid = s.valid /\ Goes(s, n)
  BY DEF WritePref, ShellInv, ShellTypeOK, Saves
<1> HIDE DEF n
<1>2. /\ saves' \subseteq Saves
      /\ \A t \in saves' : \E b \in saves : t.valid = b.valid
  BY <1>1, GoingSave
<1>3. prefsOf' \in [Person -> Preferences] /\ Stir
  BY <1>1, ChangedRows DEF WritePref, ChangeStored, ShellInv, Saves
<1>4. \A t \in saves' : t.valid => shell = "on" /\ identity # NoIdentity
  BY <1>2 DEF ShellInv, ValidSaves
<1> QED  BY <1>2, <1>3, <1>4, StirHolds DEF WritePref

\* Where saves only go, or go on, none counts that did not, and all is as it was.
LEMMA SavesOnlyHold ==
  ASSUME ShellInv, saves' \subseteq Saves,
         \A t \in saves' : \E b \in saves : t.valid = b.valid,
         UNCHANGED <<credential, told, shell, identity, loads, prefsOf, residue, caughtUp>>
  PROVE  ShellInv'
<1>1. ShellTypeOK'
  BY DEF ShellInv, ShellTypeOK
<1>2. OffIsQuiet' /\ LeftBehind' /\ LoadsAreOwn' /\ AnsweredForSomebody'
  BY DEF ShellInv, OffIsQuiet, LeftBehind, LoadsAreOwn, AnsweredForSomebody
<1>3. ValidSaves' /\ CalmLoads' /\ ShowsItsOwn' /\ OwnShell'
  BY DEF ShellInv, ValidSaves, CalmLoads, ShowsItsOwn, OwnShell
<1> QED  BY <1>1, <1>2, <1>3 DEF ShellInv

LEMMA AnswerHolds ==
  ASSUME ShellInv, NEW s \in saves, AnswerPref(s)
  PROVE  ShellInv'
<1> DEFINE n == [s EXCEPT !.step = "answered", !.answer = prefsOf[s.by][s.key]]
<1>1. s \in Saves /\ s.by \in Person /\ s.key \in Pref /\ prefsOf \in [Person -> Preferences]
  BY Typed DEF ShellInv, ShellTypeOK
<1>2. prefsOf[s.by][s.key] \in Nat
  BY <1>1 DEF Preferences
<1>3. n \in Saves /\ n.valid = s.valid
  BY <1>1, <1>2 DEF Saves
<1>4. Goes(s, n)
  BY DEF AnswerPref
<1> HIDE DEF n
<1> QED  BY <1>3, <1>4, GoingSave, SavesOnlyHold DEF AnswerPref

\* An answer that counts changes the identity of the very shell that asked, which
\* no load has yet caught up with.
LEMMA PrefHolds ==
  ASSUME ShellInv, NEW s \in saves, PrefLands(s)
  PROVE  ShellInv'
<1>1. saves' = saves \ {s}
      /\ UNCHANGED <<credential, told, shell, loads, prefsOf, residue, caughtUp>>
  BY DEF PrefLands
<1>2. CASE ~s.valid
  <2>1. identity' = identity
    BY <1>2 DEF PrefLands, Counts
  <2> QED  BY <1>1, <2>1, SavesOnlyHold DEF ShellInv, ShellTypeOK
<1>3. CASE s.valid
  <2>1. shell = "on" /\ identity # NoIdentity /\ ~caughtUp
    BY <1>3 DEF ShellInv, ValidSaves, ShowsItsOwn
  <2>2. identity' \in Identities /\ identity'.who = identity.who
    <3>1. identity \in Identities /\ s.key \in Pref /\ s.answer \in Nat
      BY <2>1 DEF ShellInv, ShellTypeOK, Saves
    <3>2. identity' = [identity EXCEPT !.prefs[s.key] = s.answer]
      BY <1>3 DEF PrefLands, Counts
    <3> QED  BY <3>1, <3>2 DEF Identities, Preferences
  <2>3. ShellTypeOK' /\ identity' # NoIdentity
    BY <1>1, <2>2, ShellAssumption DEF ShellInv, ShellTypeOK
  <2>4. OffIsQuiet' /\ LeftBehind' /\ LoadsAreOwn' /\ AnsweredForSomebody'
    BY <1>1, <2>1 DEF ShellInv, OffIsQuiet, LeftBehind, LoadsAreOwn, AnsweredForSomebody
  <2>5. ValidSaves' /\ CalmLoads' /\ ShowsItsOwn' /\ OwnShell'
    BY <1>1, <2>1, <2>2, <2>3 DEF ShellInv, ValidSaves, CalmLoads, ShowsItsOwn, OwnShell
  <2> QED  BY <2>3, <2>4, <2>5 DEF ShellInv
<1> QED  BY <1>2, <1>3

LEMMA RefusedHolds ==
  ASSUME ShellInv, NEW s \in saves, PrefFails(s)
  PROVE  ShellInv'
BY SavesOnlyHold DEF PrefFails, ShellInv, ShellTypeOK

-----------------------------------------------------------------------------

LEMMA StepHolds == ShellInv /\ [ShellNext]_shellVars => ShellInv'
<1> SUFFICES ASSUME ShellInv, [ShellNext]_shellVars PROVE ShellInv'
  OBVIOUS
<1>1. ASSUME NEW p \in Person, LogInHere(p) \/ LogInElsewhere(p) PROVE ShellInv'
  BY <1>1, TokensHold
<1>2. CASE LogInElsewhere(NoPerson)
  BY <1>2, TokensHold
<1>3. CASE OpenShell \/ RunLoad
  BY <1>3, StartHolds
<1>4. CASE CancelLoad \/ CloseShell \/ Depart
  BY <1>4, CancelHolds
<1>5. CASE EndShell \/ StorageEvent
  BY <1>5, EndingsHold
<1>6. ASSUME NEW l \in loads, ReadSession(l) \/ MeLands(l) \/ SessionLands(l) \/ MeFails(l)
      PROVE  ShellInv'
  BY <1>6, ReadHolds, MeHolds, SessionHolds, FailureHolds
<1>7. ASSUME NEW k \in Pref, SavePref(k) PROVE ShellInv'
  BY <1>7, SaveHolds
<1>8. ASSUME NEW s \in saves, WritePref(s) \/ AnswerPref(s) \/ PrefLands(s) \/ PrefFails(s)
      PROVE  ShellInv'
  BY <1>8, WriteHolds, AnswerHolds, PrefHolds, RefusedHolds
<1>9. ASSUME NEW p \in Person, NEW k \in Pref, ChangeElsewhere(p, k) PROVE ShellInv'
  BY <1>9, ChangeHolds
<1>10. CASE UNCHANGED shellVars
  BY <1>10, SavesOnlyHold DEF shellVars, ShellInv, ShellTypeOK
<1> QED
  BY <1>1, <1>2, <1>3, <1>4, <1>5, <1>6, <1>7, <1>8, <1>9, <1>10 DEF ShellNext

\* Nobody sees the shell of another, but in the windows that OwnShell names, and
\* once a load that began with nothing under way has landed, the shell shows what
\* is stored, whatever loads, saves and ends of sessions still come in, and in
\* whatever order (useIdentityLoader, useAccountPreference, endLocalSession).
THEOREM ShellsAreTrue == ShellSpec => []ShellIsTrue
<1>1. ShellInv => ShellIsTrue
  BY DEF ShellInv, ShowsItsOwn, ShellIsTrue, ShowsStored
<1> QED  BY InitHolds, StepHolds, <1>1, PTL DEF ShellSpec

-----------------------------------------------------------------------------
(* The read cache: whose GETs a hook may take *)

Root(h, i) == h.reads[i] # Nil /\ h.reads[i].behind = 0

\* The read in flight is of the key that is shown, and is the one to show unless
\* it is retired or the hook is off; it waits for the retired one of its key.
FlightFits(h) ==
  /\ h.flight # 0 => h.reads[h.flight] # Nil /\ h.reads[h.flight].key = h.key
  /\ h.live => h.on /\ h.flight \notin {0, h.retired}
  /\ h.on /\ h.flight \notin {0, h.retired} => h.live
  /\ h.mode = "error" => ~h.live
  /\ h.flight \notin {0, h.retired} => h.reads[h.flight].behind = Blocker(h)

\* A read waits for one of its own key.
Linked(h) ==
  /\ h.retired # 0 => h.reads[h.retired] # Nil
  /\ \A i \in ReadId : h.reads[i] # Nil /\ h.reads[i].behind # 0 =>
       /\ h.reads[h.reads[i].behind] # Nil
       /\ h.reads[h.reads[i].behind].key = h.reads[i].key

\* One that waits for none has asked for its key.
Aimed(h, t) ==
  \A i \in ReadId : Root(h, i) =>
    /\ h.reads[i].get \in Path \X Token
    /\ h.reads[i].get[1] = h.reads[i].key
    /\ h.reads[i].get[2] <= t

\* A GET that the hook sent for what it shows is that of a read that matters.
Tracked(h, x, T, t) ==
  \A g \in Path \X Token : g = <<h.key, t>> /\ T[g] # Nil /\ T[g].owner = x =>
    \E i \in ReadId : Root(h, i) /\ Matters(h, i) /\ h.reads[i].get = g

\* What is to be shown is somebody else's GET, or nothing older than what the
\* cache has been told of.
ShownIsFresh(h, x, T) ==
  h.live /\ Root(h, h.flight) =>
    LET r == h.reads[h.flight] IN
    IF r.joined THEN T[r.get] # Nil /\ T[r.get].owner # x
                ELSE T[r.get] = Nil \/ T[r.get].age \in {Nil, "new", "old"}

HookFits(h, x, T, t) ==
  FlightFits(h) /\ Linked(h) /\ Aimed(h, t) /\ Tracked(h, x, T, t) /\ ShownIsFresh(h, x, T)

AllMatter(h) == \A i \in ReadId : h.reads[i] # Nil => Matters(h, i)

Fresh(v) == v \notin {"late", "alien"}

\* A hook that is on has a key, and paints nothing of the person before.
Painted(h) ==
  h.on => h.key # Nil /\ h.data # "alien" /\ (h.mode = "ok" => h.data # "late")

\* No GET has a credential that is still to come.
Past(T, t) == \A g \in Path \X Token : T[g] # Nil => g[2] <= t

ReadInv ==
  /\ ReadTypeOK
  /\ Past(table, token)
  /\ \A x \in Hook : /\ HookFits(hooks[x], x, table, token) /\ AllMatter(hooks[x])
                     /\ Painted(hooks[x])
  /\ \A k \in Path : Fresh(entries[k])

-----------------------------------------------------------------------------
(* Reads that matter *)

LEMMA NilIsNoAge == Nil \notin {"new", "old", "late", "alien", "stray"}
BY ReadAssumption DEF Answers, Ages

LEMMA SlotTyped ==
  ASSUME NEW h \in Slots
  PROVE  /\ h.on \in BOOLEAN /\ h.live \in BOOLEAN /\ h.key \in Path \cup {Nil}
         /\ h.flight \in ReadId \cup {0} /\ h.retired \in ReadId \cup {0}
         /\ h.reads \in [ReadId -> Reads \cup {Nil}]
         /\ \A i \in ReadId : h.reads[i] # Nil =>
              /\ h.reads[i] \in Reads /\ h.reads[i].behind \in ReadId \cup {0}
              /\ h.reads[i].key \in Path
         /\ 0 \notin ReadId /\ Nil \notin Reads /\ Nil \notin Path
BY ReadAssumption DEF Slots, Reads, ReadId

\* What matters is closed: the reads in flight and retired matter, and so does
\* what one of them waits for.
LEMMA MattersOn ==
  ASSUME NEW h \in Slots
  PROVE  /\ h.flight # 0 => Matters(h, h.flight)
         /\ h.retired # 0 => Matters(h, h.retired)
         /\ \A i \in ReadId : Matters(h, i) /\ h.reads[i] # Nil /\ h.reads[i].behind # 0
              => Matters(h, h.reads[i].behind)
<1>1. h.flight # 0 => Matters(h, h.flight)
  BY DEF Matters, WaitsIn
<1>2. h.retired # 0 => Matters(h, h.retired)
  BY DEF Matters, WaitsIn
<1>3. ASSUME NEW i \in ReadId, Matters(h, i), h.reads[i] # Nil, h.reads[i].behind # 0
      PROVE  Matters(h, h.reads[i].behind)
  BY <1>3 DEF Matters, WaitsIn
<1> QED  BY <1>1, <1>2, <1>3

\* Tidying leaves all but the reads, and of those that matter what they wait for.
LEMMA TidyParts ==
  ASSUME NEW h \in Slots
  PROVE  LET n == Tidy(h) IN
         /\ n \in Slots
         /\ n.on = h.on /\ n.key = h.key /\ n.data = h.data /\ n.mode = h.mode
         /\ n.live = h.live /\ n.flight = h.flight /\ n.retired = h.retired
         /\ \A i \in ReadId : n.reads[i] # Nil <=> h.reads[i] # Nil /\ Matters(h, i)
         /\ \A i \in ReadId : n.reads[i] # Nil =>
              /\ n.reads[i].key = h.reads[i].key /\ n.reads[i].behind = h.reads[i].behind
              /\ n.reads[i].get = h.reads[i].get
              /\ h.live /\ i = h.flight => n.reads[i] = h.reads[i]
<1> DEFINE Of(i) == IF h.reads[i] = Nil \/ ~Matters(h, i) THEN Nil
                    ELSE IF h.live /\ i = h.flight THEN h.reads[i]
                         ELSE [h.reads[i] EXCEPT !.fit = FALSE, !.joined = FALSE]
           q == [i \in ReadId |-> Of(i)]
<1>1. Tidy(h) = [h EXCEPT !.reads = q]
  BY DEF Tidy
<1>2. ASSUME NEW i \in ReadId
      PROVE  /\ Of(i) \in Reads \cup {Nil}
             /\ Of(i) # Nil <=> h.reads[i] # Nil /\ Matters(h, i)
             /\ Of(i) # Nil => /\ Of(i).key = h.reads[i].key /\ Of(i).behind = h.reads[i].behind
                               /\ Of(i).get = h.reads[i].get
                               /\ h.live /\ i = h.flight => Of(i) = h.reads[i]
  <2>1. CASE h.reads[i] = Nil \/ ~Matters(h, i)
    BY <2>1
  <2>2. CASE ~(h.reads[i] = Nil \/ ~Matters(h, i))
    <3>1. h.reads[i] \in Reads /\ Nil \notin Reads
      BY <2>2, SlotTyped
    <3>2. [h.reads[i] EXCEPT !.fit = FALSE, !.joined = FALSE] \in Reads
      BY <3>1 DEF Reads
    <3> QED  BY <2>2, <3>1, <3>2 DEF Reads
  <2> QED  BY <2>1, <2>2
<1> HIDE DEF Of
<1>3. q \in [ReadId -> Reads \cup {Nil}] /\ \A i \in ReadId : q[i] = Of(i)
  BY <1>2
<1> HIDE DEF q
<1>4. /\ Tidy(h) \in Slots /\ Tidy(h).reads = q
      /\ Tidy(h).on = h.on /\ Tidy(h).key = h.key /\ Tidy(h).data = h.data /\ Tidy(h).mode = h.mode
      /\ Tidy(h).live = h.live /\ Tidy(h).flight = h.flight /\ Tidy(h).retired = h.retired
  BY <1>1, <1>3 DEF Slots
<1> QED  BY <1>2, <1>3, <1>4

\* Tidied once, nothing is left to tidy.
LEMMA TidyMatters ==
  ASSUME NEW h \in Slots
  PROVE  /\ AllMatter(Tidy(h))
         /\ \A i \in ReadId : Matters(h, i) => Matters(Tidy(h), i)
<1> DEFINE n == Tidy(h)
<1>1. /\ n.flight = h.flight /\ n.retired = h.retired
      /\ \A i \in ReadId : n.reads[i] # Nil <=> h.reads[i] # Nil /\ Matters(h, i)
      /\ \A i \in ReadId : n.reads[i] # Nil => n.reads[i].behind = h.reads[i].behind
  BY TidyParts
<1> HIDE DEF n
<1>2. ASSUME NEW i \in ReadId, Matters(h, i) PROVE Matters(n, i)
  <2> SUFFICES ASSUME NEW S \in SUBSET ReadId, WaitsIn(n, S)
               PROVE  i \in S
    BY DEF Matters
  <2> DEFINE M == {j \in S : Matters(h, j)}
  <2>1. {h.flight, h.retired} \subseteq M \cup {0}
    BY <1>1, MattersOn DEF WaitsIn
  <2>2. ASSUME NEW j \in M, h.reads[j] # Nil PROVE h.reads[j].behind \in M \cup {0}
    BY <1>1, <2>2, MattersOn DEF WaitsIn
  <2>3. WaitsIn(h, M)
    BY <2>1, <2>2 DEF WaitsIn
  <2> QED  BY <1>2, <2>3 DEF Matters
<1> QED  BY <1>1, <1>2 DEF AllMatter, n

\* A hook that fits does so when it is tidied.
LEMMA TidyFits ==
  ASSUME NEW h \in Slots, NEW x, NEW T, NEW t, HookFits(h, x, T, t)
  PROVE  HookFits(Tidy(h), x, T, t) /\ AllMatter(Tidy(h))
<1> DEFINE n == Tidy(h)
<1>1. /\ n \in Slots
      /\ n.on = h.on /\ n.key = h.key /\ n.mode = h.mode
      /\ n.live = h.live /\ n.flight = h.flight /\ n.retired = h.retired
      /\ \A i \in ReadId : n.reads[i] # Nil <=> h.reads[i] # Nil /\ Matters(h, i)
      /\ \A i \in ReadId : n.reads[i] # Nil =>
           /\ n.reads[i].key = h.reads[i].key /\ n.reads[i].behind = h.reads[i].behind
           /\ n.reads[i].get = h.reads[i].get
           /\ h.live /\ i = h.flight => n.reads[i] = h.reads[i]
  BY TidyParts
<1>2. AllMatter(n) /\ \A i \in ReadId : Matters(h, i) => Matters(n, i)
  BY TidyMatters
<1> HIDE DEF n
<1>3. /\ h.flight \in ReadId \cup {0} /\ h.retired \in ReadId \cup {0}
      /\ \A i \in ReadId : h.reads[i] # Nil => h.reads[i].behind \in ReadId \cup {0}
  BY SlotTyped
<1>4. (h.flight # 0 => Matters(h, h.flight)) /\ (h.retired # 0 => Matters(h, h.retired))
  BY MattersOn
<1>5. FlightFits(h) /\ Linked(h) /\ Aimed(h, t) /\ Tracked(h, x, T, t) /\ ShownIsFresh(h, x, T)
  BY DEF HookFits
<1>6. Linked(n)
  <2>1. n.retired # 0 => n.reads[n.retired] # Nil
    BY <1>1, <1>3, <1>4, <1>5 DEF Linked
  <2>2. ASSUME NEW i \in ReadId, n.reads[i] # Nil, n.reads[i].behind # 0
        PROVE  n.reads[n.reads[i].behind] # Nil
               /\ n.reads[n.reads[i].behind].key = n.reads[i].key
    <3> DEFINE b == h.reads[i].behind
    <3>1. b \in ReadId /\ Matters(h, b) /\ h.reads[b] # Nil /\ h.reads[b].key = h.reads[i].key
      BY <1>1, <1>3, <1>5, <2>2, MattersOn DEF Linked
    <3> QED  BY <1>1, <2>2, <3>1
  <2> QED  BY <2>1, <2>2 DEF Linked
<1>7. FlightFits(n)
  <2>1. Blocker(n) = Blocker(h)
    BY <1>1, <1>3, <1>4, <1>5 DEF Blocker, Linked
  <2>2. h.flight # 0 => n.reads[h.flight] # Nil
    BY <1>1, <1>3, <1>4, <1>5 DEF FlightFits
  <2> QED  BY <1>1, <1>3, <1>5, <2>1, <2>2 DEF FlightFits
<1>8. Aimed(n, t)
  BY <1>1, <1>5 DEF Aimed, Root
<1>9. Tracked(n, x, T, t)
  BY <1>1, <1>2, <1>5 DEF Tracked, Root
<1>10. ShownIsFresh(n, x, T)
  <2>1. h.live => h.flight \in ReadId /\ n.reads[h.flight] = h.reads[h.flight]
    BY <1>1, <1>3, <1>4, <1>5 DEF FlightFits
  <2> QED  BY <1>1, <1>5, <2>1 DEF ShownIsFresh, Root
<1> QED  BY <1>2, <1>6, <1>7, <1>8, <1>9, <1>10 DEF HookFits, n

\* Hooks that differ in what they paint, and whether a read may be cached, fit alike.
Alike(h, n) ==
  /\ n.on = h.on /\ n.key = h.key /\ n.live = h.live /\ n.flight = h.flight /\ n.retired = h.retired
  /\ n.mode = "error" => h.mode = "error"
  /\ \A i \in ReadId : n.reads[i] # Nil <=> h.reads[i] # Nil
  /\ \A i \in ReadId : h.reads[i] # Nil =>
       /\ n.reads[i].key = h.reads[i].key /\ n.reads[i].behind = h.reads[i].behind
       /\ n.reads[i].get = h.reads[i].get /\ n.reads[i].joined = h.reads[i].joined

LEMMA AlikeMatters ==
  ASSUME NEW h \in Slots, NEW n \in Slots, Alike(h, n)
  PROVE  (\A i \in ReadId : Matters(h, i) => Matters(n, i)) /\ (AllMatter(h) => AllMatter(n))
<1>1. ASSUME NEW S \in SUBSET ReadId, WaitsIn(n, S) PROVE WaitsIn(h, S)
  BY <1>1 DEF WaitsIn, Alike
<1>2. \A i \in ReadId : Matters(h, i) => Matters(n, i)
  BY <1>1 DEF Matters
<1> QED  BY <1>2 DEF AllMatter, Alike

LEMMA AlikeFits ==
  ASSUME NEW h \in Slots, NEW n \in Slots, NEW x, NEW T, NEW t, Alike(h, n), HookFits(h, x, T, t)
  PROVE  HookFits(n, x, T, t)
<1>1. /\ h.flight \in ReadId \cup {0} /\ h.retired \in ReadId \cup {0}
      /\ \A i \in ReadId : h.reads[i] # Nil => h.reads[i].behind \in ReadId \cup {0}
  BY SlotTyped
<1>2. FlightFits(h) /\ Linked(h) /\ Aimed(h, t) /\ Tracked(h, x, T, t) /\ ShownIsFresh(h, x, T)
  BY DEF HookFits
<1>3. Linked(n)
  <2>1. ASSUME NEW i \in ReadId, n.reads[i] # Nil, n.reads[i].behind # 0
        PROVE  n.reads[n.reads[i].behind] # Nil
               /\ n.reads[n.reads[i].behind].key = n.reads[i].key
    <3> DEFINE b == h.reads[i].behind
    <3>1. b \in ReadId /\ n.reads[i].behind = b /\ h.reads[b] # Nil /\ h.reads[b].key = h.reads[i].key
      BY <1>1, <1>2, <2>1 DEF Linked, Alike
    <3> QED  BY <2>1, <3>1 DEF Alike
  <2> QED  BY <1>1, <1>2, <2>1 DEF Linked, Alike
<1>4. FlightFits(n)
  <2>1. Blocker(n) = Blocker(h)
    BY <1>1, <1>2 DEF Blocker, Linked, Alike
  <2> QED  BY <1>1, <1>2, <2>1 DEF FlightFits, Alike
<1>5. Aimed(n, t)
  BY <1>2 DEF Aimed, Root, Alike
<1>6. Tracked(n, x, T, t)
  BY <1>2, AlikeMatters DEF Tracked, Root, Alike
<1>7. ShownIsFresh(n, x, T)
  <2>1. h.live => h.flight \in ReadId
    BY <1>1, <1>2 DEF FlightFits
  <2> QED  BY <1>2, <2>1 DEF ShownIsFresh, Root, Alike
<1> QED  BY <1>3, <1>4, <1>5, <1>6, <1>7 DEF HookFits

\* Sending adds GETs, each of a read that waits for none, and changes no other.
LEMMA SentParts ==
  ASSUME NEW T \in [Path \X Token -> Gets \cup {Nil}], NEW H \in [Hook -> Slots]
  PROVE  LET S == Sent(H, T) IN
         /\ S \in [Path \X Token -> Gets \cup {Nil}]
         /\ \A g \in Path \X Token :
              \/ S[g] = T[g]
              \/ /\ T[g] = Nil /\ S[g] # Nil /\ S[g].age = Nil
                 /\ S[g].owner \in Hook
                 /\ \E i \in ReadId : Root(H[S[g].owner], i) /\ H[S[g].owner].reads[i].get = g
<1> DEFINE Of(g) == {x \in Hook : \E i \in ReadId :
                      LET r == H[x].reads[i] IN r # Nil /\ r.behind = 0 /\ r.get = g}
           New(g) == IF T[g] = Nil /\ Of(g) # {} THEN [age |-> Nil, owner |-> CHOOSE x \in Of(g) : TRUE]
                     ELSE T[g]
<1>1. Sent(H, T) = [g \in DOMAIN T |-> New(g)] /\ DOMAIN T = Path \X Token
  BY DEF Sent
<1>2. ASSUME NEW g \in Path \X Token
      PROVE  /\ New(g) \in Gets \cup {Nil}
             /\ \/ New(g) = T[g]
                \/ /\ T[g] = Nil /\ New(g) # Nil /\ New(g).age = Nil /\ New(g).owner \in Hook
                   /\ \E i \in ReadId : Root(H[New(g).owner], i) /\ H[New(g).owner].reads[i].get = g
  <2>1. CASE T[g] = Nil /\ Of(g) # {}
    <3> DEFINE o == CHOOSE x \in Of(g) : TRUE
    <3>1. o \in Of(g)
      BY <2>1
    <3>2. New(g) = [age |-> Nil, owner |-> o]
      BY <2>1
    <3> HIDE DEF o, New
    <3>3. o \in Hook /\ \E i \in ReadId : Root(H[o], i) /\ H[o].reads[i].get = g
      BY <3>1 DEF Root
    <3>4. New(g) \in Gets /\ New(g).age = Nil /\ New(g).owner = o
      BY <3>2, <3>3 DEF Gets
    <3> QED  BY <2>1, <3>3, <3>4, ReadAssumption
  <2>2. CASE ~(T[g] = Nil /\ Of(g) # {})
    BY <2>2
  <2> QED  BY <2>1, <2>2
<1> HIDE DEF New
<1> QED  BY <1>1, <1>2

\* Hooks that fit the table from which the reads were sent fit the one they made.
LEMMA SentFits ==
  ASSUME NEW T \in [Path \X Token -> Gets \cup {Nil}], NEW H \in [Hook -> Slots], NEW t, Past(T, t),
         \A x \in Hook : HookFits(H[x], x, T, t) /\ AllMatter(H[x])
  PROVE  /\ Sent(H, T) \in [Path \X Token -> Gets \cup {Nil}]
         /\ Past(Sent(H, T), t)
         /\ \A x \in Hook : HookFits(H[x], x, Sent(H, T), t)
<1> DEFINE S == Sent(H, T)
<1>1. /\ S \in [Path \X Token -> Gets \cup {Nil}]
      /\ \A g \in Path \X Token :
           \/ S[g] = T[g]
           \/ /\ T[g] = Nil /\ S[g] # Nil /\ S[g].age = Nil /\ S[g].owner \in Hook
              /\ \E i \in ReadId : Root(H[S[g].owner], i) /\ H[S[g].owner].reads[i].get = g
  BY SentParts
<1> HIDE DEF S
<1>2. Past(S, t)
  <2> SUFFICES ASSUME NEW g \in Path \X Token, S[g] # Nil PROVE g[2] <= t
    BY DEF Past
  <2>1. CASE S[g] = T[g]
    BY <2>1 DEF Past
  <2>2. CASE \E i \in ReadId : Root(H[S[g].owner], i) /\ H[S[g].owner].reads[i].get = g /\ S[g].owner \in Hook
    BY <2>2 DEF HookFits, Aimed
  <2> QED  BY <1>1, <2>1, <2>2
<1>3. ASSUME NEW x \in Hook PROVE HookFits(H[x], x, S, t)
  <2>1. Tracked(H[x], x, S, t)
    <3> SUFFICES ASSUME NEW g \in Path \X Token, g = <<H[x].key, t>>, S[g] # Nil, S[g].owner = x
                 PROVE  \E i \in ReadId : Root(H[x], i) /\ Matters(H[x], i) /\ H[x].reads[i].get = g
      BY DEF Tracked
    <3>1. CASE S[g] = T[g]
      BY <3>1 DEF HookFits, Tracked
    <3>2. CASE \E i \in ReadId : Root(H[S[g].owner], i) /\ H[S[g].owner].reads[i].get = g
      BY <3>2 DEF AllMatter, Root
    <3> QED  BY <1>1, <3>1, <3>2
  <2>2. ShownIsFresh(H[x], x, S)
    <3> SUFFICES ASSUME H[x].live, Root(H[x], H[x].flight)
                 PROVE  LET r == H[x].reads[H[x].flight] IN
                        IF r.joined THEN S[r.get] # Nil /\ S[r.get].owner # x
                                    ELSE S[r.get] = Nil \/ S[r.get].age \in {Nil, "new", "old"}
      BY DEF ShownIsFresh
    <3> DEFINE r == H[x].reads[H[x].flight]
    <3>1. H[x].flight \in ReadId /\ r.get \in Path \X Token
      BY SlotTyped DEF HookFits, FlightFits, Aimed
    <3>2. IF r.joined THEN T[r.get] # Nil /\ T[r.get].owner # x
                      ELSE T[r.get] = Nil \/ T[r.get].age \in {Nil, "new", "old"}
      BY DEF HookFits, ShownIsFresh
    <3> HIDE DEF r
    <3>3. IF r.joined THEN S[r.get] # Nil /\ S[r.get].owner # x
                      ELSE S[r.get] = Nil \/ S[r.get].age \in {Nil, "new", "old"}
      BY <1>1, <3>1, <3>2
    <3> QED  BY <3>3 DEF r
  <2> QED  BY <2>1, <2>2 DEF HookFits
<1> QED  BY <1>1, <1>2, <1>3 DEF S

\* A read that matters matters for the retired one, unless it is that in flight
\* and waits for none.
ForRetired(h, i) == \A S \in SUBSET ReadId :
  h.retired \in S \cup {0} /\ (\A j \in S : h.reads[j] # Nil => h.reads[j].behind \in S \cup {0}) => i \in S

\* A GET that the hook sent for what it shows: it is that of the read in flight,
\* or the retired read is of that key and waits for it.
LEMMA OwnGet ==
  ASSUME NEW h \in Slots, NEW x, NEW T, NEW t, FlightFits(h), Linked(h), Aimed(h, t), Tracked(h, x, T, t),
         NEW g \in Path \X Token, g = <<h.key, t>>, T[g] # Nil, T[g].owner = x
  PROVE  \E i \in ReadId :
           /\ Root(h, i) /\ h.reads[i].get = g /\ h.reads[i].key = h.key
           /\ Blocker(h) # 0 => ForRetired(h, i)
           /\ Blocker(h) = 0 => i = h.flight /\ i # h.retired
<1>1. PICK i \in ReadId : Root(h, i) /\ Matters(h, i) /\ h.reads[i].get = g
  BY DEF Tracked
<1>2. h.reads[i].key = h.key
  BY <1>1 DEF Aimed
<1>3. /\ h.flight \in ReadId \cup {0} /\ h.retired \in ReadId \cup {0} /\ 0 \notin ReadId
      /\ \A j \in ReadId : h.reads[j] # Nil => h.reads[j].behind \in ReadId \cup {0}
  BY SlotTyped
<1>4. ASSUME Blocker(h) # 0 PROVE ForRetired(h, i)
  <2>1. Blocker(h) = h.retired
    BY <1>4 DEF Blocker
  <2> SUFFICES ASSUME NEW S \in SUBSET ReadId, h.retired \in S \cup {0},
                      \A j \in S : h.reads[j] # Nil => h.reads[j].behind \in S \cup {0}
               PROVE  i \in S
    BY DEF ForRetired
  <2>2. CASE h.flight \in {0, h.retired}
    <3>1. WaitsIn(h, S)
      BY <2>2 DEF WaitsIn
    <3> QED  BY <1>1, <3>1 DEF Matters
  <2>3. CASE h.flight \notin {0, h.retired}
    <3>1. h.reads[h.flight].behind = h.retired
      BY <2>1, <2>3 DEF FlightFits
    <3>2. WaitsIn(h, S \cup {h.flight})
      BY <3>1 DEF WaitsIn
    <3>3. i \in S \cup {h.flight}
      BY <1>1, <1>3, <2>3, <3>2 DEF Matters
    <3>4. i # h.flight
      BY <1>1, <1>4, <2>1, <3>1 DEF Root
    <3> QED  BY <3>3, <3>4
  <2> QED  BY <2>2, <2>3
<1>5. ASSUME Blocker(h) = 0 PROVE i = h.flight /\ i # h.retired
  <2> DEFINE S == {j \in ReadId : j = h.flight \/ (h.reads[j] # Nil => h.reads[j].key # h.key)}
  <2>1. h.retired # 0 => h.reads[h.retired] # Nil /\ h.reads[h.retired].key # h.key
    BY <1>3, <1>5 DEF Blocker, Linked
  <2>2. h.flight # 0 => h.flight # h.retired /\ h.reads[h.flight].behind = 0
    BY <1>5, <2>1 DEF FlightFits
  <2>3. ASSUME NEW j \in S, h.reads[j] # Nil PROVE h.reads[j].behind \in S \cup {0}
    <3>1. CASE j = h.flight
      BY <1>3, <2>2, <3>1
    <3>2. CASE j # h.flight /\ h.reads[j].behind # 0
      BY <1>3, <2>3, <3>2 DEF Linked
    <3> QED  BY <3>1, <3>2
  <2>4. WaitsIn(h, S)
    BY <1>3, <2>1, <2>3 DEF WaitsIn
  <2>5. i \in S
    BY <1>1, <2>4 DEF Matters
  <2>6. i = h.flight
    BY <1>1, <1>2, <2>5 DEF Root
  <2> QED  BY <1>3, <2>2, <2>6
<1> QED  BY <1>1, <1>2, <1>4, <1>5

-----------------------------------------------------------------------------
(* Reads that begin, are retired, or go on *)

TableTyped(T) == T \in [Path \X Token -> Gets \cup {Nil}]

\* A read that is sent asks for its key with the credential of now.
LEMMA LoadedRead ==
  ASSUME NEW r \in Reads, NEW x, NEW T, token \in Token
  PROVE  LET l == Loaded(r, x, T)
             g == <<r.key, token>> IN
         /\ l \in Reads /\ l.key = r.key /\ l.behind = 0 /\ l.get = g /\ g \in Path \X Token
         /\ l.joined = (T[g] # Nil /\ T[g].owner # x)
<1> DEFINE g == <<r.key, token>>
           b == (T[g] # Nil /\ T[g].owner # x)
<1>1. g \in Path \X Token /\ b \in BOOLEAN
  BY DEF Reads
<1>2. Loaded(r, x, T) = [r EXCEPT !.behind = 0, !.get = g, !.joined = b]
  BY DEF Loaded
<1> HIDE DEF g, b
<1>3. /\ Loaded(r, x, T) \in Reads /\ Loaded(r, x, T).key = r.key /\ Loaded(r, x, T).behind = 0
      /\ Loaded(r, x, T).get = g /\ Loaded(r, x, T).joined = b
  BY <1>1, <1>2 DEF Reads
<1> QED  BY <1>1, <1>3 DEF g, b

\* A read that begins fits when a GET the hook itself has sent for the key is
\* one it may take, or waited for.
LEMMA BeginFits ==
  ASSUME NEW h \in Slots, NEW x, NEW T, token \in Token, Room(h),
         h.on, h.key \in Path, h.mode # "error", Linked(h), Aimed(h, token),
         \A g \in Path \X Token : g = <<h.key, token>> /\ T[g] # Nil /\ T[g].owner = x =>
           /\ Blocker(h) # 0 =>
                \E i \in ReadId : Root(h, i) /\ h.reads[i].get = g /\ ForRetired(h, i)
           /\ Blocker(h) = 0 => T[g].age \in {Nil, "new", "old"}
  PROVE  LET n == Begin(h, x, T) IN
         /\ n \in Slots /\ n.on = h.on /\ n.key = h.key /\ n.data = h.data /\ n.mode = h.mode
         /\ HookFits(n, x, T, token) /\ AllMatter(n)
<1> DEFINE i == CHOOSE j \in ReadId : h.reads[j] = Nil
           b == Blocker(h)
           read == [key |-> h.key, behind |-> b, get |-> Nil, fit |-> TRUE, joined |-> FALSE]
           new == IF b = 0 THEN Loaded(read, x, T) ELSE read
           m == [h EXCEPT !.live = TRUE, !.flight = i, !.reads[i] = new]
           g == <<h.key, token>>
<1>1. i \in ReadId /\ h.reads[i] = Nil
  BY DEF Room
<1>2. Begin(h, x, T) = Tidy(m)
  BY DEF Begin
<1>3. /\ h.retired \in ReadId \cup {0} /\ 0 \notin ReadId /\ Nil \notin Reads
      /\ h.reads \in [ReadId -> Reads \cup {Nil}]
      /\ \A j \in ReadId : h.reads[j] # Nil => h.reads[j].behind \in ReadId \cup {0}
  BY SlotTyped
<1>4. b \in ReadId \cup {0} /\ (b # 0 => b = h.retired /\ h.reads[b].key = h.key)
  BY <1>3 DEF Blocker
<1>5. read \in Reads /\ read.key = h.key /\ read.behind = b
  BY <1>4 DEF Reads
<1> HIDE DEF read
<1>6. /\ Loaded(read, x, T) \in Reads /\ Loaded(read, x, T).key = h.key
      /\ Loaded(read, x, T).behind = 0 /\ Loaded(read, x, T).get = g /\ g \in Path \X Token
      /\ Loaded(read, x, T).joined = (T[g] # Nil /\ T[g].owner # x)
  BY <1>5, LoadedRead
<1>7. /\ new \in Reads /\ new # Nil /\ new.key = h.key /\ new.behind = b
      /\ b = 0 => new.get = g /\ new.joined = (T[g] # Nil /\ T[g].owner # x)
  BY <1>3, <1>5, <1>6
<1> HIDE DEF i, new, g
<1>8. /\ m \in Slots /\ m.live = TRUE /\ m.flight = i /\ m.reads = [h.reads EXCEPT ![i] = new]
      /\ m.on = h.on /\ m.key = h.key /\ m.data = h.data /\ m.mode = h.mode /\ m.retired = h.retired
  BY <1>1, <1>3, <1>7 DEF Slots
<1>9. m.reads[i] = new /\ \A j \in ReadId : j # i => m.reads[j] = h.reads[j]
  BY <1>1, <1>3, <1>8
<1> HIDE DEF m
<1>10. h.retired # 0 => h.retired # i /\ m.reads[h.retired] = h.reads[h.retired]
  BY <1>1, <1>3, <1>9 DEF Linked
<1>11. Linked(m)
  <2>1. ASSUME NEW j \in ReadId, m.reads[j] # Nil, m.reads[j].behind # 0
        PROVE  m.reads[m.reads[j].behind] # Nil /\ m.reads[m.reads[j].behind].key = m.reads[j].key
    <3>1. CASE j = i
      BY <1>4, <1>7, <1>9, <1>10, <2>1, <3>1 DEF Linked
    <3>2. CASE j # i
      <4> DEFINE c == h.reads[j].behind
      <4>1. c \in ReadId /\ h.reads[c] # Nil /\ h.reads[c].key = h.reads[j].key /\ m.reads[j] = h.reads[j]
        BY <1>3, <1>9, <2>1, <3>2 DEF Linked
      <4> QED  BY <1>1, <1>9, <4>1
    <3> QED  BY <3>1, <3>2
  <2> QED  BY <1>8, <1>10, <2>1 DEF Linked
<1>12. Blocker(m) = b
  BY <1>8, <1>10 DEF Blocker, b
<1>13. FlightFits(m)
  BY <1>1, <1>3, <1>7, <1>8, <1>9, <1>10, <1>12 DEF FlightFits
<1>14. Aimed(m, token)
  <2>1. token <= token
    BY ReadAssumption
  <2>2. ASSUME NEW j \in ReadId, Root(m, j)
        PROVE  /\ m.reads[j].get \in Path \X Token /\ m.reads[j].get[1] = m.reads[j].key
               /\ m.reads[j].get[2] <= token
    <3>1. CASE j = i
      BY <1>6, <1>7, <1>9, <2>1, <2>2, <3>1 DEF Root, g
    <3>2. CASE j # i
      BY <1>9, <2>2, <3>2 DEF Aimed, Root
    <3> QED  BY <3>1, <3>2
  <2> QED  BY <2>2 DEF Aimed
<1>15. Tracked(m, x, T, token)
  <2> SUFFICES ASSUME T[g] # Nil, T[g].owner = x
               PROVE  \E j \in ReadId : Root(m, j) /\ Matters(m, j) /\ m.reads[j].get = g
    BY <1>8 DEF Tracked, g
  <2>1. CASE b = 0
    <3>1. Matters(m, i)
      BY <1>1, <1>3, <1>8, MattersOn
    <3> QED  BY <1>1, <1>7, <1>9, <2>1, <3>1 DEF Root
  <2>2. CASE b # 0
    <3>1. PICK j \in ReadId : Root(h, j) /\ h.reads[j].get = g /\ ForRetired(h, j)
      BY <1>6, <2>2 DEF g
    <3>2. j # i /\ m.reads[j] = h.reads[j]
      BY <1>1, <1>9, <3>1 DEF Root
    <3>3. ASSUME NEW S \in SUBSET ReadId, WaitsIn(m, S) PROVE j \in S
      <4>1. h.retired \in S \cup {0} /\ \A k \in S : h.reads[k] # Nil => h.reads[k].behind \in S \cup {0}
        BY <1>1, <1>8, <1>9, <3>3 DEF WaitsIn
      <4> QED  BY <3>1, <4>1 DEF ForRetired
    <3> QED  BY <3>1, <3>2, <3>3 DEF Matters, Root
  <2> QED  BY <2>1, <2>2
<1>16. ShownIsFresh(m, x, T)
  <2> SUFFICES ASSUME Root(m, i)
               PROVE  IF new.joined THEN T[new.get] # Nil /\ T[new.get].owner # x
                                    ELSE T[new.get] = Nil \/ T[new.get].age \in {Nil, "new", "old"}
    BY <1>8, <1>9 DEF ShownIsFresh
  <2>1. b = 0
    BY <1>7, <1>9 DEF Root
  <2> QED  BY <1>6, <1>7, <2>1 DEF g
<1>17. HookFits(m, x, T, token)
  BY <1>11, <1>13, <1>14, <1>15, <1>16 DEF HookFits
<1>18. HookFits(Tidy(m), x, T, token) /\ AllMatter(Tidy(m))
  BY <1>8, <1>17, TidyFits
<1>19. /\ Tidy(m) \in Slots /\ Tidy(m).on = m.on /\ Tidy(m).key = m.key
       /\ Tidy(m).data = m.data /\ Tidy(m).mode = m.mode
  BY <1>8, TidyParts
<1> QED  BY <1>2, <1>8, <1>18, <1>19


\* n is h with the read in flight retired, whatever it paints.
RetiredAs(h, n) ==
  /\ n.key = h.key /\ n.live = FALSE /\ n.flight = h.flight
  /\ n.retired = IF h.flight # 0 THEN h.flight ELSE h.retired
  /\ \A i \in ReadId : n.reads[i] # Nil <=> h.reads[i] # Nil
  /\ \A i \in ReadId : h.reads[i] # Nil =>
       /\ n.reads[i].key = h.reads[i].key /\ n.reads[i].behind = h.reads[i].behind
       /\ n.reads[i].get = h.reads[i].get

\* Once retired, the read waits for every GET the hook has sent for what it shows.
LEMMA RetiredFits ==
  ASSUME NEW h \in Slots, NEW n \in Slots, NEW x, NEW T, NEW t, RetiredAs(h, n),
         FlightFits(h), Linked(h), Aimed(h, t), Tracked(h, x, T, t)
  PROVE  /\ HookFits(n, x, T, t)
         /\ \A g \in Path \X Token : g = <<n.key, t>> /\ T[g] # Nil /\ T[g].owner = x =>
              /\ Blocker(n) # 0
              /\ \E i \in ReadId : Root(n, i) /\ n.reads[i].get = g /\ ForRetired(n, i)
<1>1. /\ h.flight \in ReadId \cup {0} /\ h.retired \in ReadId \cup {0} /\ 0 \notin ReadId
      /\ \A i \in ReadId : h.reads[i] # Nil => h.reads[i].behind \in ReadId \cup {0}
  BY SlotTyped
<1>2. Linked(n)
  <2>1. n.retired # 0 => n.reads[n.retired] # Nil
    BY <1>1 DEF Linked, FlightFits, RetiredAs
  <2>2. ASSUME NEW i \in ReadId, n.reads[i] # Nil, n.reads[i].behind # 0
        PROVE  n.reads[n.reads[i].behind] # Nil /\ n.reads[n.reads[i].behind].key = n.reads[i].key
    <3> DEFINE b == h.reads[i].behind
    <3>1. b \in ReadId /\ n.reads[i].behind = b /\ h.reads[b] # Nil /\ h.reads[b].key = h.reads[i].key
      BY <1>1, <2>2 DEF Linked, RetiredAs
    <3> QED  BY <2>2, <3>1 DEF RetiredAs
  <2> QED  BY <2>1, <2>2 DEF Linked
<1>3. FlightFits(n)
  BY <1>1 DEF FlightFits, RetiredAs
<1>4. Aimed(n, t)
  BY DEF Aimed, Root, RetiredAs
<1>5. ASSUME NEW g \in Path \X Token, g = <<n.key, t>>, T[g] # Nil, T[g].owner = x
      PROVE  /\ Blocker(n) # 0
             /\ \E i \in ReadId : Root(n, i) /\ n.reads[i].get = g /\ ForRetired(n, i)
  <2>1. PICK i \in ReadId : /\ Root(h, i) /\ h.reads[i].get = g /\ h.reads[i].key = h.key
                            /\ Blocker(h) # 0 => ForRetired(h, i)
                            /\ Blocker(h) = 0 => i = h.flight /\ i # h.retired
    BY <1>5, OwnGet DEF RetiredAs
  <2>2. Root(n, i) /\ n.reads[i].get = g
    BY <2>1 DEF Root, RetiredAs
  <2>3. CASE h.flight # 0
    <3>1. n.retired = h.flight /\ Blocker(n) = h.flight
      BY <1>1, <2>3 DEF Blocker, RetiredAs, FlightFits
    <3>2. ASSUME NEW S \in SUBSET ReadId, n.retired \in S \cup {0},
                 \A j \in S : n.reads[j] # Nil => n.reads[j].behind \in S \cup {0}
          PROVE  i \in S
      <4>1. h.flight \in S
        BY <2>3, <3>1, <3>2
      <4>2. \A j \in S : h.reads[j] # Nil => h.reads[j].behind \in S \cup {0}
        BY <3>2 DEF RetiredAs
      <4>3. CASE Blocker(h) = 0
        BY <2>1, <4>1, <4>3
      <4>4. CASE Blocker(h) # 0
        <5>1. Blocker(h) = h.retired
          BY <4>4 DEF Blocker
        <5>2. h.retired \in S \cup {0}
          BY <2>3, <4>1, <4>2, <5>1 DEF FlightFits
        <5> QED  BY <2>1, <4>2, <4>4, <5>2 DEF ForRetired
      <4> QED  BY <4>3, <4>4
    <3> QED  BY <2>2, <2>3, <3>1, <3>2 DEF ForRetired
  <2>4. CASE h.flight = 0
    <3>1. n.retired = h.retired /\ Blocker(h) # 0
      BY <1>1, <2>1, <2>4 DEF RetiredAs
    <3>2. h.retired \in ReadId /\ h.reads[h.retired] # Nil /\ h.reads[h.retired].key = h.key
      BY <1>1, <3>1 DEF Blocker, Linked
    <3>3. Blocker(n) # 0
      BY <1>1, <3>1, <3>2 DEF Blocker, RetiredAs
    <3>4. ForRetired(n, i)
      <4> SUFFICES ASSUME NEW S \in SUBSET ReadId, n.retired \in S \cup {0},
                          \A j \in S : n.reads[j] # Nil => n.reads[j].behind \in S \cup {0}
                   PROVE  i \in S
        BY DEF ForRetired
      <4>1. \A j \in S : h.reads[j] # Nil => h.reads[j].behind \in S \cup {0}
        BY DEF RetiredAs
      <4> QED  BY <2>1, <3>1, <4>1 DEF ForRetired
    <3> QED  BY <2>2, <3>3, <3>4
  <2> QED  BY <2>3, <2>4
<1>6. Tracked(n, x, T, t)
  <2>1. ASSUME NEW i \in ReadId, ForRetired(n, i) PROVE Matters(n, i)
    BY <2>1 DEF ForRetired, Matters, WaitsIn
  <2> QED  BY <1>5, <2>1 DEF Tracked
<1>7. ShownIsFresh(n, x, T)
  BY DEF ShownIsFresh, RetiredAs
<1> QED  BY <1>2, <1>3, <1>4, <1>5, <1>6, <1>7 DEF HookFits


\* A hook that fits a table fits another that has no more GETs of its own, all
\* those of others, and for what it shows none that is older.
LEMMA TableFits ==
  ASSUME NEW h \in Slots, NEW x, NEW T, NEW U, NEW t, HookFits(h, x, T, t),
         \A g \in Path \X Token :
           /\ U[g] # Nil /\ U[g].owner = x => T[g] # Nil /\ T[g].owner = x
           /\ T[g] # Nil /\ T[g].owner # x => U[g] # Nil /\ U[g].owner # x
           /\ h.live /\ g[1] = h.key /\ (T[g] = Nil \/ T[g].age \in {Nil, "new", "old"})
                => U[g] = Nil \/ U[g].age \in {Nil, "new", "old"}
  PROVE  HookFits(h, x, U, t)
<1>1. Tracked(h, x, U, t)
  BY DEF HookFits, Tracked
<1>2. ShownIsFresh(h, x, U)
  <2> SUFFICES ASSUME h.live, Root(h, h.flight)
               PROVE  LET r == h.reads[h.flight] IN
                      IF r.joined THEN U[r.get] # Nil /\ U[r.get].owner # x
                                  ELSE U[r.get] = Nil \/ U[r.get].age \in {Nil, "new", "old"}
    BY DEF ShownIsFresh
  <2> DEFINE r == h.reads[h.flight]
  <2>1. r.get \in Path \X Token /\ r.get[1] = h.key
    BY SlotTyped DEF HookFits, FlightFits, Aimed
  <2>2. IF r.joined THEN T[r.get] # Nil /\ T[r.get].owner # x
                    ELSE T[r.get] = Nil \/ T[r.get].age \in {Nil, "new", "old"}
    BY DEF HookFits, ShownIsFresh
  <2> HIDE DEF r
  <2>3. IF r.joined THEN U[r.get] # Nil /\ U[r.get].owner # x
                    ELSE U[r.get] = Nil \/ U[r.get].age \in {Nil, "new", "old"}
    BY <2>1, <2>2
  <2> QED  BY <2>3 DEF r
<1> QED  BY <1>1, <1>2 DEF HookFits

\* A hook that fits does so with a credential never used before.
LEMMA FreshCredentialFits ==
  ASSUME NEW h \in Slots, NEW x, NEW T, NEW t \in Token, NEW u \in Token, t < u, Past(T, t),
         HookFits(h, x, T, t)
  PROVE  HookFits(h, x, T, u) /\ Past(T, u)
<1>1. t \in Nat /\ u \in Nat /\ \A g \in Path \X Token : g[2] \in Nat
  BY ReadAssumption
<1>2. Past(T, u)
  BY <1>1 DEF Past
<1>3. Aimed(h, u)
  BY <1>1 DEF HookFits, Aimed
<1>4. Tracked(h, x, T, u)
  BY <1>1 DEF Past, Tracked
<1> QED  BY <1>2, <1>3, <1>4 DEF HookFits

\* Leaving a key disowns its GETs.
LEMMA LeftParts ==
  ASSUME TableTyped(table), NEW x \in Hook
  PROVE  /\ TableTyped(Left(x))
         /\ \A g \in Path \X Token :
              /\ Left(x)[g] = Nil <=> table[g] = Nil
              /\ table[g] # Nil => /\ Left(x)[g].age = table[g].age
                                   /\ Left(x)[g].owner # x
                                   /\ Left(x)[g].owner \in {table[g].owner, Nil}
<1> DEFINE Of(g) == IF table[g] # Nil /\ table[g].owner = x THEN [table[g] EXCEPT !.owner = Nil]
                                                           ELSE table[g]
<1>1. Left(x) = [g \in Path \X Token |-> Of(g)]
  BY DEF Left, TableTyped
<1>2. ASSUME NEW g \in Path \X Token
      PROVE  /\ Of(g) \in Gets \cup {Nil} /\ (Of(g) = Nil <=> table[g] = Nil)
             /\ table[g] # Nil => /\ Of(g).age = table[g].age /\ Of(g).owner # x
                                  /\ Of(g).owner \in {table[g].owner, Nil}
  <2>1. CASE table[g] # Nil /\ table[g].owner = x
    <3> DEFINE r == [table[g] EXCEPT !.owner = Nil]
    <3>1. table[g] \in Gets
      BY <2>1 DEF TableTyped
    <3>2. r \in Gets /\ r.age = table[g].age /\ r.owner = Nil
      BY <3>1 DEF Gets
    <3>3. Of(g) = r
      BY <2>1
    <3> HIDE DEF r, Of
    <3> QED  BY <2>1, <3>2, <3>3, ReadAssumption
  <2>2. CASE ~(table[g] # Nil /\ table[g].owner = x)
    BY <2>2 DEF TableTyped
  <2> QED  BY <2>1, <2>2
<1> HIDE DEF Of
<1> QED  BY <1>1, <1>2 DEF TableTyped

\* A GET that has grown older is the same GET.
LEMMA AgedGet ==
  ASSUME NEW v \in Gets, NEW F, NEW a \in Ages
  PROVE  LET n == [v EXCEPT !.age = Aged(@, F, a)] IN
         n \in Gets /\ n.owner = v.owner /\ n.age = IF v.age \in F THEN a ELSE v.age
<1>1. Aged(v.age, F, a) \in Ages \cup {Nil} /\ Aged(v.age, F, a) = IF v.age \in F THEN a ELSE v.age
  BY DEF Aged, Gets
<1> QED  BY <1>1 DEF Gets

\* And an answer that has grown older is still one.
LEMMA AgedAnswer ==
  ASSUME NEW v \in Answers \cup {Nil}, NEW F, Nil \notin F, NEW a \in Answers
  PROVE  /\ Aged(v, F, a) \in Answers \cup {Nil}
         /\ Aged(v, F, a) = Nil <=> v = Nil
BY ReadAssumption DEF Aged

LEMMA TableAgedParts ==
  ASSUME TableTyped(table), NEW K, NEW F, NEW a \in Ages
  PROVE  /\ TableTyped(TableAged(K, F, a))
         /\ \A g \in Path \X Token :
              /\ TableAged(K, F, a)[g] = Nil <=> table[g] = Nil
              /\ g[1] \notin K => TableAged(K, F, a)[g] = table[g]
              /\ table[g] # Nil =>
                   /\ TableAged(K, F, a)[g].owner = table[g].owner
                   /\ TableAged(K, F, a)[g].age =
                        IF g[1] \in K /\ table[g].age \in F THEN a ELSE table[g].age
<1> DEFINE Of(g) == IF g[1] \in K /\ table[g] # Nil THEN [table[g] EXCEPT !.age = Aged(@, F, a)]
                    ELSE table[g]
<1>1. TableAged(K, F, a) = [g \in Path \X Token |-> Of(g)]
  BY DEF TableAged, TableTyped
<1>2. ASSUME NEW g \in Path \X Token
      PROVE  /\ Of(g) \in Gets \cup {Nil} /\ (Of(g) = Nil <=> table[g] = Nil)
             /\ g[1] \notin K => Of(g) = table[g]
             /\ table[g] # Nil =>
                  /\ Of(g).owner = table[g].owner
                  /\ Of(g).age = IF g[1] \in K /\ table[g].age \in F THEN a ELSE table[g].age
  <2>1. table[g] \in Gets \cup {Nil} /\ Nil \notin Gets
    BY ReadAssumption DEF TableTyped
  <2>2. CASE g[1] \in K /\ table[g] # Nil
    <3> DEFINE n == [table[g] EXCEPT !.age = Aged(@, F, a)]
    <3>1. /\ n \in Gets /\ n.owner = table[g].owner
          /\ n.age = IF table[g].age \in F THEN a ELSE table[g].age
      BY <2>1, <2>2, AgedGet
    <3>2. Of(g) = n
      BY <2>2
    <3> HIDE DEF n, Of
    <3> QED  BY <2>1, <2>2, <3>1, <3>2
  <2>3. CASE ~(g[1] \in K /\ table[g] # Nil)
    BY <2>1, <2>3
  <2> QED  BY <2>2, <2>3
<1> HIDE DEF Of
<1> QED  BY <1>1, <1>2 DEF TableTyped

\* A hook whose answer has grown older is otherwise as it was.
LEMMA HooksAgedParts ==
  ASSUME hooks \in [Hook -> Slots], NEW K, NEW F, Nil \notin F, NEW a \in Answers
  PROVE  /\ HooksAged(K, F, a) \in [Hook -> Slots]
         /\ \A x \in Hook :
              LET h == hooks[x]
                  n == HooksAged(K, F, a)[x] IN
              /\ n.on = h.on /\ n.key = h.key /\ n.mode = h.mode /\ n.live = h.live
              /\ n.flight = h.flight /\ n.retired = h.retired /\ n.reads = h.reads
              /\ n.data = Nil <=> h.data = Nil
              /\ n.data = IF h.key \in K /\ h.data \in F THEN a ELSE h.data
<1> DEFINE d(x) == Aged(hooks[x].data, F, a)
           Of(x) == IF hooks[x].key \in K THEN [hooks[x] EXCEPT !.data = d(x)] ELSE hooks[x]
<1>1. HooksAged(K, F, a) = [x \in Hook |-> Of(x)]
  BY DEF HooksAged
<1>2. ASSUME NEW x \in Hook
      PROVE  LET h == hooks[x]
                 n == Of(x) IN
             /\ n \in Slots
             /\ n.on = h.on /\ n.key = h.key /\ n.mode = h.mode /\ n.live = h.live
             /\ n.flight = h.flight /\ n.retired = h.retired /\ n.reads = h.reads
             /\ n.data = Nil <=> h.data = Nil
             /\ n.data = IF h.key \in K /\ h.data \in F THEN a ELSE h.data
  <2>1. hooks[x] \in Slots /\ hooks[x].data \in Answers \cup {Nil}
    BY DEF Slots
  <2>2. /\ d(x) \in Answers \cup {Nil} /\ (d(x) = Nil <=> hooks[x].data = Nil)
        /\ d(x) = IF hooks[x].data \in F THEN a ELSE hooks[x].data
    BY <2>1, AgedAnswer DEF Aged
  <2> HIDE DEF d
  <2>3. CASE hooks[x].key \in K
    <3> DEFINE n == [hooks[x] EXCEPT !.data = d(x)]
    <3>1. /\ n \in Slots /\ n.data = d(x)
          /\ n.on = hooks[x].on /\ n.key = hooks[x].key /\ n.mode = hooks[x].mode /\ n.live = hooks[x].live
          /\ n.flight = hooks[x].flight /\ n.retired = hooks[x].retired /\ n.reads = hooks[x].reads
      BY <2>1, <2>2 DEF Slots
    <3>2. Of(x) = n
      BY <2>3
    <3> HIDE DEF n, Of
    <3> QED  BY <2>2, <2>3, <3>1, <3>2
  <2>4. CASE hooks[x].key \notin K
    BY <2>1, <2>4
  <2> QED  BY <2>3, <2>4
<1> HIDE DEF Of
<1> QED  BY <1>1, <1>2

\* Reads that may no longer be cached are otherwise as they were.
LEMMA UnfitParts ==
  ASSUME NEW h \in Slots
  PROVE  LET n == Unfit(h) IN
         /\ n \in Slots
         /\ n.on = h.on /\ n.key = h.key /\ n.data = h.data /\ n.mode = h.mode
         /\ n.live = h.live /\ n.flight = h.flight /\ n.retired = h.retired
         /\ Alike(h, n)
<1> DEFINE Of(i) == IF h.reads[i] = Nil THEN Nil ELSE [h.reads[i] EXCEPT !.fit = FALSE]
           q == [i \in ReadId |-> Of(i)]
<1>1. Unfit(h) = [h EXCEPT !.reads = q]
  BY DEF Unfit
<1>2. ASSUME NEW i \in ReadId
      PROVE  /\ Of(i) \in Reads \cup {Nil} /\ (Of(i) # Nil <=> h.reads[i] # Nil)
             /\ h.reads[i] # Nil =>
                  /\ Of(i).key = h.reads[i].key /\ Of(i).behind = h.reads[i].behind
                  /\ Of(i).get = h.reads[i].get /\ Of(i).joined = h.reads[i].joined
  <2>1. CASE h.reads[i] # Nil
    <3>1. h.reads[i] \in Reads /\ Nil \notin Reads
      BY <2>1, SlotTyped
    <3>2. [h.reads[i] EXCEPT !.fit = FALSE] \in Reads
      BY <3>1 DEF Reads
    <3> QED  BY <2>1, <3>1, <3>2 DEF Reads
  <2> QED  BY <2>1
<1> HIDE DEF Of
<1>3. q \in [ReadId -> Reads \cup {Nil}] /\ \A i \in ReadId : q[i] = Of(i)
  BY <1>2
<1> HIDE DEF q
<1>4. /\ Unfit(h) \in Slots /\ Unfit(h).reads = q
      /\ Unfit(h).on = h.on /\ Unfit(h).key = h.key /\ Unfit(h).data = h.data /\ Unfit(h).mode = h.mode
      /\ Unfit(h).live = h.live /\ Unfit(h).flight = h.flight /\ Unfit(h).retired = h.retired
  BY <1>1, <1>3 DEF Slots
<1> QED  BY <1>2, <1>3, <1>4 DEF Alike

-----------------------------------------------------------------------------
(* Every step of the read cache keeps ReadInv *)

Parts == /\ ReadTypeOK /\ TableTyped(table) /\ Past(table, token)
         /\ \A x \in Hook : /\ hooks[x] \in Slots /\ HookFits(hooks[x], x, table, token)
                            /\ AllMatter(hooks[x]) /\ Painted(hooks[x])
         /\ \A k \in Path : entries[k] \in Answers \cup {Nil} /\ Fresh(entries[k])

LEMMA InvParts == ReadInv => Parts
BY DEF ReadInv, Parts, ReadTypeOK, TableTyped

\* A step that sends nothing.
LEMMA KeepsInv ==
  ASSUME NEW T, TableTyped(T), NEW H \in [Hook -> Slots], NEW t \in Token,
         hooks' = H, table' = T, token' = t,
         Past(T, t), \A x \in Hook : HookFits(H[x], x, T, t) /\ AllMatter(H[x]) /\ Painted(H[x]),
         writes' \in [Edit -> Done \cup {Nil}],
         entries' \in [Path -> Answers \cup {Nil}], \A k \in Path : Fresh(entries'[k])
  PROVE  ReadInv'
<1>1. ReadTypeOK'
  BY DEF ReadTypeOK, TableTyped
<1>2. Past(table, token)'
  BY DEF Past
<1>3. ASSUME NEW x \in Hook PROVE HookFits(hooks[x], x, table, token)'
  <2>1. hooks'[x] = H[x] /\ HookFits(H[x], x, table', token')
    OBVIOUS
  <2>2. FlightFits(hooks[x])'
    BY <2>1 DEF HookFits, FlightFits, Blocker
  <2>3. Linked(hooks[x])'
    BY <2>1 DEF HookFits, Linked
  <2>4. Aimed(hooks[x], token)'
    BY <2>1 DEF HookFits, Aimed, Root
  <2>5. \A i \in ReadId : Root(H[x], i) /\ Matters(H[x], i) => Root(hooks[x], i)' /\ Matters(hooks[x], i)'
    BY <2>1 DEF Root, Matters, WaitsIn
  <2>6. Tracked(hooks[x], x, table, token)'
    BY <2>1, <2>5 DEF HookFits, Tracked
  <2>7. ShownIsFresh(hooks[x], x, table)'
    BY <2>1 DEF HookFits, ShownIsFresh, Root
  <2> QED  BY <2>2, <2>3, <2>4, <2>6, <2>7 DEF HookFits
<1>4. \A x \in Hook : (AllMatter(hooks[x]) /\ Painted(hooks[x]))'
  BY DEF AllMatter, Painted, Matters, WaitsIn
<1>5. \A k \in Path : Fresh(entries[k])'
  BY DEF Fresh
<1> QED  BY <1>1, <1>2, <1>3, <1>4, <1>5 DEF ReadInv

\* A step that sends what its hooks have begun to read.
LEMMA ChangeKeeps ==
  ASSUME NEW T, TableTyped(T), NEW H \in [Hook -> Slots], Change(H, T), token \in Token,
         Past(T, token), \A x \in Hook : HookFits(H[x], x, T, token) /\ AllMatter(H[x]) /\ Painted(H[x]),
         UNCHANGED token, writes' \in [Edit -> Done \cup {Nil}],
         entries' \in [Path -> Answers \cup {Nil}], \A k \in Path : Fresh(entries'[k])
  PROVE  ReadInv'
<1>1. /\ TableTyped(Sent(H, T)) /\ Past(Sent(H, T), token)
      /\ \A x \in Hook : HookFits(H[x], x, Sent(H, T), token)
  BY SentFits DEF TableTyped
<1>2. hooks' = H /\ table' = Sent(H, T)
  BY DEF Change
<1> QED  BY <1>1, <1>2, KeepsInv

\* The other hooks when x leaves its key, and the table.
LEMMA LeftFits ==
  ASSUME Parts, NEW x \in Hook
  PROVE  /\ TableTyped(Left(x)) /\ Past(Left(x), token)
         /\ \A y \in Hook : y # x => HookFits(hooks[y], y, Left(x), token)
<1>1. /\ TableTyped(Left(x))
      /\ \A g \in Path \X Token :
           /\ Left(x)[g] = Nil <=> table[g] = Nil
           /\ table[g] # Nil => /\ Left(x)[g].age = table[g].age
                                /\ Left(x)[g].owner # x
                                /\ Left(x)[g].owner \in {table[g].owner, Nil}
  BY LeftParts DEF Parts
<1>2. Past(Left(x), token)
  BY <1>1 DEF Parts, Past
<1>3. ASSUME NEW y \in Hook, y # x PROVE HookFits(hooks[y], y, Left(x), token)
  <2>1. hooks[y] \in Slots /\ HookFits(hooks[y], y, table, token) /\ y # Nil
    BY ReadAssumption DEF Parts
  <2> QED  BY <1>1, <2>1, TableFits
<1> QED  BY <1>1, <1>2, <1>3

LEMMA ShowHolds ==
  ASSUME ReadInv, NEW x \in Hook, NEW k \in Path, NEW h \in Slots,
         Linked(h), Aimed(h, token), Show(x, k, h)
  PROVE  ReadInv'
<1> DEFINE m == IF entries[k] = Nil THEN "loading" ELSE "refreshing"
           seen == [h EXCEPT !.on = TRUE, !.key = k, !.data = entries[k], !.mode = m]
           T == Left(x)
           n == Begin(seen, x, T)
           H == [hooks EXCEPT ![x] = n]
<1>1. Parts /\ token \in Token /\ hooks \in [Hook -> Slots] /\ entries \in [Path -> Answers \cup {Nil}]
      /\ writes \in [Edit -> Done \cup {Nil}]
  BY InvParts DEF ReadInv, ReadTypeOK
<1>2. Room(h) /\ Change(H, T) /\ UNCHANGED <<token, writes, entries>>
  BY DEF Show
<1>3. /\ seen \in Slots /\ seen.on = TRUE /\ seen.key = k /\ seen.data = entries[k] /\ seen.mode = m
      /\ seen.reads = h.reads /\ seen.retired = h.retired /\ seen.flight = h.flight
  BY <1>1 DEF Slots
<1>4. m # "error" /\ m # "ok"
  OBVIOUS
<1> HIDE DEF seen, m
<1>5. Linked(seen) /\ Aimed(seen, token) /\ Room(seen)
  BY <1>2, <1>3 DEF Linked, Aimed, Root, Room
<1>6. /\ TableTyped(T) /\ Past(T, token)
      /\ \A y \in Hook : y # x => HookFits(hooks[y], y, T, token)
      /\ \A g \in Path \X Token : T[g] # Nil => T[g].owner # x
  BY <1>1, LeftFits, LeftParts DEF Parts
<1> HIDE DEF T
<1>7. /\ n \in Slots /\ n.on = TRUE /\ n.key = k /\ n.data = entries[k] /\ n.mode = m
      /\ HookFits(n, x, T, token) /\ AllMatter(n)
  BY <1>1, <1>3, <1>4, <1>5, <1>6, BeginFits
<1> HIDE DEF n
<1>8. Painted(n)
  BY <1>1, <1>4, <1>7, SlotTyped DEF Painted, Parts, Fresh
<1>9. H \in [Hook -> Slots] /\ \A y \in Hook : HookFits(H[y], y, T, token) /\ AllMatter(H[y]) /\ Painted(H[y])
  BY <1>1, <1>6, <1>7, <1>8 DEF Parts
<1> HIDE DEF H
<1>10. \A j \in Path : Fresh(entries'[j])
  BY <1>1, <1>2 DEF Parts
<1> QED  BY <1>1, <1>2, <1>6, <1>9, <1>10, ChangeKeeps DEF Parts

\* The same, for a hook that is mounted, enabled again, or given another key.
LEMMA ShownHolds ==
  ASSUME ReadInv, NEW x \in Hook, NEW k \in Path, Mount(x, k) \/ Enable(x, k) \/ Rekey(x, k)
  PROVE  ReadInv'
<1>1. hooks[x] \in Slots /\ Linked(hooks[x]) /\ Aimed(hooks[x], token)
  BY InvParts DEF Parts, HookFits
<1>2. Closed \in Slots /\ Linked(Closed) /\ Aimed(Closed, token)
  BY DEF Closed, Slots, Linked, Aimed, Root
<1> QED  BY <1>1, <1>2, ShowHolds DEF Mount, Enable, Rekey

LEMMA DisableHolds ==
  ASSUME ReadInv, NEW x \in Hook, Disable(x)
  PROVE  ReadInv'
<1> DEFINE h == [hooks[x] EXCEPT !.on = FALSE, !.live = FALSE, !.data = Nil, !.mode = "loading"]
           T == Left(x)
           n == Tidy(h)
           H == [hooks EXCEPT ![x] = n]
<1>1. Parts /\ token \in Token /\ hooks \in [Hook -> Slots] /\ entries \in [Path -> Answers \cup {Nil}]
      /\ writes \in [Edit -> Done \cup {Nil}]
  BY InvParts DEF ReadInv, ReadTypeOK
<1>2. Change(H, T) /\ UNCHANGED <<token, writes, entries>>
  BY DEF Disable
<1>3. /\ h \in Slots /\ h.on = FALSE /\ h.live = FALSE
      /\ h.key = hooks[x].key /\ h.reads = hooks[x].reads
      /\ h.retired = hooks[x].retired /\ h.flight = hooks[x].flight
  <2> DEFINE c == hooks[x]
  <2>1. c \in Slots
    BY <1>1
  <2>2. h = [c EXCEPT !.on = FALSE, !.live = FALSE, !.data = Nil, !.mode = "loading"]
    OBVIOUS
  <2> DEFINE d == [c EXCEPT !.on = FALSE, !.live = FALSE]
  <2> HIDE DEF c, h, n, H
  <2>3. /\ d \in Slots /\ d.on = FALSE /\ d.live = FALSE
        /\ d.key = c.key /\ d.reads = c.reads /\ d.retired = c.retired /\ d.flight = c.flight
    BY <2>1 DEF Slots
  <2>4. h = [d EXCEPT !.data = Nil, !.mode = "loading"]
    BY <2>1, <2>2 DEF Slots
  <2> HIDE DEF d
  <2>5. /\ h \in Slots /\ h.on = d.on /\ h.live = d.live
        /\ h.key = d.key /\ h.reads = d.reads /\ h.retired = d.retired /\ h.flight = d.flight
    BY <2>3, <2>4 DEF Slots
  <2> QED  BY <2>3, <2>5 DEF c
<1> HIDE DEF h
<1>4. /\ TableTyped(T) /\ Past(T, token)
      /\ \A y \in Hook : y # x => HookFits(hooks[y], y, T, token)
      /\ \A g \in Path \X Token : T[g] # Nil => T[g].owner # x
  BY <1>1, LeftFits, LeftParts DEF Parts
<1> HIDE DEF T
<1>5. HookFits(h, x, T, token)
  <2>1. FlightFits(hooks[x]) /\ Linked(hooks[x]) /\ Aimed(hooks[x], token)
    BY <1>1 DEF Parts, HookFits
  <2>2. Linked(h)
    BY <1>3, <2>1 DEF Linked
  <2>3. Aimed(h, token)
    BY <1>3, <2>1 DEF Aimed, Root
  <2>4. FlightFits(h)
    BY <1>3, <2>1 DEF FlightFits, Blocker
  <2>5. Tracked(h, x, T, token) /\ ShownIsFresh(h, x, T)
    BY <1>3, <1>4 DEF Tracked, ShownIsFresh
  <2> QED  BY <2>2, <2>3, <2>4, <2>5 DEF HookFits
<1>6. n \in Slots /\ n.on = FALSE /\ HookFits(n, x, T, token) /\ AllMatter(n)
  BY <1>3, <1>5, TidyFits, TidyParts
<1> HIDE DEF n
<1>7. H \in [Hook -> Slots] /\ \A y \in Hook : HookFits(H[y], y, T, token) /\ AllMatter(H[y]) /\ Painted(H[y])
  BY <1>1, <1>4, <1>6 DEF Parts, Painted
<1> HIDE DEF H
<1>8. \A j \in Path : Fresh(entries'[j])
  BY <1>1, <1>2 DEF Parts
<1> QED  BY <1>1, <1>2, <1>4, <1>7, <1>8, ChangeKeeps DEF Parts


LEMMA ReloadHolds ==
  ASSUME ReadInv, NEW x \in Hook, Reload(x)
  PROVE  ReadInv'
<1> DEFINE h == [hooks[x] EXCEPT !.mode = "loading"]
           n == Begin(h, x, table)
           H == [hooks EXCEPT ![x] = n]
<1>1. Parts /\ token \in Token /\ hooks \in [Hook -> Slots] /\ entries \in [Path -> Answers \cup {Nil}]
      /\ writes \in [Edit -> Done \cup {Nil}]
  BY InvParts DEF ReadInv, ReadTypeOK
<1>2. hooks[x].on /\ Room(hooks[x]) /\ Change(H, table) /\ UNCHANGED <<token, writes, entries>>
  BY <1>1 DEF Reload
<1>3. /\ h \in Slots /\ h.mode = "loading" /\ h.on = hooks[x].on /\ h.live = hooks[x].live
      /\ h.key = hooks[x].key /\ h.reads = hooks[x].reads /\ h.data = hooks[x].data
      /\ h.retired = hooks[x].retired /\ h.flight = hooks[x].flight
  BY <1>1 DEF Slots
<1> HIDE DEF h
<1>4. Room(h) /\ h.on /\ h.key \in Path
  BY <1>1, <1>2, <1>3, SlotTyped DEF Parts, Painted, Room
<1>5. HookFits(h, x, table, token)
  <2>1. Alike(hooks[x], h)
    BY <1>3 DEF Alike
  <2> QED  BY <1>1, <1>3, <2>1, AlikeFits DEF Parts
<1>6. ASSUME NEW g \in Path \X Token, g = <<h.key, token>>, table[g] # Nil, table[g].owner = x
      PROVE  /\ Blocker(h) # 0 =>
                  \E i \in ReadId : Root(h, i) /\ h.reads[i].get = g /\ ForRetired(h, i)
             /\ Blocker(h) = 0 => table[g].age \in {Nil, "new", "old"}
  <2>1. PICK i \in ReadId :
          /\ Root(h, i) /\ h.reads[i].get = g
          /\ Blocker(h) # 0 => ForRetired(h, i)
          /\ Blocker(h) = 0 => i = h.flight /\ i # h.retired
    BY <1>3, <1>5, <1>6, OwnGet DEF HookFits
  <2>2. ASSUME Blocker(h) = 0 PROVE table[g].age \in {Nil, "new", "old"}
    <3>1. h.live
      BY <1>3, <1>4, <1>5, <2>1, <2>2, SlotTyped DEF HookFits, FlightFits
    <3> QED  BY <1>5, <1>6, <2>1, <2>2, <3>1 DEF HookFits, ShownIsFresh
  <2> QED  BY <2>1, <2>2
<1>7. /\ n \in Slots /\ n.on = h.on /\ n.key = h.key /\ n.data = h.data /\ n.mode = h.mode
      /\ HookFits(n, x, table, token) /\ AllMatter(n)
  BY <1>1, <1>3, <1>4, <1>5, <1>6, BeginFits DEF HookFits
<1> HIDE DEF n
<1>8. Painted(n)
  BY <1>1, <1>2, <1>3, <1>7 DEF Painted, Parts
<1>9. H \in [Hook -> Slots]
      /\ \A y \in Hook : HookFits(H[y], y, table, token) /\ AllMatter(H[y]) /\ Painted(H[y])
  BY <1>1, <1>7, <1>8 DEF Parts
<1> HIDE DEF H
<1>10. \A j \in Path : Fresh(entries'[j])
  BY <1>1, <1>2 DEF Parts
<1> QED  BY <1>1, <1>2, <1>9, <1>10, ChangeKeeps DEF Parts

\* Somebody else asks, and the server reads what it will answer.
LEMMA AskReadHolds ==
  ASSUME ReadInv, NEW g \in Path \X Token, Ask(g) \/ Read(g)
  PROVE  ReadInv'
<1> DEFINE v == IF Ask(g) THEN [age |-> Nil, owner |-> Nil] ELSE [table[g] EXCEPT !.age = "new"]
           T == [table EXCEPT ![g] = v]
<1>1. Parts /\ token \in Token /\ hooks \in [Hook -> Slots] /\ entries \in [Path -> Answers \cup {Nil}]
      /\ writes \in [Edit -> Done \cup {Nil}]
  BY InvParts DEF ReadInv, ReadTypeOK
<1>2. hooks' = hooks /\ table' = T /\ token' = token /\ entries' = entries /\ writes' = writes
  BY DEF Ask, Read
<1>3. /\ v \in Gets /\ v.age \in {Nil, "new"} /\ v # Nil
      /\ \/ table[g] = Nil /\ v.owner = Nil /\ g[2] = token
         \/ table[g] # Nil /\ v.owner = table[g].owner
  <2>1. CASE Ask(g)
    BY <2>1, ReadAssumption DEF Ask, Gets
  <2>2. CASE ~Ask(g)
    <3>1. table[g] \in Gets /\ table[g] # Nil
      BY <1>1, <2>2 DEF Read, Parts, TableTyped
    <3>2. [table[g] EXCEPT !.age = "new"] \in Gets /\ [table[g] EXCEPT !.age = "new"].age = "new"
          /\ [table[g] EXCEPT !.age = "new"].owner = table[g].owner
      BY <3>1 DEF Gets, Ages
    <3> QED  BY <2>2, <3>1, <3>2, ReadAssumption
  <2> QED  BY <2>1, <2>2
<1> HIDE DEF v
<1>4. TableTyped(T) /\ T[g] = v /\ \A f \in Path \X Token : f # g => T[f] = table[f]
  BY <1>1, <1>3 DEF Parts, TableTyped
<1> HIDE DEF T
<1>5. Past(T, token)
  <2>1. token <= token
    BY <1>1, ReadAssumption
  <2> QED  BY <1>1, <1>3, <1>4, <2>1 DEF Past, Parts
<1>6. ASSUME NEW x \in Hook PROVE HookFits(hooks[x], x, T, token)
  <2>1. hooks[x] \in Slots /\ HookFits(hooks[x], x, table, token) /\ x # Nil
    BY <1>1, ReadAssumption DEF Parts
  <2> QED  BY <1>3, <1>4, <2>1, TableFits
<1> QED  BY <1>1, <1>2, <1>4, <1>5, <1>6, KeepsInv DEF Parts

-----------------------------------------------------------------------------
(* The server moves on, and the cache hears of it *)

LEMMA WritesAgedTyped ==
  ASSUME writes \in [Edit -> Done \cup {Nil}], NEW K, NEW F, NEW a \in {"new", "old", "stray"}
  PROVE  WritesAged(K, F, a) \in [Edit -> Done \cup {Nil}]
<1> DEFINE Of(w) == IF writes[w] # Nil /\ writes[w].path \in K
                    THEN [writes[w] EXCEPT !.age = Aged(@, F, a)] ELSE writes[w]
<1>1. ASSUME NEW w \in Edit PROVE Of(w) \in Done \cup {Nil}
  <2>1. CASE writes[w] # Nil /\ writes[w].path \in K
    <3>1. writes[w] \in Done
      BY <2>1
    <3>2. Aged(writes[w].age, F, a) \in {"new", "old", "stray"}
      BY <3>1 DEF Aged, Done
    <3>3. [writes[w] EXCEPT !.age = Aged(@, F, a)] \in Done
      BY <3>1, <3>2 DEF Done
    <3> QED  BY <2>1, <3>3
  <2>2. CASE ~(writes[w] # Nil /\ writes[w].path \in K)
    BY <2>2
  <2> QED  BY <2>1, <2>2
<1> HIDE DEF Of
<1>2. [w \in Edit |-> Of(w)] \in [Edit -> Done \cup {Nil}]
  BY <1>1
<1>3. WritesAged(K, F, a) = [w \in Edit |-> Of(w)]
  BY DEF WritesAged, Of
<1> QED  BY <1>2, <1>3

LEMMA ToldTyped ==
  ASSUME ReadInv, NEW w \in Edit, NEW k
  PROVE  Told(w, k) \in [Edit -> Done \cup {Nil}]
<1>1. WritesAged({k}, {"old"}, "stray") \in [Edit -> Done \cup {Nil}]
  BY WritesAgedTyped DEF ReadInv, ReadTypeOK
<1> HIDE DEF WritesAged
<1> QED  BY <1>1 DEF Told

\* The cache, the hooks and the table once the server has moved on; with another
\* person it has for the GETs that it did not yet read, too.
LEMMA MoveOnHolds ==
  ASSUME ReadInv, NEW K, NEW F \in SUBSET {Nil, "new"},
         table' = TableAged(K, F, "old"), hooks' = HooksAged(K, {"new"}, "old"),
         entries' = [k \in Path |-> IF k \in K THEN Aged(entries[k], {"new"}, "old") ELSE entries[k]],
         NEW t \in Token, token' = t, t > token \/ t = token,
         writes' \in [Edit -> Done \cup {Nil}]
  PROVE  ReadInv'
<1> DEFINE G == {"new"}
           T == TableAged(K, F, "old")
           H == HooksAged(K, G, "old")
<1>1. Parts /\ token \in Token /\ hooks \in [Hook -> Slots] /\ entries \in [Path -> Answers \cup {Nil}]
  BY InvParts DEF ReadInv, ReadTypeOK
<1>2. hooks' = H /\ table' = T
      /\ entries' = [k \in Path |-> IF k \in K THEN Aged(entries[k], G, "old") ELSE entries[k]]
  OBVIOUS
<1>3. "old" \in Ages /\ "old" \in Answers /\ Nil \notin G
  BY NilIsNoAge DEF Ages, Answers
<1> HIDE DEF G
<1>4. /\ TableTyped(T)
      /\ \A g \in Path \X Token :
           /\ T[g] = Nil <=> table[g] = Nil
           /\ table[g] # Nil =>
                /\ T[g].owner = table[g].owner
                /\ T[g].age = IF g[1] \in K /\ table[g].age \in F THEN "old" ELSE table[g].age
  BY <1>1, <1>3, TableAgedParts DEF Parts
<1>5. /\ H \in [Hook -> Slots]
      /\ \A x \in Hook :
           LET h == hooks[x]
               n == H[x] IN
           /\ n.on = h.on /\ n.key = h.key /\ n.mode = h.mode /\ n.live = h.live
           /\ n.flight = h.flight /\ n.retired = h.retired /\ n.reads = h.reads
           /\ n.data = IF h.key \in K /\ h.data \in G THEN "old" ELSE h.data
  BY <1>1, <1>3, HooksAgedParts
<1> HIDE DEF T, H
<1>6. Past(T, token)
  BY <1>1, <1>4 DEF Parts, Past
<1>7. ASSUME NEW x \in Hook
      PROVE  HookFits(H[x], x, T, token) /\ AllMatter(H[x]) /\ Painted(H[x])
  <2>1. /\ hooks[x] \in Slots /\ HookFits(hooks[x], x, table, token)
        /\ AllMatter(hooks[x]) /\ Painted(hooks[x])
    BY <1>1 DEF Parts
  <2>2. HookFits(hooks[x], x, T, token)
    BY <1>4, <2>1, TableFits
  <2>3. Alike(hooks[x], H[x]) /\ H[x] \in Slots
    BY <1>5 DEF Alike
  <2>4. Painted(H[x])
    BY <1>5, <2>1 DEF Painted
  <2> QED  BY <2>1, <2>2, <2>3, <2>4, AlikeFits, AlikeMatters
<1>8. Past(T, t) /\ \A x \in Hook : HookFits(H[x], x, T, t)
  <2>1. CASE t = token
    BY <1>6, <1>7, <2>1
  <2>2. CASE t > token
    <3>1. token < t
      BY <1>1, <2>2, ReadAssumption
    <3>2. Past(T, t)
      <4> SUFFICES ASSUME NEW g \in Path \X Token, T[g] # Nil PROVE g[2] <= t
        BY DEF Past
      <4>1. g[2] \in Nat /\ token \in Nat /\ t \in Nat /\ g[2] <= token
        BY <1>1, <1>6, ReadAssumption DEF Past
      <4> QED  BY <3>1, <4>1
    <3> QED  BY <1>1, <1>5, <1>6, <1>7, <3>1, <3>2, FreshCredentialFits
  <2> QED  BY <2>1, <2>2
<1>9. ASSUME NEW k \in Path PROVE entries'[k] \in Answers \cup {Nil} /\ Fresh(entries'[k])
  <2>1. entries[k] \in Answers \cup {Nil} /\ Fresh(entries[k])
    BY <1>1 DEF Parts
  <2>2. CASE k \in K
    <3>1. entries'[k] = Aged(entries[k], G, "old")
      BY <1>2, <2>2
    <3>2. entries'[k] \in Answers \cup {Nil}
      BY <1>3, <2>1, <3>1, AgedAnswer
    <3> QED  BY <2>1, <3>1, <3>2 DEF Aged, Fresh
  <2>3. CASE k \notin K
    BY <1>2, <2>1, <2>3
  <2> QED  BY <2>2, <2>3
<1>10. entries' \in [Path -> Answers \cup {Nil}]
  BY <1>2, <1>9
<1> QED  BY <1>2, <1>4, <1>5, <1>7, <1>8, <1>9, <1>10, KeepsInv


LEMMA RetireParts ==
  ASSUME NEW h \in Slots
  PROVE  LET n == Retire(h) IN
         /\ n \in Slots
         /\ n.on = h.on /\ n.key = h.key /\ n.data = h.data /\ n.mode = h.mode /\ n.reads = h.reads
         /\ n.live = FALSE /\ n.flight = h.flight
         /\ n.retired = IF h.flight # 0 THEN h.flight ELSE h.retired
BY DEF Retire, Slots

\* What an event aged: the hooks and the table it starts from.
LEMMA AgedParts ==
  ASSUME Parts, hooks \in [Hook -> Slots], NEW K, NEW F, NEW a \in Ages,
         NEW G, Nil \notin G, NEW b \in Answers
  PROVE  LET T == TableAged(K, F, a)
             H == HooksAged(K, G, b) IN
         /\ TableTyped(T) /\ Past(T, token)
         /\ \A x \in Hook : /\ H[x] \in Slots /\ Alike(hooks[x], H[x]) /\ H[x].mode = hooks[x].mode
                            /\ FlightFits(H[x]) /\ Linked(H[x]) /\ Aimed(H[x], token)
                            /\ Tracked(H[x], x, T, token)
                            /\ ~hooks[x].live \/ hooks[x].key \notin K => HookFits(H[x], x, T, token)
                            /\ AllMatter(H[x])
<1> DEFINE T == TableAged(K, F, a)
           H == HooksAged(K, G, b)
<1>1. /\ TableTyped(T)
      /\ \A g \in Path \X Token :
           /\ T[g] = Nil <=> table[g] = Nil
           /\ g[1] \notin K => T[g] = table[g]
           /\ table[g] # Nil => T[g].owner = table[g].owner
  BY TableAgedParts DEF Parts
<1>2. /\ H \in [Hook -> Slots]
      /\ \A x \in Hook : Alike(hooks[x], H[x]) /\ H[x].mode = hooks[x].mode
  BY HooksAgedParts DEF Alike
<1> HIDE DEF T, H
<1>3. Past(T, token)
  BY <1>1 DEF Parts, Past
<1>4. ASSUME NEW x \in Hook
      PROVE  /\ FlightFits(H[x]) /\ Linked(H[x]) /\ Aimed(H[x], token) /\ AllMatter(H[x])
             /\ Tracked(H[x], x, T, token)
             /\ ~hooks[x].live \/ hooks[x].key \notin K => HookFits(H[x], x, T, token)
  <2>1. hooks[x] \in Slots /\ HookFits(hooks[x], x, table, token) /\ AllMatter(hooks[x])
    BY DEF Parts
  <2>2. H[x] \in Slots /\ HookFits(H[x], x, table, token) /\ AllMatter(H[x])
    BY <1>2, <2>1, AlikeFits, AlikeMatters
  <2>3. Tracked(H[x], x, T, token)
    BY <1>1, <2>2 DEF HookFits, Tracked
  <2>4. H[x].live = hooks[x].live /\ H[x].key = hooks[x].key
    BY <1>2 DEF Alike
  <2>5. ASSUME ~hooks[x].live \/ hooks[x].key \notin K PROVE HookFits(H[x], x, T, token)
    BY <1>1, <2>2, <2>4, <2>5, TableFits
  <2> QED  BY <2>2, <2>3, <2>5 DEF HookFits
<1> QED  BY <1>1, <1>2, <1>3, <1>4 DEF T, H

\* A read retired by an event, and begun again.
LEMMA BegunAgain ==
  ASSUME NEW h \in Slots, NEW n \in Slots, NEW x, NEW T, token \in Token, RetiredAs(h, n),
         FlightFits(h), Linked(h), Aimed(h, token), Tracked(h, x, T, token),
         Room(h), n.on, n.key \in Path, n.mode # "error"
  PROVE  LET b == Begin(n, x, T) IN
         /\ b \in Slots /\ b.on = n.on /\ b.key = n.key /\ b.data = n.data /\ b.mode = n.mode
         /\ HookFits(b, x, T, token) /\ AllMatter(b)
<1>1. /\ HookFits(n, x, T, token)
      /\ \A g \in Path \X Token : g = <<n.key, token>> /\ T[g] # Nil /\ T[g].owner = x =>
           /\ Blocker(n) # 0
           /\ \E i \in ReadId : Root(n, i) /\ n.reads[i].get = g /\ ForRetired(n, i)
  BY RetiredFits
<1>2. Room(n)
  BY DEF Room, RetiredAs
<1> QED  BY <1>1, <1>2, BeginFits DEF HookFits

LEMMA InvalidateHolds ==
  ASSUME ReadInv, NEW o \in Edit, Invalidate(o), NEW k, k = writes[o].path
  PROVE  ReadInv'
<1> DEFINE G == {"old"}
           K == {k}
           A == HooksAged(K, G, "late")
           T == TableAged(K, {"old"}, "late")
           w(h) == IF h.data = Nil THEN "loading" ELSE "refreshing"
           m(x) == [Retire(Unfit(A[x])) EXCEPT !.mode = w(A[x])]
           n(x) == IF Concerns(hooks[x], k) THEN Begin(m(x), x, T) ELSE Unfit(A[x])
           H == [x \in Hook |-> n(x)]
<1>1. Parts /\ token \in Token /\ hooks \in [Hook -> Slots] /\ entries \in [Path -> Answers \cup {Nil}]
  BY InvParts DEF ReadInv, ReadTypeOK
<1>2. /\ writes[o] # Nil /\ \A x \in Hook : Concerns(hooks[x], k) => Room(hooks[x])
      /\ Change(H, T) /\ entries' = [entries EXCEPT ![k] = Nil] /\ UNCHANGED token
      /\ writes' = Told(o, k)
  BY DEF Invalidate
<1>a. writes' \in [Edit -> Done \cup {Nil}]
  BY <1>2, ToldTyped
<1>3. "late" \in Ages /\ "late" \in Answers /\ Nil \notin G
  BY NilIsNoAge DEF Ages, Answers
<1>k. \A v : v \in K <=> v = k
  OBVIOUS
<1> HIDE DEF G, K
<1>4. /\ TableTyped(T) /\ Past(T, token)
      /\ \A x \in Hook : /\ A[x] \in Slots /\ Alike(hooks[x], A[x]) /\ A[x].mode = hooks[x].mode
                         /\ FlightFits(A[x]) /\ Linked(A[x]) /\ Aimed(A[x], token)
                         /\ Tracked(A[x], x, T, token)
                         /\ ~hooks[x].live \/ hooks[x].key \notin K => HookFits(A[x], x, T, token)
                         /\ AllMatter(A[x])
  BY <1>1, <1>3, AgedParts
<1>5. \A x \in Hook :
        LET h == hooks[x] IN
        A[x].data = IF h.key \in K /\ h.data \in G THEN "late" ELSE h.data
  BY <1>1, <1>3, HooksAgedParts
<1> HIDE DEF A, T
<1>6. ASSUME NEW x \in Hook
      PROVE  n(x) \in Slots /\ HookFits(n(x), x, T, token) /\ AllMatter(n(x)) /\ Painted(n(x))
  <2> DEFINE h == hooks[x]
             u == Unfit(A[x])
  <2>1. h \in Slots /\ HookFits(h, x, table, token) /\ Painted(h)
    BY <1>1 DEF Parts
  <2>2. A[x].on = h.on /\ A[x].key = h.key /\ A[x].live = h.live
    BY <1>4 DEF Alike
  <2>3. /\ u \in Slots /\ u.on = h.on /\ u.key = h.key /\ u.data = A[x].data /\ u.mode = h.mode
        /\ Alike(A[x], u)
    BY <1>4, <2>2, UnfitParts
  <2>4. CASE Concerns(h, k)
    <3> DEFINE p == m(x)
               b == Begin(p, x, T)
    <3>1. /\ p \in Slots /\ p.on = h.on /\ p.key = h.key /\ p.data = A[x].data
          /\ p.mode \in {"loading", "refreshing"} /\ RetiredAs(A[x], p)
      <4> DEFINE r == Retire(u)
      <4>1. /\ r \in Slots
            /\ r.on = u.on /\ r.key = u.key /\ r.data = u.data /\ r.mode = u.mode /\ r.reads = u.reads
            /\ r.live = FALSE /\ r.flight = u.flight
            /\ r.retired = IF u.flight # 0 THEN u.flight ELSE u.retired
        BY <2>3, RetireParts
      <4> HIDE DEF r
      <4>2. p = [r EXCEPT !.mode = w(A[x])] /\ w(A[x]) \in {"loading", "refreshing"}
        BY DEF r
      <4> HIDE DEF p, w
      <4>3. /\ p \in Slots /\ p.on = r.on /\ p.key = r.key /\ p.data = r.data /\ p.reads = r.reads
            /\ p.live = r.live /\ p.flight = r.flight /\ p.retired = r.retired /\ p.mode = w(A[x])
        BY <4>1, <4>2 DEF Slots
      <4> QED  BY <2>2, <2>3, <4>1, <4>2, <4>3 DEF RetiredAs, Alike
    <3>2. Room(A[x]) /\ p.key \in Path
      <4>1. k \in Path
        BY <1>2 DEF ReadInv, ReadTypeOK, Done
      <4> QED  BY <1>2, <1>4, <2>4, <3>1, <4>1 DEF Room, Concerns, Alike
    <3> HIDE DEF m, p
    <3>3. /\ b \in Slots /\ b.on = p.on /\ b.key = p.key /\ b.data = p.data /\ b.mode = p.mode
          /\ HookFits(b, x, T, token) /\ AllMatter(b)
      BY <1>1, <1>4, <2>4, <3>1, <3>2, BegunAgain DEF Concerns
    <3>4. n(x) = b
      BY <2>4 DEF p
    <3> HIDE DEF b, n
    <3>5. Painted(b)
      BY <1>5, <2>1, <3>1, <3>3 DEF Painted
    <3> QED  BY <3>3, <3>4, <3>5
  <2>5. CASE ~Concerns(h, k)
    <3>1. n(x) = u
      BY <2>5
    <3>2. ~h.live \/ h.key \notin K
      BY <1>k, <2>1, <2>5 DEF HookFits, FlightFits, Concerns
    <3> HIDE DEF u, n, m
    <3>3. HookFits(u, x, T, token) /\ AllMatter(u)
      BY <1>4, <2>3, <3>2, AlikeFits, AlikeMatters
    <3>4. Painted(u)
      BY <1>k, <1>5, <2>1, <2>3, <2>5 DEF Painted, Concerns
    <3> QED  BY <2>3, <3>1, <3>3, <3>4
  <2> QED  BY <2>4, <2>5
<1> HIDE DEF n
<1>7. entries' \in [Path -> Answers \cup {Nil}] /\ \A j \in Path : Fresh(entries'[j])
  BY <1>1, <1>2, NilIsNoAge DEF Parts, Fresh
<1> QED  BY <1>1, <1>2, <1>a, <1>4, <1>6, <1>7, ChangeKeeps


LEMMA ReplaceHolds ==
  ASSUME ReadInv, NEW o \in Edit, Replace(o), NEW k, k = writes[o].path
  PROVE  ReadInv'
<1> DEFINE G == {"old"}
           K == {k}
           data == writes[o].age
           A == HooksAged(K, G, "late")
           T == TableAged(K, {"old"}, "late")
           m(x) == [Retire(A[x]) EXCEPT !.data = data, !.mode = "ok"]
           n(x) == IF A[x].on /\ A[x].key = k THEN Tidy(m(x)) ELSE A[x]
           H == [x \in Hook |-> n(x)]
<1>1. Parts /\ token \in Token /\ hooks \in [Hook -> Slots] /\ entries \in [Path -> Answers \cup {Nil}]
  BY InvParts DEF ReadInv, ReadTypeOK
<1>2. /\ Change(H, T) /\ entries' = [entries EXCEPT ![k] = data] /\ UNCHANGED token
      /\ writes[o] # Nil /\ writes' = Told(o, k)
  BY DEF Replace
<1>a. writes' \in [Edit -> Done \cup {Nil}]
  BY <1>2, ToldTyped
<1>b. k \in Path /\ data \in {"new", "old", "stray"}
  BY <1>2 DEF ReadInv, ReadTypeOK, Done
<1>3. "late" \in Ages /\ "late" \in Answers /\ Nil \notin G /\ data \in Answers /\ Fresh(data)
  BY <1>b, NilIsNoAge DEF Ages, Answers, Fresh
<1>k. \A v : v \in K <=> v = k
  OBVIOUS
<1> HIDE DEF G, K
<1> HIDE DEF data
<1>4. /\ TableTyped(T) /\ Past(T, token)
      /\ \A x \in Hook : /\ A[x] \in Slots /\ Alike(hooks[x], A[x]) /\ A[x].mode = hooks[x].mode
                         /\ FlightFits(A[x]) /\ Linked(A[x]) /\ Aimed(A[x], token)
                         /\ Tracked(A[x], x, T, token)
                         /\ ~hooks[x].live \/ hooks[x].key \notin K => HookFits(A[x], x, T, token)
                         /\ AllMatter(A[x])
  BY <1>1, <1>3, AgedParts
<1>5. \A x \in Hook : hooks[x].key \notin K => A[x].data = hooks[x].data
  BY <1>1, <1>3, HooksAgedParts
<1> HIDE DEF A, T
<1>6. ASSUME NEW x \in Hook
      PROVE  n(x) \in Slots /\ HookFits(n(x), x, T, token) /\ AllMatter(n(x)) /\ Painted(n(x))
  <2> DEFINE h == hooks[x]
  <2>1. h \in Slots /\ HookFits(h, x, table, token) /\ Painted(h)
    BY <1>1 DEF Parts
  <2>2. A[x].on = h.on /\ A[x].key = h.key /\ A[x].live = h.live
    BY <1>4 DEF Alike
  <2>3. CASE A[x].on /\ A[x].key = k
    <3> DEFINE p == m(x)
               r == Retire(A[x])
    <3>1. /\ r \in Slots
          /\ r.on = A[x].on /\ r.key = A[x].key /\ r.reads = A[x].reads
          /\ r.live = FALSE /\ r.flight = A[x].flight
          /\ r.retired = IF A[x].flight # 0 THEN A[x].flight ELSE A[x].retired
      BY <1>4, RetireParts
    <3> HIDE DEF r
    <3>2. p = [r EXCEPT !.data = data, !.mode = "ok"]
      BY DEF r
    <3> HIDE DEF p
    <3>3. /\ p \in Slots /\ p.on = r.on /\ p.key = r.key /\ p.data = data /\ p.reads = r.reads
          /\ p.live = r.live /\ p.flight = r.flight /\ p.retired = r.retired
      BY <1>3, <3>1, <3>2 DEF Slots
    <3>4. RetiredAs(A[x], p)
      BY <3>1, <3>3 DEF RetiredAs
    <3>5. HookFits(p, x, T, token)
      BY <1>4, <3>3, <3>4, RetiredFits
    <3>6. /\ Tidy(p) \in Slots /\ HookFits(Tidy(p), x, T, token) /\ AllMatter(Tidy(p))
          /\ Tidy(p).key = p.key /\ Tidy(p).data = p.data
      BY <3>3, <3>5, TidyFits, TidyParts
    <3>7. n(x) = Tidy(p)
      BY <2>3 DEF p
    <3> HIDE DEF n
    <3>8. Painted(Tidy(p))
      BY <1>b, <1>3, <2>3, <3>1, <3>3, <3>6, ReadAssumption DEF Painted
    <3> QED  BY <3>6, <3>7, <3>8
  <2>4. CASE ~(A[x].on /\ A[x].key = k)
    <3>1. n(x) = A[x]
      BY <2>4
    <3>2. ~h.live \/ h.key \notin K
      BY <1>k, <2>1, <2>2, <2>4 DEF HookFits, FlightFits
    <3> HIDE DEF n, m
    <3>3. Painted(A[x])
      BY <1>k, <1>4, <1>5, <2>1, <2>2, <2>4 DEF Painted
    <3> QED  BY <1>4, <3>1, <3>2, <3>3
  <2> QED  BY <2>3, <2>4
<1> HIDE DEF n
<1>7. entries' \in [Path -> Answers \cup {Nil}] /\ \A j \in Path : Fresh(entries'[j])
  BY <1>1, <1>2, <1>3 DEF Parts
<1> QED  BY <1>1, <1>2, <1>a, <1>4, <1>6, <1>7, ChangeKeeps

LEMMA ClearHolds ==
  ASSUME ReadInv, NEW refetch \in BOOLEAN, Clear(refetch)
  PROVE  ReadInv'
<1> DEFINE G == {"old", "late"}
           A == HooksAged(Path, G, "alien")
           T == TableAged(Path, {"old"}, "late")
           e(x) == [Retire(Unfit(A[x])) EXCEPT !.data = Nil, !.mode = "loading"]
           n(x) == IF ~A[x].on THEN Unfit(A[x])
                   ELSE IF refetch THEN Begin(e(x), x, T)
                   ELSE Tidy(e(x))
           H == [x \in Hook |-> n(x)]
<1>1. Parts /\ token \in Token /\ hooks \in [Hook -> Slots] /\ entries \in [Path -> Answers \cup {Nil}]
  BY InvParts DEF ReadInv, ReadTypeOK
<1>2. /\ refetch => \A x \in Hook : hooks[x].on => Room(hooks[x])
      /\ Change(H, T) /\ entries' = [k \in Path |-> Nil] /\ UNCHANGED token
      /\ writes' = WritesAged(Path, {"old"}, "stray")
  BY DEF Clear
<1>a. writes' \in [Edit -> Done \cup {Nil}]
  BY <1>2, WritesAgedTyped DEF ReadInv, ReadTypeOK
<1>3. "late" \in Ages /\ "alien" \in Answers /\ Nil \notin G
  BY NilIsNoAge DEF Ages, Answers
<1> HIDE DEF G
<1>4. /\ TableTyped(T) /\ Past(T, token)
      /\ \A x \in Hook : /\ A[x] \in Slots /\ Alike(hooks[x], A[x]) /\ A[x].mode = hooks[x].mode
                         /\ FlightFits(A[x]) /\ Linked(A[x]) /\ Aimed(A[x], token)
                         /\ Tracked(A[x], x, T, token)
                         /\ ~hooks[x].live \/ hooks[x].key \notin Path => HookFits(A[x], x, T, token)
                         /\ AllMatter(A[x])
  BY <1>1, <1>3, AgedParts
<1> HIDE DEF A, T
<1>5. ASSUME NEW x \in Hook
      PROVE  n(x) \in Slots /\ HookFits(n(x), x, T, token) /\ AllMatter(n(x)) /\ Painted(n(x))
  <2> DEFINE h == hooks[x]
             u == Unfit(A[x])
  <2>1. h \in Slots /\ HookFits(h, x, table, token) /\ Painted(h)
    BY <1>1 DEF Parts
  <2>2. A[x].on = h.on /\ A[x].key = h.key /\ A[x].live = h.live
    BY <1>4 DEF Alike
  <2>3. u \in Slots /\ u.on = h.on /\ u.key = h.key /\ Alike(A[x], u)
    BY <1>4, <2>2, UnfitParts
  <2>4. CASE A[x].on
    <3> DEFINE p == e(x)
    <3>1. /\ p \in Slots /\ p.on = h.on /\ p.key = h.key /\ p.data = Nil /\ p.mode = "loading"
          /\ RetiredAs(A[x], p)
      <4> DEFINE r == Retire(u)
      <4>1. /\ r \in Slots
            /\ r.on = u.on /\ r.key = u.key /\ r.reads = u.reads
            /\ r.live = FALSE /\ r.flight = u.flight
            /\ r.retired = IF u.flight # 0 THEN u.flight ELSE u.retired
        BY <2>3, RetireParts
      <4> HIDE DEF r
      <4>2. p = [r EXCEPT !.data = Nil, !.mode = "loading"]
        BY DEF r
      <4> HIDE DEF p
      <4>3. /\ p \in Slots /\ p.on = r.on /\ p.key = r.key /\ p.data = Nil /\ p.mode = "loading"
            /\ p.live = r.live /\ p.flight = r.flight /\ p.retired = r.retired /\ p.reads = r.reads
        BY <4>1, <4>2 DEF Slots
      <4> QED  BY <2>2, <2>3, <4>1, <4>3 DEF RetiredAs, Alike
    <3>2. p.on /\ p.key # Nil /\ p.key \in Path
      BY <2>1, <2>2, <2>4, <3>1, SlotTyped DEF Painted
    <3>3. n(x) = IF refetch THEN Begin(p, x, T) ELSE Tidy(p)
      BY <2>4 DEF p
    <3> HIDE DEF e, n, p
    <3>4. CASE refetch
      <4> DEFINE b == Begin(p, x, T)
      <4>1. Room(A[x])
        BY <1>2, <1>4, <2>2, <2>4, <3>4 DEF Room, Alike
      <4>2. /\ b \in Slots /\ b.key = p.key /\ b.data = p.data
            /\ HookFits(b, x, T, token) /\ AllMatter(b)
        BY <1>1, <1>4, <3>1, <3>2, <4>1, BegunAgain
      <4> HIDE DEF b
      <4>3. Painted(b)
        BY <3>1, <3>2, <4>2, NilIsNoAge DEF Painted
      <4> QED  BY <3>3, <3>4, <4>2, <4>3 DEF b
    <3>5. CASE ~refetch
      <4>1. HookFits(p, x, T, token)
        BY <1>4, <3>1, RetiredFits
      <4>2. /\ Tidy(p) \in Slots /\ HookFits(Tidy(p), x, T, token) /\ AllMatter(Tidy(p))
            /\ Tidy(p).key = p.key /\ Tidy(p).data = p.data
        BY <3>1, <4>1, TidyFits, TidyParts
      <4>3. Painted(Tidy(p))
        BY <3>1, <3>2, <4>2, NilIsNoAge DEF Painted
      <4> QED  BY <3>3, <3>5, <4>2, <4>3
    <3> QED  BY <3>4, <3>5
  <2>5. CASE ~A[x].on
    <3>1. n(x) = u
      BY <2>5
    <3>2. ~h.live
      BY <2>1, <2>2, <2>5 DEF HookFits, FlightFits
    <3> HIDE DEF u, n, e
    <3>3. HookFits(u, x, T, token) /\ AllMatter(u)
      BY <1>4, <2>3, <3>2, AlikeFits, AlikeMatters
    <3>4. Painted(u)
      BY <2>2, <2>3, <2>5 DEF Painted
    <3> QED  BY <2>3, <3>1, <3>3, <3>4
  <2> QED  BY <2>4, <2>5
<1> HIDE DEF n
<1>6. entries' \in [Path -> Answers \cup {Nil}] /\ \A j \in Path : Fresh(entries'[j])
  BY <1>2, NilIsNoAge DEF Fresh
<1> QED  BY <1>1, <1>2, <1>a, <1>4, <1>5, <1>6, ChangeKeeps


-----------------------------------------------------------------------------
(* A GET lands *)

\* h is c with other data, which drops the read in flight if that is an error.
Repainted(c, h, L) ==
  /\ h.on = c.on /\ h.key = c.key /\ h.live = c.live /\ h.flight = c.flight /\ h.retired = c.retired
  /\ h.reads = c.reads
  /\ h.mode = "error" => c.mode = "error" \/ c.flight \in L

\* The reads L of c have settled, and n is left: those that waited for one are sent.
Settled(c, n, x, L, T) ==
  /\ n.on = c.on /\ n.key = c.key
  /\ n.flight = IF c.flight \in L THEN 0 ELSE c.flight
  /\ n.retired = IF c.retired \in L THEN 0 ELSE c.retired
  /\ n.live = (c.live /\ c.flight \notin L)
  /\ \A i \in ReadId : n.reads[i] # Nil <=> c.reads[i] # Nil /\ i \notin L
  /\ \A i \in ReadId : n.reads[i] # Nil => n.reads[i].key = c.reads[i].key
  /\ \A i \in ReadId : n.reads[i] # Nil /\ c.reads[i].behind \notin L => n.reads[i] = c.reads[i]
  /\ \A i \in ReadId : n.reads[i] # Nil /\ c.reads[i].behind \in L =>
       LET g == <<c.reads[i].key, token>> IN
       /\ n.reads[i].behind = 0 /\ n.reads[i].get = g /\ g \in Path \X Token
       /\ n.reads[i].joined = (T[g] # Nil /\ T[g].owner # x)

LEMMA SettledAlike ==
  ASSUME NEW c, NEW h, NEW n, NEW x, NEW L, NEW T, Settled(h, n, x, L, T),
         h.on = c.on, h.key = c.key, h.live = c.live, h.flight = c.flight,
         h.retired = c.retired, h.reads = c.reads
  PROVE  Settled(c, n, x, L, T)
BY DEF Settled

LEMMA SettleParts ==
  ASSUME NEW h \in Slots, NEW x, NEW L \in SUBSET ReadId, NEW T, token \in Token
  PROVE  LET n == Settle(h, x, L, T) IN
         n \in Slots /\ n.data = h.data /\ n.mode = h.mode /\ Settled(h, n, x, L, T)
<1> DEFINE Of(i) == IF i \in L THEN Nil
                    ELSE IF h.reads[i] # Nil /\ h.reads[i].behind \in L THEN Loaded(h.reads[i], x, T)
                    ELSE h.reads[i]
           q == [i \in ReadId |-> Of(i)]
           f == IF h.flight \in L THEN 0 ELSE h.flight
           r == IF h.retired \in L THEN 0 ELSE h.retired
           v == (h.live /\ h.flight \notin L)
           n == [h EXCEPT !.flight = f, !.retired = r, !.live = v, !.reads = q]
<1>1. Settle(h, x, L, T) = n
  BY DEF Settle
<1>2. ASSUME NEW i \in ReadId
      PROVE  /\ Of(i) \in Reads \cup {Nil}
             /\ Of(i) # Nil <=> h.reads[i] # Nil /\ i \notin L
             /\ Of(i) # Nil => Of(i).key = h.reads[i].key
             /\ Of(i) # Nil /\ h.reads[i].behind \notin L => Of(i) = h.reads[i]
             /\ Of(i) # Nil /\ h.reads[i].behind \in L =>
                  LET g == <<h.reads[i].key, token>> IN
                  /\ Of(i).behind = 0 /\ Of(i).get = g /\ g \in Path \X Token
                  /\ Of(i).joined = (T[g] # Nil /\ T[g].owner # x)
  <2>1. h.reads[i] \in Reads \cup {Nil} /\ Nil \notin Reads
    BY SlotTyped
  <2>2. CASE i \notin L /\ h.reads[i] # Nil /\ h.reads[i].behind \in L
    <3> DEFINE l == Loaded(h.reads[i], x, T)
               g == <<h.reads[i].key, token>>
    <3>1. /\ l \in Reads /\ l.key = h.reads[i].key /\ l.behind = 0 /\ l.get = g /\ g \in Path \X Token
          /\ l.joined = (T[g] # Nil /\ T[g].owner # x)
      BY <2>1, <2>2, LoadedRead
    <3>2. Of(i) = l
      BY <2>2
    <3> HIDE DEF l, Of
    <3> QED  BY <2>1, <2>2, <3>1, <3>2
  <2>3. CASE ~(i \notin L /\ h.reads[i] # Nil /\ h.reads[i].behind \in L)
    <3>1. Of(i) = IF i \in L THEN Nil ELSE h.reads[i]
      BY <2>3
    <3> HIDE DEF Of
    <3> QED  BY <2>1, <2>3, <3>1
  <2> QED  BY <2>2, <2>3
<1> HIDE DEF Of
<1>3. q \in [ReadId -> Reads \cup {Nil}] /\ \A i \in ReadId : q[i] = Of(i)
  BY <1>2
<1> HIDE DEF q
<1>4. f \in ReadId \cup {0} /\ r \in ReadId \cup {0} /\ v \in BOOLEAN
  BY SlotTyped
<1>5. f = (IF h.flight \in L THEN 0 ELSE h.flight) /\ r = (IF h.retired \in L THEN 0 ELSE h.retired)
      /\ v = (h.live /\ h.flight \notin L)
  OBVIOUS
<1> HIDE DEF f, r, v
<1>6. /\ n \in Slots /\ n.reads = q /\ n.flight = f /\ n.retired = r /\ n.live = v
      /\ n.on = h.on /\ n.key = h.key /\ n.data = h.data /\ n.mode = h.mode
  BY <1>3, <1>4 DEF Slots
<1> HIDE DEF n
<1> QED  BY <1>1, <1>2, <1>3, <1>5, <1>6, ZenonT(40) DEF Settled

\* The hook fits the table that the GET has left, whatever it took of it.
LEMMA SettleFits ==
  ASSUME NEW c \in Slots, NEW h \in Slots, NEW x, NEW U, token \in Token, HookFits(c, x, U, token),
         NEW f \in Path \X Token, NEW L,
         L = {i \in ReadId : Root(c, i) /\ c.reads[i].get = f}, Repainted(c, h, L),
         NEW T, T[f] = Nil, \A g \in Path \X Token : g # f => T[g] = U[g]
  PROVE  LET n == Settle(h, x, L, T) IN
         n \in Slots /\ HookFits(n, x, T, token)
<1> DEFINE n == Settle(h, x, L, T)
<1>1. /\ c.flight \in ReadId \cup {0} /\ c.retired \in ReadId \cup {0} /\ 0 \notin ReadId
      /\ \A i \in ReadId : c.reads[i] # Nil => c.reads[i].behind \in ReadId \cup {0}
      /\ L \in SUBSET ReadId /\ 0 \notin L
  BY SlotTyped
<1>2. /\ FlightFits(c) /\ Linked(c) /\ Aimed(c, token) /\ Tracked(c, x, U, token)
      /\ ShownIsFresh(c, x, U)
  BY DEF HookFits
<1>3. n \in Slots /\ n.mode = h.mode /\ Settled(c, n, x, L, T)
  <2>1. n \in Slots /\ n.mode = h.mode /\ Settled(h, n, x, L, T)
    BY <1>1, SettleParts
  <2> HIDE DEF n
  <2> QED  BY <2>1, SettledAlike DEF Repainted
<1> HIDE DEF n
<1>4. \A i \in L : c.reads[i] # Nil /\ c.reads[i].behind = 0 /\ c.reads[i].get = f
  BY DEF Root
<1>5. Linked(n)
  <2>1. n.retired # 0 => n.reads[n.retired] # Nil
    BY <1>1, <1>2, <1>3 DEF Linked, Settled
  <2>2. ASSUME NEW i \in ReadId, n.reads[i] # Nil, n.reads[i].behind # 0
        PROVE  n.reads[n.reads[i].behind] # Nil /\ n.reads[n.reads[i].behind].key = n.reads[i].key
    <3> DEFINE b == c.reads[i].behind
    <3>1. b \notin L /\ n.reads[i] = c.reads[i]
      BY <1>3, <2>2 DEF Settled
    <3>2. b \in ReadId /\ c.reads[b] # Nil /\ c.reads[b].key = c.reads[i].key
      <4>1. c.reads[i] # Nil
        BY <1>3, <2>2 DEF Settled
      <4>2. b \in ReadId /\ b # 0
        BY <1>1, <2>2, <3>1, <4>1
      <4> QED  BY <1>2, <4>1, <4>2 DEF Linked
    <3>3. n.reads[i].behind = b
      BY <3>1
    <3> HIDE DEF b
    <3>4. n.reads[b] # Nil /\ n.reads[b].key = c.reads[b].key
      BY <1>3, <3>1, <3>2, SMTT(30) DEF Settled
    <3> QED  BY <3>1, <3>2, <3>3, <3>4
  <2> QED  BY <2>1, <2>2 DEF Linked
<1>6. Aimed(n, token)
  <2>1. token <= token
    BY ReadAssumption
  <2>2. ASSUME NEW i \in ReadId, Root(n, i)
        PROVE  /\ n.reads[i].get \in Path \X Token /\ n.reads[i].get[1] = n.reads[i].key
               /\ n.reads[i].get[2] <= token
    <3>1. CASE c.reads[i].behind \in L
      <4> DEFINE g == <<c.reads[i].key, token>>
      <4>1. n.reads[i].get = g /\ g \in Path \X Token /\ n.reads[i].key = c.reads[i].key
        BY <1>3, <2>2, <3>1 DEF Root, Settled
      <4> QED  BY <2>1, <4>1
    <3>2. CASE c.reads[i].behind \notin L
      BY <1>2, <1>3, <2>2, <3>2 DEF Aimed, Root, Settled
    <3> QED  BY <3>1, <3>2
  <2> QED  BY <2>2 DEF Aimed
<1>7. FlightFits(n)
  <2>1. n.flight \notin {0, n.retired} =>
          c.flight \in ReadId /\ c.flight \notin L /\ c.flight # c.retired /\ n.flight = c.flight
    BY <1>1, <1>3 DEF Settled
  <2>2. n.flight \notin {0, n.retired} => n.reads[n.flight].behind = Blocker(n)
    <3> SUFFICES ASSUME n.flight \notin {0, n.retired} PROVE n.reads[n.flight].behind = Blocker(n)
      OBVIOUS
    <3>1. c.reads[c.flight] # Nil /\ c.reads[c.flight].behind = Blocker(c) /\ n.reads[c.flight] # Nil
      BY <1>2, <1>3, <2>1 DEF FlightFits, Settled
    <3>2. CASE Blocker(c) \in L
      <4>1. c.retired \in L /\ n.retired = 0
        BY <1>1, <1>3, <3>2 DEF Blocker, Settled
      <4>2. n.reads[c.flight].behind = 0
        BY <1>3, <2>1, <3>1, <3>2 DEF Settled
      <4> QED  BY <2>1, <4>1, <4>2 DEF Blocker
    <3>3. CASE Blocker(c) \notin L
      <4>1. n.reads[c.flight] = c.reads[c.flight]
        BY <1>3, <2>1, <3>1, <3>3 DEF Settled
      <4>2. CASE c.retired \notin L
        <5>1. c.retired # 0 => n.reads[c.retired].key = c.reads[c.retired].key
          BY <1>1, <1>2, <1>3, <4>2 DEF Linked, Settled
        <5>2. Blocker(n) = Blocker(c)
          BY <1>3, <4>2, <5>1 DEF Blocker, Settled
        <5> QED  BY <2>1, <3>1, <4>1, <5>2
      <4>3. CASE c.retired \in L
        <5>1. Blocker(c) = 0 /\ Blocker(n) = 0
          BY <1>3, <3>3, <4>3 DEF Blocker, Settled
        <5> QED  BY <2>1, <3>1, <4>1, <5>1
      <4> QED  BY <4>2, <4>3
    <3> QED  BY <3>2, <3>3
  <2>3. n.flight # 0 => n.reads[n.flight] # Nil /\ n.reads[n.flight].key = n.key
    BY <1>1, <1>2, <1>3 DEF FlightFits, Settled
  <2>4. n.live => n.on /\ n.flight \notin {0, n.retired}
    BY <1>1, <1>2, <1>3 DEF FlightFits, Settled
  <2>5. n.on /\ n.flight \notin {0, n.retired} => n.live
    BY <1>2, <1>3, <2>1 DEF FlightFits, Settled
  <2>6. n.mode = "error" => ~n.live
    BY <1>2, <1>3 DEF FlightFits, Repainted, Settled
  <2> QED  BY <2>2, <2>3, <2>4, <2>5, <2>6 DEF FlightFits
<1>8. Tracked(n, x, T, token)
  <2> SUFFICES ASSUME NEW g \in Path \X Token, g = <<n.key, token>>, T[g] # Nil, T[g].owner = x
               PROVE  \E i \in ReadId : Root(n, i) /\ Matters(n, i) /\ n.reads[i].get = g
    BY DEF Tracked
  <2>1. g # f /\ U[g] # Nil /\ U[g].owner = x
    OBVIOUS
  <2>2. PICK i \in ReadId : Root(c, i) /\ Matters(c, i) /\ c.reads[i].get = g
    BY <1>2, <1>3, <2>1 DEF Tracked, Settled
  <2>3. i \notin L /\ n.reads[i] = c.reads[i] /\ Root(n, i)
    BY <1>1, <1>3, <1>4, <2>1, <2>2 DEF Root, Settled
  <2>4. ASSUME NEW S \in SUBSET ReadId, WaitsIn(n, S) PROVE i \in S
    <3>1. {c.flight, c.retired} \subseteq (S \cup L) \cup {0}
      BY <1>3, <2>4 DEF WaitsIn, Settled
    <3>2. ASSUME NEW j \in S \cup L, c.reads[j] # Nil PROVE c.reads[j].behind \in (S \cup L) \cup {0}
      BY <1>1, <1>3, <1>4, <2>4, <3>2, ZenonT(40) DEF WaitsIn, Settled
    <3>3. WaitsIn(c, S \cup L) /\ S \cup L \in SUBSET ReadId
      BY <1>1, <3>1, <3>2 DEF WaitsIn
    <3> QED  BY <2>2, <2>3, <3>3 DEF Matters
  <2> QED  BY <2>2, <2>3, <2>4 DEF Matters
<1>9. ShownIsFresh(n, x, T)
  <2> SUFFICES ASSUME n.live, Root(n, n.flight)
               PROVE  LET r == n.reads[n.flight] IN
                      IF r.joined THEN T[r.get] # Nil /\ T[r.get].owner # x
                                  ELSE T[r.get] = Nil \/ T[r.get].age \in {Nil, "new", "old"}
    BY DEF ShownIsFresh
  <2> DEFINE i == c.flight
  <2>1. i \in ReadId /\ i \notin L /\ i # c.retired /\ n.flight = i /\ c.live /\ n.reads[i] # Nil /\ c.reads[i] # Nil
        /\ c.reads[i].key = c.key /\ c.reads[i].behind = Blocker(c)
    BY <1>1, <1>2, <1>3 DEF FlightFits, Root, Settled
  <2>2. CASE c.reads[i].behind \notin L
    <3>1. n.reads[i] = c.reads[i] /\ Root(c, i)
      BY <1>3, <2>1, <2>2 DEF Root, Settled
    <3>2. c.reads[i].get \in Path \X Token /\ c.reads[i].get # f
      BY <1>2, <2>1, <3>1 DEF Aimed
    <3>3. LET r == c.reads[i] IN
          IF r.joined THEN U[r.get] # Nil /\ U[r.get].owner # x
                      ELSE U[r.get] = Nil \/ U[r.get].age \in {Nil, "new", "old"}
      BY <1>2, <2>1, <3>1 DEF ShownIsFresh
    <3> QED  BY <2>1, <3>1, <3>2, <3>3
  <2>3. CASE c.reads[i].behind \in L
    <3> DEFINE g == <<c.key, token>>
    <3>1. /\ n.reads[i].get = g /\ g \in Path \X Token
          /\ n.reads[i].joined = (T[g] # Nil /\ T[g].owner # x)
      <4> DEFINE d == <<c.reads[i].key, token>>
      <4>1. /\ n.reads[i].get = d /\ d \in Path \X Token
            /\ n.reads[i].joined = (T[d] # Nil /\ T[d].owner # x)
        BY <1>3, <2>1, <2>3 DEF Settled
      <4>2. d = g
        BY <2>1
      <4> HIDE DEF d, g
      <4> QED  BY <4>1, <4>2
    <3>2. ~(T[g] # Nil /\ T[g].owner = x)
      <4> SUFFICES ASSUME T[g] # Nil, T[g].owner = x PROVE FALSE
        OBVIOUS
      <4>1. g # f /\ U[g] # Nil /\ U[g].owner = x
        BY <3>1
      <4>2. Blocker(c) # 0 /\ c.retired = Blocker(c) /\ c.retired \in L
        BY <1>1, <2>1, <2>3 DEF Blocker
      <4>3. PICK j \in ReadId : Root(c, j) /\ c.reads[j].get = g /\ ForRetired(c, j)
        BY <1>2, <3>1, <4>1, <4>2, OwnGet
      <4>4. j = c.retired
        <5> DEFINE S == {c.retired}
        <5>1. S \in SUBSET ReadId /\ c.retired \in S /\ \A k \in S : c.reads[k].behind = 0
          BY <1>1, <1>4, <4>2
        <5> QED  BY <4>3, <5>1 DEF ForRetired
      <4> QED  BY <1>4, <4>1, <4>2, <4>3, <4>4
    <3> HIDE DEF g
    <3> QED  BY <2>1, <3>1, <3>2
  <2> QED  BY <2>2, <2>3
<1>10. HookFits(n, x, T, token)
  BY <1>5, <1>6, <1>7, <1>8, <1>9 DEF HookFits
<1> QED  BY <1>3, <1>10 DEF n


\* A GET has left the table, and those who showed it have taken it.
LEMMA LandHolds ==
  ASSUME ReadInv, NEW g \in Path \X Token, table[g] # Nil, NEW New,
         \A x \in Takers(g) : /\ New[x] \in Slots /\ Repainted(hooks[x], New[x], Landing(x, g))
                              /\ Painted(New[x]),
         Land(g, New), UNCHANGED <<token, writes>>,
         entries' \in [Path -> Answers \cup {Nil}], \A k \in Path : Fresh(entries'[k])
  PROVE  ReadInv'
<1> DEFINE T == [table EXCEPT ![g] = Nil]
           h(x) == IF x \in Takers(g) THEN New[x] ELSE hooks[x]
           n(x) == Tidy(Settle(h(x), x, Landing(x, g), T))
           H == [x \in Hook |-> n(x)]
<1>1. Parts /\ token \in Token /\ hooks \in [Hook -> Slots] /\ writes \in [Edit -> Done \cup {Nil}]
  BY InvParts DEF ReadInv, ReadTypeOK
<1>2. Change(H, T)
  BY DEF Land
<1>3. TableTyped(T) /\ T[g] = Nil /\ \A f \in Path \X Token : f # g => T[f] = table[f]
  BY <1>1 DEF Parts, TableTyped
<1> HIDE DEF T
<1>4. Past(T, token)
  BY <1>1, <1>3 DEF Parts, Past
<1>5. ASSUME NEW x \in Hook
      PROVE  n(x) \in Slots /\ HookFits(n(x), x, T, token) /\ AllMatter(n(x)) /\ Painted(n(x))
  <2> DEFINE c == hooks[x]
             L == Landing(x, g)
             s == Settle(h(x), x, L, T)
  <2>1. c \in Slots /\ HookFits(c, x, table, token) /\ Painted(c)
    BY <1>1 DEF Parts
  <2>2. L = {i \in ReadId : Root(c, i) /\ c.reads[i].get = g}
    BY DEF Landing, Root
  <2>3. h(x) \in Slots /\ Repainted(c, h(x), L) /\ Painted(h(x))
    BY <2>1 DEF Repainted
  <2> HIDE DEF h, L
  <2>4. s \in Slots /\ HookFits(s, x, T, token)
    BY <1>1, <1>3, <2>1, <2>2, <2>3, SettleFits
  <2>5. s.on = h(x).on /\ s.key = h(x).key /\ s.data = h(x).data /\ s.mode = h(x).mode
    <3>1. L \in SUBSET ReadId
      BY <2>2
    <3>2. s.data = h(x).data /\ s.mode = h(x).mode /\ Settled(h(x), s, x, L, T)
      BY <1>1, <2>3, <3>1, SettleParts
    <3> HIDE DEF s
    <3> QED  BY <3>2 DEF Settled
  <2>6. n(x) = Tidy(s)
    BY DEF L
  <2> HIDE DEF s, n
  <2>7. /\ Tidy(s) \in Slots /\ HookFits(Tidy(s), x, T, token) /\ AllMatter(Tidy(s))
        /\ Tidy(s).on = s.on /\ Tidy(s).key = s.key /\ Tidy(s).data = s.data /\ Tidy(s).mode = s.mode
    BY <2>4, TidyFits, TidyParts
  <2>8. Painted(Tidy(s))
    BY <2>3, <2>5, <2>7 DEF Painted
  <2> QED  BY <2>6, <2>7, <2>8
<1> HIDE DEF n
<1> QED  BY <1>1, <1>2, <1>3, <1>4, <1>5, ChangeKeeps

\* What is taken is nothing older than what the cache has been told of, unless it is somebody else's.
LEMMA TakenIsFresh ==
  ASSUME Parts, NEW g \in Path \X Token, table[g] # Nil, table[g].age # Nil, NEW x \in Takers(g)
  PROVE  LET v == Taken(x, g) IN
         v \in Answers /\ v \in {"stray", "new", "old"}
<1> DEFINE h == hooks[x]
           r == h.reads[h.flight]
<1>1. x \in Hook /\ h.live /\ h.flight \in ReadId /\ r # Nil /\ r.behind = 0 /\ r.get = g
  BY DEF Takers, Landing
<1>2. h \in Slots /\ HookFits(h, x, table, token)
  BY <1>1 DEF Parts
<1>3. r.joined \/ table[g].age \in {Nil, "new", "old"}
  BY <1>1, <1>2 DEF HookFits, ShownIsFresh, Root
<1>4. r \in Reads
  BY <1>1, <1>2, SlotTyped
<1>5. Taken(x, g) = IF r.joined THEN "stray" ELSE table[g].age
  BY DEF Taken
<1> HIDE DEF r
<1>6. Taken(x, g) \in {"stray", "new", "old"}
  BY <1>3, <1>5
<1> QED  BY <1>6 DEF Answers, Ages

LEMMA SucceedHolds ==
  ASSUME ReadInv, NEW g \in Path \X Token, Succeed(g)
  PROVE  ReadInv'
<1> DEFINE New == [x \in Takers(g) |-> [hooks[x] EXCEPT !.data = Taken(x, g), !.mode = "ok"]]
<1>1. Parts /\ entries \in [Path -> Answers \cup {Nil}]
  BY InvParts DEF ReadInv, ReadTypeOK
<1>2. table[g] # Nil /\ table[g].age # Nil /\ Land(g, New) /\ UNCHANGED <<token, writes>>
  BY DEF Succeed
<1>3. ASSUME NEW x \in Takers(g)
      PROVE  New[x] \in Slots /\ Repainted(hooks[x], New[x], Landing(x, g)) /\ Painted(New[x])
  <2> DEFINE v == Taken(x, g)
             n == [hooks[x] EXCEPT !.data = v, !.mode = "ok"]
  <2>1. hooks[x] \in Slots /\ Painted(hooks[x])
    BY <1>1 DEF Takers, Parts
  <2>2. v \in Answers /\ v \in {"stray", "new", "old"}
    BY <1>1, <1>2, TakenIsFresh
  <2>3. New[x] = n
    OBVIOUS
  <2> HIDE DEF v
  <2>4. /\ n \in Slots /\ n.data = v /\ n.mode = "ok"
        /\ n.on = hooks[x].on /\ n.key = hooks[x].key /\ n.live = hooks[x].live
        /\ n.flight = hooks[x].flight /\ n.retired = hooks[x].retired /\ n.reads = hooks[x].reads
    BY <2>1, <2>2 DEF Slots
  <2> HIDE DEF n, New
  <2> QED  BY <2>1, <2>2, <2>3, <2>4 DEF Repainted, Painted
<1> HIDE DEF New
<1>4. entries' \in [Path -> Answers \cup {Nil}] /\ \A k \in Path : Fresh(entries'[k])
  <2>1. CASE UNCHANGED entries
    BY <1>1, <2>1 DEF Parts
  <2>2. CASE \E x \in Takers(g) : entries' = [entries EXCEPT ![g[1]] = Taken(x, g)]
    <3>1. PICK x \in Takers(g) : entries' = [entries EXCEPT ![g[1]] = Taken(x, g)]
      BY <2>2
    <3>2. Taken(x, g) \in Answers /\ Fresh(Taken(x, g))
      BY <1>1, <1>2, TakenIsFresh DEF Fresh
    <3> QED  BY <1>1, <3>1, <3>2 DEF Parts
  <2>3. UNCHANGED entries \/ \E x \in Takers(g) : entries' = [entries EXCEPT ![g[1]] = Taken(x, g)]
    BY DEF Succeed
  <2> QED  BY <2>1, <2>2, <2>3
<1> QED  BY <1>2, <1>3, <1>4, LandHolds

LEMMA FailHolds ==
  ASSUME ReadInv, NEW g \in Path \X Token, NEW revoking \in BOOLEAN, Fail(g, revoking)
  PROVE  ReadInv'
<1> DEFINE d(x) == IF revoking THEN Nil ELSE hooks[x].data
           New == [x \in Takers(g) |-> [hooks[x] EXCEPT !.data = d(x), !.mode = "error"]]
<1>1. Parts /\ entries \in [Path -> Answers \cup {Nil}]
  BY InvParts DEF ReadInv, ReadTypeOK
<1>2. table[g] # Nil /\ Land(g, New) /\ UNCHANGED <<token, writes>>
      /\ entries' = IF revoking /\ Takers(g) # {} THEN [entries EXCEPT ![g[1]] = Nil] ELSE entries
  BY DEF Fail
<1>3. ASSUME NEW x \in Takers(g)
      PROVE  New[x] \in Slots /\ Repainted(hooks[x], New[x], Landing(x, g)) /\ Painted(New[x])
  <2> DEFINE n == [hooks[x] EXCEPT !.data = d(x), !.mode = "error"]
  <2>1. hooks[x] \in Slots /\ Painted(hooks[x]) /\ hooks[x].flight \in Landing(x, g)
    BY <1>1 DEF Takers, Parts
  <2>2. d(x) \in Answers \cup {Nil} /\ d(x) \in {Nil, hooks[x].data}
    BY <2>1 DEF Slots
  <2>3. New[x] = n
    OBVIOUS
  <2> HIDE DEF d
  <2>4. /\ n \in Slots /\ n.data = d(x) /\ n.mode = "error"
        /\ n.on = hooks[x].on /\ n.key = hooks[x].key /\ n.live = hooks[x].live
        /\ n.flight = hooks[x].flight /\ n.retired = hooks[x].retired /\ n.reads = hooks[x].reads
    BY <2>1, <2>2 DEF Slots
  <2> HIDE DEF n, New
  <2> QED  BY <2>1, <2>2, <2>3, <2>4, NilIsNoAge DEF Repainted, Painted
<1> HIDE DEF New
<1>4. entries' \in [Path -> Answers \cup {Nil}] /\ \A k \in Path : Fresh(entries'[k])
  BY <1>1, <1>2, NilIsNoAge DEF Parts, Fresh
<1> QED  BY <1>2, <1>3, <1>4, LandHolds

-----------------------------------------------------------------------------
\* There is a first credential.
LEMMA FirstToken == \E t \in Token : \A u \in Token : t <= u
<1>1. IsWellFoundedOn(OpToRel(<, Nat), Nat)
  BY NatLessThanWellFounded
<1>2. PICK t \in Token : \A u \in Token : ~ (<<u, t>> \in OpToRel(<, Nat))
  BY <1>1, WFMin, ReadAssumption
<1>3. \A u \in Token : u \in Nat /\ t \in Nat /\ ~(u < t)
  BY <1>2, ReadAssumption DEF OpToRel
<1> QED  BY <1>3

LEMMA ReadInitHolds == ReadInit => ReadInv
<1> SUFFICES ASSUME ReadInit PROVE ReadInv
  OBVIOUS
<1>1. token \in Token
  BY FirstToken DEF ReadInit
<1>2. Closed \in Slots
  BY DEF Closed, Slots
<1>3. ReadTypeOK
  BY <1>1, <1>2 DEF ReadInit, ReadTypeOK
<1>4. ASSUME NEW x \in Hook
      PROVE  HookFits(hooks[x], x, table, token) /\ AllMatter(hooks[x]) /\ Painted(hooks[x])
  <2>1. hooks[x] = Closed /\ 0 \notin ReadId
    BY DEF ReadInit, ReadId
  <2>2. Closed.on = FALSE /\ Closed.live = FALSE /\ Closed.flight = 0 /\ Closed.retired = 0
        /\ \A i \in ReadId : Closed.reads[i] = Nil
    BY DEF Closed
  <2> HIDE DEF Closed
  <2>3. FlightFits(Closed) /\ Linked(Closed) /\ Aimed(Closed, token) /\ AllMatter(Closed) /\ Painted(Closed)
    BY <2>2 DEF FlightFits, Linked, Aimed, AllMatter, Painted, Root
  <2>4. Tracked(hooks[x], x, table, token) /\ ShownIsFresh(Closed, x, table)
    BY <2>2 DEF ReadInit, Tracked, ShownIsFresh
  <2> QED  BY <2>1, <2>3, <2>4 DEF HookFits
<1>5. Past(table, token) /\ \A k \in Path : Fresh(entries[k])
  BY NilIsNoAge DEF ReadInit, Past, Fresh
<1> QED  BY <1>3, <1>4, <1>5 DEF ReadInv

LEMMA ReadStepHolds == ReadInv /\ [ReadNext]_readVars => ReadInv'
<1> SUFFICES ASSUME ReadInv, [ReadNext]_readVars PROVE ReadInv'
  OBVIOUS
<1>1. token \in Token /\ writes \in [Edit -> Done \cup {Nil}]
  BY DEF ReadInv, ReadTypeOK
<1>2. ASSUME NEW x \in Hook, NEW k \in Path, Mount(x, k) \/ Enable(x, k) \/ Rekey(x, k) PROVE ReadInv'
  BY <1>2, ShownHolds
<1>3. ASSUME NEW x \in Hook, Disable(x) \/ Reload(x) PROVE ReadInv'
  BY <1>3, DisableHolds, ReloadHolds
<1>4. ASSUME NEW g \in Path \X Token, Ask(g) \/ Read(g) \/ Succeed(g) \/ Fail(g, TRUE) \/ Fail(g, FALSE)
      PROVE  ReadInv'
  BY <1>4, AskReadHolds, SucceedHolds, FailHolds
<1>5. ASSUME NEW w \in Edit, NEW k \in Path, WritePage(w, k) PROVE ReadInv'
  <2>1. WritesAged({k}, {"new"}, "old") \in [Edit -> Done \cup {Nil}]
    BY <1>1, WritesAgedTyped
  <2>2. [path |-> k, age |-> "new"] \in Done
    BY DEF Done
  <2>3. MoveOn({k}) /\ writes' \in [Edit -> Done \cup {Nil}] /\ token' = token
    BY <1>5, <2>1, <2>2 DEF WritePage
  <2> QED  BY <1>1, <2>3, MoveOnHolds DEF MoveOn
<1>6. ASSUME NEW w \in Edit, LoseWrite(w) \/ Invalidate(w) \/ Replace(w) PROVE ReadInv'
  <2>1. CASE LoseWrite(w)
    <3>1. /\ Parts /\ hooks' = hooks /\ table' = table /\ token' = token /\ entries' = entries
          /\ writes' \in [Edit -> Done \cup {Nil}]
      BY <1>1, <2>1, InvParts DEF LoseWrite
    <3> QED  BY <1>1, <3>1, KeepsInv DEF Parts, ReadInv, ReadTypeOK
  <2> QED
    <3> DEFINE k == writes[w].path
    <3>1. k = writes[w].path
      OBVIOUS
    <3> HIDE DEF k
    <3> QED  BY <1>6, <2>1, <3>1, InvalidateHolds, ReplaceHolds
<1>7. ASSUME NEW t \in Token, ChangePerson(t) PROVE ReadInv'
  <2>1. writes' \in [Edit -> Done \cup {Nil}]
    BY <1>1, <1>7, WritesAgedTyped DEF ChangePerson
  <2>2. /\ token' = t /\ (t > token \/ t = token)
        /\ table' = TableAged(Path, {Nil, "new"}, "old") /\ hooks' = HooksAged(Path, {"new"}, "old")
        /\ entries' = [k \in Path |-> IF k \in Path THEN Aged(entries[k], {"new"}, "old") ELSE entries[k]]
    BY <1>1, <1>7 DEF ChangePerson
  <2> QED  BY <2>1, <2>2, MoveOnHolds
<1>8. CASE Clear(TRUE) \/ Clear(FALSE)
  BY <1>8, ClearHolds
<1>9. CASE UNCHANGED readVars
  <2>1. Parts /\ hooks' = hooks /\ table' = table /\ token' = token /\ entries' = entries /\ writes' = writes
    BY <1>9, InvParts DEF readVars
  <2> QED  BY <1>1, <2>1, KeepsInv DEF Parts, ReadInv, ReadTypeOK
<1> QED  BY <1>2, <1>3, <1>4, <1>5, <1>6, <1>7, <1>8, <1>9 DEF ReadNext

LEMMA InvIsFresh == ReadInv => OldNeverLands
<1> SUFFICES ASSUME ReadInv PROVE OldNeverLands
  OBVIOUS
<1>1. Parts
  BY InvParts
<1> QED  BY <1>1 DEF Parts, Fresh, Painted, OldNeverLands

\* Whatever the number of hooks, paths, credentials and reads under way, what was
\* read before an event is not taken after it, but of a GET somebody else sent, or
\* from the write-through of a write that was overtaken (useAsyncData, the
\* transport's table of GETs and replaceAsyncData).
THEOREM OldStaysOut == ReadSpec => []OldNeverLands
<1> QED  BY ReadInitHolds, ReadStepHolds, InvIsFresh, PTL DEF ReadSpec
=============================================================================
