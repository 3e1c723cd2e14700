--------------------------- MODULE ShellIdentity ----------------------------
(***************************************************************************)
(* Whose shell a tab of the frontend paints, and with which preferences:   *)
(* the identity store, the loads that fill it, the controls that save a    *)
(* preference of the account, and the end of a session.  A load asks for   *)
(* /auth/me and /auth/session at once and takes them one after the other;  *)
(* leaving a page cancels the load, the way to another page takes time.    *)
(*                                                                         *)
(* A value of a preference is the number of the change that made it, 0 the *)
(* default.  Left out: locales, the forced change of a password, all else  *)
(* that an identity says, and gateways: who is asked for is the token's.   *)
(***************************************************************************)
EXTENDS Naturals, FiniteSets

CONSTANTS Person,     \* accounts
          Pref,       \* tableDensity, rowSpacing
          NoPerson,
          NoIdentity,
          MaxChanges, \* bound on changes of a preference of an account
          MaxLoads,   \* bound on loads that have not settled
          MaxSaves    \* and on saves

Preferences == [Pref -> Nat]
Identities == [who : Person, prefs : Preferences]

ASSUME ShellAssumption ==
  /\ NoPerson \notin Person
  /\ NoIdentity \notin Identities \cup Preferences
  /\ MaxChanges \in Nat /\ MaxLoads \in Nat /\ MaxSaves \in Nat

VARIABLES
  credential, \* the person of the token in localStorage, which all tabs share
  told,       \* this tab knows of that token (its storage event was handled)
  shell,      \* "on", "leaving" (the way elsewhere has begun) or "off"
  identity,   \* the store: [who, prefs]; sessionStorage has the same
  loads,
  saves,      \* PATCH /auth/preferences under way
  prefsOf,     \* ui_preferences of each account
  residue,    \* history: identity was left behind, or written after its session ended
  caughtUp    \* history: a load that began with nothing under way was its last word

shellVars == <<credential, told, shell, identity, loads, saves, prefsOf, residue, caughtUp>>

Defaults == [k \in Pref |-> 0]

Loads == [by : Person \cup {NoPerson}, alive : BOOLEAN, me : BOOLEAN,
          session : Preferences \cup {NoIdentity}, calm : BOOLEAN]

Saves == [key : Pref, by : Person, valid : BOOLEAN,
          step : {"sent", "written", "answered"}, answer : Nat]

ShellTypeOK ==
  /\ credential \in Person \cup {NoPerson}
  /\ told \in BOOLEAN /\ residue \in BOOLEAN /\ caughtUp \in BOOLEAN
  /\ shell \in {"on", "leaving", "off"}
  /\ identity \in Identities \cup {NoIdentity}
  /\ loads \subseteq Loads
  /\ saves \subseteq Saves
  /\ prefsOf \in [Person -> Preferences]

\* calm: nothing was changed since it began.
NewLoad == [by |-> credential, alive |-> TRUE, me |-> FALSE, session |-> NoIdentity,
            calm |-> \A s \in saves : ~s.valid]

ShellInit ==
  /\ credential = NoPerson
  /\ told = TRUE
  /\ shell = "off"
  /\ identity = NoIdentity
  /\ loads = {}
  /\ saves = {}
  /\ prefsOf = [p \in Person |-> Defaults]
  /\ residue = FALSE
  /\ caughtUp = FALSE

-----------------------------------------------------------------------------
(* The identity store *)

\* reconcileIdentity
Reconciled(fresh, settled) ==
  IF identity = NoIdentity \/ identity.who # fresh.who \/ settled
    THEN fresh
    ELSE [fresh EXCEPT !.prefs = identity.prefs]

\* lifecycle.current.active and sessionGeneration, for the saves under way.
Invalid == {[s EXCEPT !.valid = FALSE] : s \in saves}

\* applyIdentity, writeCachedIdentity: an equal identity is not written, which
\* shows in nothing here.
Apply(fresh, settled) ==
  /\ identity' = Reconciled(fresh, settled)
  /\ saves' = IF identity # NoIdentity /\ identity.who # fresh.who THEN Invalid ELSE saves
  /\ residue' = (shell = "leaving")

\* clearCachedIdentity
ClearIdentity ==
  /\ identity' = NoIdentity
  /\ residue' = FALSE
  /\ saves' = Invalid

\* The end of useIdentityLoader's effect; calm is of no use any more.
Cancelled == {[l EXCEPT !.alive = FALSE, !.calm = FALSE] : l \in loads}

\* Mutant: what was cancelled is applied all the same.
AnyLoad(l) == TRUE

Applies(l) == l.alive

-----------------------------------------------------------------------------
(* The tab *)

\* Logged in on the login page of this tab.
LogInHere(p) ==
  /\ shell = "off"
  /\ credential' = p
  /\ told' = TRUE
  /\ UNCHANGED <<shell, identity, loads, saves, prefsOf, residue, caughtUp>>

\* Logged in, or out, in another tab.
LogInElsewhere(p) ==
  /\ p # credential
  /\ credential' = p
  /\ told' = (shell = "off")
  /\ UNCHANGED <<shell, identity, loads, saves, prefsOf, residue, caughtUp>>

\* The effect runs: a load is begun, at once or when the browser is idle, and
\* the one before is cancelled.
StartLoad ==
  /\ Cardinality(loads) < MaxLoads
  /\ loads' = Cancelled \cup {NewLoad}

OpenShell ==
  /\ shell = "off" /\ credential # NoPerson
  /\ shell' = "on"
  /\ StartLoad
  /\ UNCHANGED <<credential, told, identity, saves, prefsOf, residue, caughtUp>>

\* refreshIdentity, or another path.
RunLoad ==
  /\ shell = "on"
  /\ StartLoad
  /\ UNCHANGED <<credential, told, shell, identity, saves, prefsOf, residue, caughtUp>>

\* Another path, before the browser is idle.
CancelLoad ==
  /\ shell = "on" /\ loads # Cancelled
  /\ loads' = Cancelled
  /\ UNCHANGED <<credential, told, shell, identity, saves, prefsOf, residue, caughtUp>>

\* Logout, a changed password, or the ejection by a 401: endLocalSession.
EndShell ==
  /\ shell = "on"
  /\ ClearIdentity
  /\ credential' = NoPerson
  /\ told' = TRUE
  /\ shell' = "leaving"
  /\ caughtUp' = FALSE
  /\ UNCHANGED <<loads, prefsOf>>

\* The storage event: the snapshot is dropped and the page reloaded.
StorageEvent ==
  /\ shell = "on" /\ ~told
  /\ ClearIdentity
  /\ told' = TRUE
  /\ shell' = "leaving"
  /\ caughtUp' = FALSE
  /\ UNCHANGED <<credential, loads, prefsOf>>

\* The login page is there, or the page is loaded anew.
CloseShell ==
  /\ shell = "leaving"
  /\ shell' = "off"
  /\ loads' = Cancelled
  /\ saves' = Invalid
  /\ told' = TRUE
  /\ UNCHANGED <<credential, identity, prefsOf, residue, caughtUp>>

\* Elsewhere by the address bar or back, with no end of the session.
Depart ==
  /\ shell = "on"
  /\ shell' = "off"
  /\ loads' = Cancelled
  /\ saves' = Invalid
  /\ told' = TRUE
  /\ residue' = TRUE
  /\ UNCHANGED <<credential, identity, prefsOf, caughtUp>>

-----------------------------------------------------------------------------
(* Loads *)

Becomes(l, next) == loads' = (loads \ {l}) \cup {next}

\* /auth/session is read, or fails and stands for the defaults.
ReadSession(l) ==
  /\ l.session = NoIdentity
  /\ \/ l.by # NoPerson /\ Becomes(l, [l EXCEPT !.session = prefsOf[l.by]])
     \/ Becomes(l, [l EXCEPT !.session = Defaults, !.calm = FALSE])
  /\ UNCHANGED <<credential, told, shell, identity, saves, prefsOf, residue, caughtUp>>

\* /auth/me has answered: the account, with default preferences.
MeLands(l) ==
  /\ ~l.me /\ l.by # NoPerson
  /\ Becomes(l, [l EXCEPT !.me = TRUE])
  /\ IF Applies(l)
       THEN /\ Apply([who |-> l.by, prefs |-> Defaults], FALSE)
            /\ caughtUp' = (caughtUp /\ identity' = identity)
       ELSE UNCHANGED <<identity, saves, residue, caughtUp>>
  /\ UNCHANGED <<credential, told, shell, prefsOf>>

SessionLands(l) ==
  /\ l.me /\ l.session # NoIdentity
  /\ loads' = loads \ {l}
  /\ IF Applies(l)
       THEN /\ Apply([who |-> l.by, prefs |-> l.session], TRUE)
            /\ caughtUp' = IF l.alive THEN l.calm /\ l.by = credential ELSE caughtUp
       ELSE UNCHANGED <<identity, saves, residue, caughtUp>>
  /\ UNCHANGED <<credential, told, shell, prefsOf>>

\* /auth/me failed: ejectToLogin.
MeFails(l) ==
  /\ ~l.me
  /\ loads' = loads \ {l}
  /\ IF Applies(l) /\ shell = "on"
       THEN /\ ClearIdentity
            /\ credential' = NoPerson
            /\ told' = TRUE
            /\ shell' = "leaving"
            /\ caughtUp' = FALSE
       ELSE UNCHANGED <<credential, told, shell, identity, saves, residue, caughtUp>>
  /\ UNCHANGED prefsOf

-----------------------------------------------------------------------------
(* Preferences *)

\* A row is changed: no load under way is calm any more, nothing has caught up.
Stir ==
  /\ loads' = {[l EXCEPT !.calm = FALSE] : l \in loads}
  /\ caughtUp' = FALSE

\* useAccountPreference: change, with one save of a preference at a time; one
\* of before may still be under way.
SavePref(k) ==
  /\ shell = "on" /\ identity # NoIdentity /\ credential # NoPerson
  /\ ~\E s \in saves : s.key = k /\ s.valid
  /\ Cardinality(saves) < MaxSaves
  /\ prefsOf[credential][k] < MaxChanges
  /\ saves' = saves \cup {[key |-> k, by |-> credential, valid |-> TRUE, step |-> "sent", answer |-> 0]}
  /\ Stir
  /\ UNCHANGED <<credential, told, shell, identity, prefsOf, residue>>

\* update_ui_preferences of one key, of an account that another browser uses too.
ChangeStored(p, k) ==
  /\ prefsOf[p][k] < MaxChanges
  /\ prefsOf' = [prefsOf EXCEPT ![p][k] = @ + 1]
  /\ Stir

ChangeElsewhere(p, k) ==
  /\ ChangeStored(p, k)
  /\ UNCHANGED <<credential, told, shell, identity, saves, residue>>

Goes(s, next) == saves' = (saves \ {s}) \cup {next}

WritePref(s) ==
  /\ s.step = "sent"
  /\ ChangeStored(s.by, s.key)
  /\ Goes(s, [s EXCEPT !.step = "written"])
  /\ UNCHANGED <<credential, told, shell, identity, residue>>

\* The answer of the PATCH: the session as it is then.
AnswerPref(s) ==
  /\ s.step = "written"
  /\ Goes(s, [s EXCEPT !.step = "answered", !.answer = prefsOf[s.by][s.key]])
  /\ UNCHANGED <<credential, told, shell, identity, loads, prefsOf, residue, caughtUp>>

\* Mutant: the answer is taken whoever is there now.
AnySave(s) == identity # NoIdentity

\* valid()
Counts(s) == s.valid

\* patchCachedPreference
PrefLands(s) ==
  /\ s.step = "answered"
  /\ saves' = saves \ {s}
  /\ identity' = IF Counts(s) THEN [identity EXCEPT !.prefs[s.key] = s.answer] ELSE identity
  /\ UNCHANGED <<credential, told, shell, loads, prefsOf, residue, caughtUp>>

\* Refused, or its answer lost: the optimistic value is taken back.
PrefFails(s) ==
  /\ saves' = saves \ {s}
  /\ UNCHANGED <<credential, told, shell, identity, loads, prefsOf, residue, caughtUp>>

ShellNext ==
  \/ \E p \in Person : LogInHere(p) \/ LogInElsewhere(p)
  \/ LogInElsewhere(NoPerson)
  \/ OpenShell \/ RunLoad \/ CancelLoad \/ EndShell \/ StorageEvent \/ CloseShell \/ Depart
  \/ \E l \in loads : ReadSession(l) \/ MeLands(l) \/ SessionLands(l) \/ MeFails(l)
  \/ \E k \in Pref : SavePref(k)
  \/ \E s \in saves : WritePref(s) \/ AnswerPref(s) \/ PrefLands(s) \/ PrefFails(s)
  \/ \E p \in Person, k \in Pref : ChangeElsewhere(p, k)

ShellSpec == ShellInit /\ [][ShellNext]_shellVars

-----------------------------------------------------------------------------
\* Nobody is shown the shell of another person than the token's, but until the
\* tab is told of the token; and until /auth/me answers, when somebody left
\* without a logout or an answer landed on a page whose session had ended.
OwnShell ==
  shell = "on" /\ identity # NoIdentity /\ told => identity.who = credential \/ residue

\* Once a load that began with nothing under way has landed, the shell has the
\* prefsOf preferences, whatever loads and saves of before still land.
ShowsStored ==
  caughtUp => /\ identity # NoIdentity
              /\ identity.who = credential => identity.prefs = prefsOf[credential]

\* (useIdentityLoader, useAccountPreference and the store, together.)
ShellIsTrue == OwnShell /\ ShowsStored
=============================================================================
