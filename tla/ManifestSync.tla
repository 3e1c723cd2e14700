---------------------------- MODULE ManifestSync ----------------------------
(***************************************************************************)
(* sync_manifest: a process pushes the permission manifest of its release  *)
(* to EasyAuth, which numbers what it imports, and writes down what was    *)
(* accepted in one row of platform_settings.  Each process pushes one at a *)
(* time (ManifestScheduler); the processes of a deployment, of different   *)
(* releases while it rolls out, share the row and EasyAuth.                *)
(*                                                                         *)
(* EasyAuth is external.  Its rules are those the code relies on: versions *)
(* grow, a version is imported once, and content that is in force already  *)
(* is answered as such.  A request or its answer may be lost at any time.  *)
(***************************************************************************)
EXTENDS Naturals

CONSTANTS Worker,     \* processes of the application
          Place,      \* addresses and applications of EasyAuth
          Manifest,   \* contents, up to schema_version
          Own,        \* the schema_version a manifest comes with
          MaxVersion, \* bound of versions
          Nowhere,    \* no place
          Nothing     \* no manifest

ASSUME SyncAssumption ==
  /\ Own \in [Manifest -> Nat \ {0}]
  /\ MaxVersion \in Nat
  /\ Nowhere \notin Place
  /\ Nothing \notin Manifest

VARIABLES
  release,   \* the manifest of each process
  stored,    \* the row
  imported,  \* what each version of EasyAuth holds
  push,      \* a push under way in each process
  alone      \* it met no other, and could read every conflict

syncVars == <<release, stored, imported, push, alone>>

Version == 1 .. MaxVersion

\* A 422 is kept beside what was accepted before (rejected), or alone.
Row == [status : {"none", "ok", "failed"}, hash : Manifest \cup {Nothing},
        version : Nat, place : Place \cup {Nowhere}, unprocessable : BOOLEAN,
        rejected : Manifest \cup {Nothing}, rejectedAt : Place \cup {Nowhere}]

NoRow == [status |-> "none", hash |-> Nothing, version |-> 0, place |-> Nowhere,
          unprocessable |-> FALSE, rejected |-> Nothing, rejectedAt |-> Nowhere]

Push == [pc : {"idle", "load", "post", "ok", "rejected", "conflict"},
         stage : {"open", "probe", "bump"}, force : BOOLEAN, public : BOOLEAN,
         place : Place \cup {Nowhere}, version : Nat, old : Row]

NoPush == [pc |-> "idle", stage |-> "open", force |-> FALSE, public |-> FALSE,
           place |-> Nowhere, version |-> 0, old |-> NoRow]

SyncTypeOK ==
  /\ release \in [Worker -> Manifest]
  /\ stored \in Row
  /\ imported \in [Place -> [Version -> Manifest \cup {Nothing}]]
  /\ push \in [Worker -> Push]
  /\ alone \in [Worker -> BOOLEAN]

SyncInit ==
  /\ release \in [Worker -> Manifest]
  /\ stored = NoRow
  /\ imported = [p \in Place |-> [v \in Version |-> Nothing]]
  /\ push = [w \in Worker |-> NoPush]
  /\ alone = [w \in Worker |-> TRUE]

-----------------------------------------------------------------------------
(* Deciding what to send *)

Same422(row, m, p) ==
  /\ row.unprocessable
  /\ IF row.rejected # Nothing
     THEN row.rejected = m /\ row.rejectedAt = p
     ELSE row.hash = m /\ row.place = p

ShouldSkip(row, m, p, force) ==
  /\ ~force
  /\ row # NoRow
  /\ \/ Same422(row, m, p)
     \/ row.status = "ok" /\ row.hash = m /\ row.place = p

NextVersion(row, m) ==
  CASE row.status # "ok" -> Own[m]
    [] row.status = "ok" /\ row.hash = m -> row.version
    [] OTHER -> IF Own[m] > row.version THEN Own[m] ELSE row.version + 1

\* load_manifest_sync_target: the settings may have been saved since the last
\* push.  Without a place nothing is pushed.
Begin(w) ==
  /\ push[w].pc = "idle"
  /\ \E place \in Place, public \in BOOLEAN, force \in BOOLEAN :
       push' = [push EXCEPT ![w] = [NoPush EXCEPT !.pc = "load", !.force = force,
                                      !.place = place, !.public = public]]
  /\ alone' = [alone EXCEPT ![w] = TRUE]
  /\ UNCHANGED <<release, stored, imported>>

Load(w) ==
  /\ push[w].pc = "load"
  /\ push' = [push EXCEPT ![w] =
       IF ShouldSkip(stored, release[w], push[w].place, push[w].force)
       THEN NoPush
       ELSE [@ EXCEPT !.pc = "post", !.old = stored, !.force = FALSE,
                      !.version = NextVersion(stored, release[w])]]
  /\ UNCHANGED <<release, stored, imported, alone>>

-----------------------------------------------------------------------------
(* EasyAuth *)

\* The version in force; 0 before the first.
InForce(p) ==
  IF \A v \in Version : imported[p][v] = Nothing THEN 0
  ELSE CHOOSE v \in Version : /\ imported[p][v] # Nothing
                              /\ \A u \in Version : imported[p][u] # Nothing => u <= v

Holds(p, m) == InForce(p) # 0 /\ imported[p][InForce(p)] = m

Imports(w) ==
  LET p == push[w].place IN
  /\ push[w].version \in Version /\ push[w].version > InForce(p)
  /\ imported' = [imported EXCEPT ![p][push[w].version] = release[w]]
  /\ alone' = [u \in Worker |-> alone[u] /\ (u = w \/ push[u].place # p)]

-----------------------------------------------------------------------------
(* One POST after another *)

Posting(w) == push[w].pc = "post"

\* What is left to write down once it was accepted as version v.
Accept(w, v) ==
  push' = [push EXCEPT ![w] = [NoPush EXCEPT
             !.pc = "ok", !.place = push[w].place, !.version = v]]

\* Mutant: what was sent is taken for what is in force.
SentVersion(w, already) == push[w].version

\* An idempotent answer names the version in force.
VersionFromSuccess(w, already) ==
  IF already THEN InForce(push[w].place) ELSE push[w].version

\* Accepted: imported, or in force already.
Success(w) ==
  /\ Posting(w)
  /\ \/ Imports(w) /\ Accept(w, VersionFromSuccess(w, FALSE))
     \/ /\ Holds(push[w].place, release[w])
        /\ Accept(w, VersionFromSuccess(w, TRUE))
        /\ UNCHANGED <<imported, alone>>
  /\ UNCHANGED <<release, stored>>

\* The request or its answer is lost, the answer cannot be read, or EasyAuth
\* asks to come back later or refuses for a reason of its own: nothing is
\* written down.
Retryable(w) ==
  /\ Posting(w)
  /\ push' = [push EXCEPT ![w] = NoPush]
  /\ Imports(w) \/ UNCHANGED <<imported, alone>>
  /\ UNCHANGED <<release, stored>>

\* 422: once without the base_url, then for good.
Unprocessable(w) ==
  /\ Posting(w)
  /\ push' = [push EXCEPT ![w] = IF @.public THEN [@ EXCEPT !.public = FALSE]
                                 ELSE [@ EXCEPT !.pc = "rejected", !.stage = "open"]]
  /\ UNCHANGED <<release, stored, imported, alone>>

\* What the message of a 409 tells: the version in force, or 0 when it cannot
\* be read.
Told(p) == {0, InForce(p)}

\* Mutant: one above the version sent, without the probe.
StraightUp(old, latest) == [old EXCEPT !.stage = "bump", !.version = @ + 1]

\* The version in force is probed once, unless it is what was sent; after that,
\* one above the version sent last.
TryNext(old, latest) ==
  IF old.stage = "open" /\ latest \notin {0, old.version}
  THEN [old EXCEPT !.stage = "probe", !.version = latest]
  ELSE [old EXCEPT !.stage = "bump", !.version = @ + 1]

\* 409: this version or a later one has been imported.
Conflict(w) ==
  LET p == push[w].place IN
  /\ Posting(w)
  /\ push[w].version <= InForce(p)
  /\ ~(push[w].version = InForce(p) /\ Holds(p, release[w]))
  /\ \E latest \in Told(p) :
       /\ alone' = [alone EXCEPT ![w] = @ /\ (latest # 0 \/ push[w].stage # "open")]
       /\ push' = [push EXCEPT ![w] = IF @.stage = "bump"
                                      THEN [NoPush EXCEPT !.pc = "conflict"]
                                      ELSE TryNext(@, latest)]
  /\ UNCHANGED <<release, stored, imported>>

-----------------------------------------------------------------------------
(* Writing it down *)

OkPayload(w) ==
  [NoRow EXCEPT !.status = "ok", !.hash = release[w],
                !.version = push[w].version, !.place = push[w].place]

\* A refusal keeps what the row said when the push began.
Failure422(w) ==
  IF push[w].old.status = "ok"
  THEN [push[w].old EXCEPT !.rejected = release[w], !.rejectedAt = push[w].place,
                           !.unprocessable = TRUE]
  ELSE [NoRow EXCEPT !.status = "failed", !.hash = release[w],
                     !.place = push[w].place, !.unprocessable = TRUE]

SaveState(row) == stored' = row

\* Whatever another process has written since is overwritten.
CommitSync(w) ==
  /\ \/ push[w].pc = "ok" /\ SaveState(OkPayload(w))
     \/ push[w].pc = "rejected" /\ SaveState(Failure422(w))
     \/ push[w].pc = "conflict" /\ UNCHANGED stored
  /\ push' = [push EXCEPT ![w] = NoPush]
  /\ UNCHANGED <<release, imported, alone>>

-----------------------------------------------------------------------------
(* Releases *)

\* A process stops at any time, and starts with this release or another.
Restart(w) ==
  /\ push' = [push EXCEPT ![w] = NoPush]
  /\ \E m \in Manifest : release' = [release EXCEPT ![w] = m]
  /\ UNCHANGED <<stored, imported, alone>>

SyncStep(w) ==
  \/ Begin(w) \/ Load(w) \/ Success(w) \/ Retryable(w)
  \/ Unprocessable(w) \/ Conflict(w) \/ CommitSync(w) \/ Restart(w)

SyncNext == \E w \in Worker : SyncStep(w)

SyncSpec == SyncInit /\ [][SyncNext]_syncVars

-----------------------------------------------------------------------------
(* Properties *)

\* What the row says was accepted, EasyAuth has imported under that very
\* version, however answers are lost, late, or overtaken by those of other
\* processes (sync_manifest, _version_from_success, _failure_422).
StoredWasImported ==
  stored.status = "ok" =>
    /\ stored.place \in Place /\ stored.version \in Version
    /\ imported[stored.place][stored.version] = stored.hash

\* A push is given up for a conflict only when another process imported while
\* it was under way: one probe and one step up settle all others
\* (_resolve_conflict).
ConflictNeedsAnother == \A w \in Worker : push[w].pc = "conflict" => ~alone[w]
=============================================================================
