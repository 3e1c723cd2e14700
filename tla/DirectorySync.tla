--------------------------- MODULE DirectorySync ---------------------------
(***************************************************************************)
(* A full read of the directory of EasyAuth, page by page, and its         *)
(* projection on the users of a host.  The directory moves on meanwhile:   *)
(* it may keep the snapshot of the first page, refuse to go on with it,    *)
(* answer from a newer one, or fall back and say that what it sends is not *)
(* authoritative.                                                          *)
(*                                                                         *)
(* A page has one user.  A snapshot is the sequence of its user_refs, its  *)
(* place in the history of the directory is its snapshot_id.               *)
(***************************************************************************)
EXTENDS Naturals, Sequences, FiniteSets

CONSTANTS Ref, MaxSnapshot, MaxRestarts

ASSUME DirectoryAssumption ==
  /\ IsFiniteSet(Ref)
  /\ MaxSnapshot \in Nat \ {0}
  /\ MaxRestarts \in Nat

VARIABLES
  history,   \* the snapshots of the directory, the current one last
  reader,    \* read_full_snapshot at work, or nothing
  projected  \* the users of the host, and the snapshot they come from

directoryVars == <<history, reader, projected>>

Listing == {s \in UNION {[1..n -> Ref] : n \in 0..Cardinality(Ref)} :
              \A i, j \in DOMAIN s : s[i] = s[j] => i = j}
Listed(s) == {s[i] : i \in DOMAIN s}

NoRead == [pc |-> "idle"]

\* The pin, the totals and the conjoined flags of the pages so far.
Reading(restarts) ==
  [pc |-> "read", restarts |-> restarts, page |-> 1, pin |-> 0, total |-> 0,
   authoritative |-> TRUE, users |-> <<>>]

Readers ==
  [pc : {"read", "project"}, restarts : 0..MaxRestarts, page : Nat, pin : Nat,
   total : Nat, authoritative : BOOLEAN, users : Listing]

DirectoryTypeOK ==
  /\ history \in Seq(Listing) /\ Len(history) \in 1..MaxSnapshot
  /\ reader \in Readers \cup {NoRead}
  /\ projected \in [known : SUBSET Ref, active : SUBSET Ref, of : 0..MaxSnapshot]

DirectoryInit ==
  /\ history \in [1..1 -> Listing]
  /\ reader = NoRead
  /\ projected = [known |-> {}, active |-> {}, of |-> 0]

-----------------------------------------------------------------------------
(* The directory *)

Snapshot ==
  /\ Len(history) < MaxSnapshot
  /\ \E s \in Listing : history' = Append(history, s)
  /\ UNCHANGED <<reader, projected>>

\* The answer of the page-th page of a snapshot, under some id.
PageOf(s, page, id, authoritative) ==
  [id |-> id, total |-> Len(s), authoritative |-> authoritative,
   data |-> IF page <= Len(s) THEN <<s[page]>> ELSE <<>>]

\* What the directory may answer.  It says the truth about what it sends: under
\* the id that was asked for there is that snapshot, or something that is not
\* authoritative.
Answers(page, pin) ==
  LET current == Len(history)
      asked   == IF pin = 0 THEN current ELSE pin
  IN  {PageOf(history[asked], page, asked, a) : a \in BOOLEAN}
        \cup {PageOf(history[current], page, current, a) : a \in BOOLEAN}
        \cup {PageOf(history[current], page, asked, FALSE)}

-----------------------------------------------------------------------------
(* read_full_snapshot *)

\* Mutant: later pages are not compared with the first.
AnyPage(r, answer) == TRUE

\* _bind_or_check_pin: the first page sets what the others must repeat.
SamePin(r, answer) == r.page = 1 \/ (answer.id = r.pin /\ answer.total = r.total)

\* _conjoin_snapshot_meta.
Conjoined(r, answer) == r.authoritative /\ answer.authoritative

StartSync ==
  /\ reader = NoRead
  /\ reader' = Reading(0)
  /\ UNCHANGED <<history, projected>>

\* A page that does not fit ends the read, and so the run: "failed".
ReadPage ==
  /\ reader.pc = "read"
  /\ \E answer \in Answers(reader.page, reader.pin) :
       LET users == reader.users \o answer.data
           last  == reader.page >= (IF reader.page = 1 THEN answer.total ELSE reader.total)
           fits  == /\ SamePin(reader, answer)
                    /\ users \in Listing                   \* no user_ref twice
                    /\ last => Len(users) = answer.total
       IN  reader' = IF ~fits THEN NoRead
             ELSE [reader EXCEPT
                    !.pc = IF last THEN "project" ELSE "read",
                    !.page = IF last THEN @ ELSE @ + 1,
                    !.pin = IF reader.page = 1 THEN answer.id ELSE @,
                    !.total = IF reader.page = 1 THEN answer.total ELSE @,
                    !.authoritative = Conjoined(reader, answer),
                    !.users = users]
  /\ UNCHANGED <<history, projected>>

\* 409: the pages read so far are dropped, and after max_restarts the run is
\* given up as a drift.
Drift ==
  /\ reader.pc = "read"
  /\ reader' = IF reader.restarts < MaxRestarts THEN Reading(reader.restarts + 1) ELSE NoRead
  /\ UNCHANGED <<history, projected>>

\* No answer, or one that is an error; or the projection raises, and is rolled
\* back.
FailSync ==
  /\ reader # NoRead
  /\ reader' = NoRead
  /\ UNCHANGED <<history, projected>>

\* _project_authoritative: upsert_user for each, deactivate_missing, commit.
Project ==
  /\ reader.pc = "project"
  /\ reader' = NoRead
  /\ projected' = IF ~reader.authoritative THEN projected
       ELSE [known  |-> projected.known \cup Listed(reader.users),
             active |-> Listed(reader.users),
             of     |-> reader.pin]
  /\ UNCHANGED history

DirectoryNext == Snapshot \/ StartSync \/ ReadPage \/ Drift \/ FailSync \/ Project

DirectorySpec == DirectoryInit /\ [][DirectoryNext]_directoryVars

-----------------------------------------------------------------------------
(* Properties *)

\* Whatever the directory does between two pages, the users of the host are those
\* of one of its snapshots: nobody is deactivated who was listed in it, and nobody
\* is left who was not (_read_once, run_directory_sync).
ProjectionIsOneSnapshot ==
  projected.of # 0 => projected.active = Listed(history[projected.of])
=============================================================================
