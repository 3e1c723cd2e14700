------------------------- MODULE NotificationCenter -------------------------
(***************************************************************************)
(* The notification centre: rows that other transactions insert, a list    *)
(* that a client walks page by page with a cursor, and the marks "read".   *)
(*                                                                         *)
(* created_at is the time the inserting transaction began, so rows appear  *)
(* out of its order, and several share one; the id, a random UUID, decides *)
(* between them.  Left out: what a notification says, and unread_count.    *)
(***************************************************************************)
EXTENDS Naturals, FiniteSets, Sequences, Functions

CONSTANTS NoteCount, \* notifications, by the order of their ids
          LastStamp, \* times of creation: 1 .. LastStamp
          Mine,      \* the notifications of the account that walks; the others are not its own
          PageLimit  \* limit of a page

Note  == 1 .. NoteCount
Stamp == 1 .. LastStamp

ASSUME CenterAssumption ==
  /\ NoteCount \in Nat
  /\ LastStamp \in Nat
  /\ Mine \subseteq Note
  /\ PageLimit \in Nat \ {0}

VARIABLES
  created, \* created_at of each row, 0 if there is none
  unread,  \* the rows without a read_at
  walk,    \* "none", "on" (there is a next_cursor) or "end"
  shown,   \* the items of the pages so far
  there    \* history: the account's rows when the walk began

centerVars == <<created, unread, walk, shown, there>>

CenterInit ==
  /\ created = [n \in Note |-> 0]
  /\ unread = {}
  /\ walk = "none"
  /\ shown = <<>>
  /\ there = {}

Inbox == {n \in Mine : created[n] > 0}

\* ORDER BY created_at DESC, id DESC: m comes before n.
Before(m, n) ==
  \/ created[m] > created[n]
  \/ created[m] = created[n] /\ m > n

\* Mutant: the cursor is a time only.
AfterTime(c) == {n \in Inbox : created[n] < created[c]}

\* The rows below the cursor, which carries created_at and id of row c.
After(c) == {n \in Inbox : Before(c, n)}

\* The query asks for one row more than the limit: is there one?
More(R) == Cardinality(R) > PageLimit

-----------------------------------------------------------------------------
Post(n, t) ==
  /\ created[n] = 0
  /\ created' = [created EXCEPT ![n] = t]
  /\ unread' = unread \cup {n}
  /\ UNCHANGED <<walk, shown, there>>

\* The page of the rows R: as many as the limit, in order, and none that is left
\* comes before one of them.  There is one such sequence.
Pages(R) ==
  LET size == IF More(R) THEN PageLimit ELSE Cardinality(R)
  IN  {s \in [1 .. size -> R] :
         /\ \A i, j \in 1 .. size : i < j => Before(s[i], s[j])
         /\ \A i \in 1 .. size, n \in R \ Range(s) : Before(s[i], n)}

ListFirst ==
  /\ shown' \in Pages(Inbox)
  /\ walk' = IF More(Inbox) THEN "on" ELSE "end"
  /\ there' = Inbox
  /\ UNCHANGED <<created, unread>>

\* The cursor is the last item of the page before.
ListNext ==
  /\ walk = "on"
  /\ LET rest == After(shown[Len(shown)]) IN
       /\ \E s \in Pages(rest) : shown' = shown \o s
       /\ walk' = IF More(rest) THEN "on" ELSE "end"
  /\ UNCHANGED <<created, unread, there>>

\* mark_read and mark_all_read touch the rows of the account only.
MarkRead(R) ==
  /\ R # {}
  /\ unread' = unread \ R
  /\ UNCHANGED <<created, walk, shown, there>>

CenterNext ==
  \/ \E n \in Note, t \in Stamp : Post(n, t)
  \/ ListFirst
  \/ ListNext
  \/ \E n \in Inbox : MarkRead({n})
  \/ MarkRead(Inbox \cap unread)

CenterSpec == CenterInit /\ [][CenterNext]_centerVars

-----------------------------------------------------------------------------
\* Whatever is inserted or marked between two pages, a walk shows the account
\* its own notifications only, newest first and none twice, and at its end it
\* has shown every one that was there when it began.  (list_notifications:
\* rows with one created_at on both sides of a page's end, and rows that
\* appear above or below the cursor.)
WalkIsExact ==
  /\ \A i \in DOMAIN shown : shown[i] \in Mine
  /\ \A i, j \in DOMAIN shown : i < j => Before(shown[i], shown[j])
  /\ walk = "end" => there \subseteq Range(shown)
=============================================================================
