----------------------------- MODULE ReadCache ------------------------------
(***************************************************************************)
(* The read cache of the frontend: hooks that paint the answer of a GET,   *)
(* one cache for all of them, and a transport that merges pure GETs of one *)
(* path and credential.  A write, or another person, makes what was read   *)
(* before it old.                                                          *)
(*                                                                         *)
(* Of an answer the model keeps its age: "new", "old" once the server has  *)
(* moved on and "late" once the cache was told of that; what a hook had in *)
(* hand when the cache was cleared is "alien".  Writes overlap, and their  *)
(* answers come in any order or never.  A render and its effects are one   *)
(* step, and so are the sending and the doing of a write.  Left out: deep  *)
(* copies, the limit of 100 entries, query strings (a key is a path),      *)
(* hooks without a key.                                                    *)
(***************************************************************************)
EXTENDS Naturals

CONSTANTS Hook,       \* useAsyncData hooks
          Path,        \* paths, each its own prefix
          Token,      \* numbers of the credentials of this tab, in their order; behind a gateway there is one
          Edit,       \* bound: writes that the tab has yet to act on
          MaxPending, \* bound: reads of one hook that have not settled
          Nil

ReadId == 1 .. MaxPending

Ages == {"new", "old", "late"}
\* What is kept; "stray" is the answer of a GET that somebody else had sent, or
\* of a write that was overtaken.
Answers == Ages \cup {"alien", "stray"}
Done == [path : Path, age : {"new", "old", "stray"}]
Gets == [age : Ages \cup {Nil}, owner : Hook \cup {Nil}]
Reads == [key : Path, behind : ReadId \cup {0}, get : (Path \X Token) \cup {Nil},
          fit : BOOLEAN, joined : BOOLEAN]

ASSUME ReadAssumption ==
  /\ Token \subseteq Nat /\ Token # {}
  /\ MaxPending \in Nat
  /\ Nil \notin Ages \cup Answers \cup Done \cup Gets \cup Reads \cup Hook \cup Path
  /\ Nil \notin Path \X Token

VARIABLES
  token,   \* authToken()
  writes,  \* the answers of writes done, until the tab has acted on them
  table,   \* inFlightGets; owner: the hook that sent it and still shows its key
  entries, \* the cache
  hooks

readVars == <<token, writes, table, entries, hooks>>

\* flight is inFlight.current and retired is retired.current; live says that
\* the read in flight is the one to show (alive, and its epoch).
Closed ==
  [on |-> FALSE, key |-> Nil, data |-> Nil, mode |-> "loading",
   live |-> FALSE, flight |-> 0, retired |-> 0, reads |-> [i \in ReadId |-> Nil]]

Slots == [on : BOOLEAN, key : Path \cup {Nil}, data : Answers \cup {Nil},
          mode : {"loading", "refreshing", "ok", "error"},
          live : BOOLEAN, flight : ReadId \cup {0}, retired : ReadId \cup {0},
          reads : [ReadId -> Reads \cup {Nil}]]

ReadTypeOK ==
  /\ token \in Token
  /\ writes \in [Edit -> Done \cup {Nil}]
  /\ table \in [Path \X Token -> Gets \cup {Nil}]
  /\ entries \in [Path -> Answers \cup {Nil}]
  /\ hooks \in [Hook -> Slots]

ReadInit ==
  /\ token = CHOOSE t \in Token : \A u \in Token : t <= u
  /\ writes = [w \in Edit |-> Nil]
  /\ table = [g \in Path \X Token |-> Nil]
  /\ entries = [k \in Path |-> Nil]
  /\ hooks = [x \in Hook |-> Closed]

-----------------------------------------------------------------------------
\* load(): the read is sent, or joins a GET under way that is not its own.
Loaded(r, x, T) ==
  LET g == <<r.key, token>>
  IN  [r EXCEPT !.behind = 0, !.get = g, !.joined = T[g] # Nil /\ T[g].owner # x]

\* The table with the GETs that the reads of the hooks H have sent.
Sent(H, T) ==
  LET Of(g) == {x \in Hook : \E i \in ReadId :
                  LET r == H[x].reads[i] IN r # Nil /\ r.behind = 0 /\ r.get = g}
  IN  [g \in DOMAIN T |->
         IF T[g] = Nil /\ Of(g) # {} THEN [age |-> Nil, owner |-> CHOOSE x \in Of(g) : TRUE]
                                         ELSE T[g]]

\* The table when hook x leaves its key.
Left(x) ==
  [g \in DOMAIN table |->
     IF table[g] # Nil /\ table[g].owner = x THEN [table[g] EXCEPT !.owner = Nil] ELSE table[g]]

\* The reads that matter: those in flight or retired, and those they wait for.
WaitsIn(h, S) ==
  /\ {h.flight, h.retired} \subseteq S \cup {0}
  /\ \A j \in S : h.reads[j] # Nil => h.reads[j].behind \in S \cup {0}
Matters(h, i) == \A S \in SUBSET ReadId : WaitsIn(h, S) => i \in S

\* The others are left aside, and what one that will not be shown is to do when
\* it settles.
Tidy(h) ==
  LET Shown(i) == h.live /\ i = h.flight
  IN  [h EXCEPT !.reads = [i \in ReadId |->
         IF h.reads[i] = Nil \/ ~Matters(h, i) THEN Nil
         ELSE IF Shown(i) THEN h.reads[i] ELSE [h.reads[i] EXCEPT !.fit = FALSE, !.joined = FALSE]]]

Room(h) == \E i \in ReadId : h.reads[i] = Nil

\* Mutant: nothing to wait for.
NoBlocker(h) == 0

\* The retired read, when it has the key of the next one.
Blocker(h) ==
  IF h.retired # 0 /\ h.reads[h.retired].key = h.key THEN h.retired ELSE 0

\* The effect that begins a read: at once, or once the retired one has settled.
Begin(h, x, T) ==
  LET i == CHOOSE j \in ReadId : h.reads[j] = Nil
      read == [key |-> h.key, behind |-> Blocker(h), get |-> Nil, fit |-> TRUE, joined |-> FALSE]
  IN  Tidy([h EXCEPT !.live = TRUE, !.flight = i,
                     !.reads[i] = IF Blocker(h) = 0 THEN Loaded(read, x, T) ELSE read])

Change(H, T) == hooks' = H /\ table' = Sent(H, T)

-----------------------------------------------------------------------------
\* A hook is mounted, enabled again, or given another key: it paints what the
\* cache has and reads.
Show(x, k, h) ==
  /\ Room(h)
  /\ LET seen == [h EXCEPT !.on = TRUE, !.key = k, !.data = entries[k],
                           !.mode = IF entries[k] = Nil THEN "loading" ELSE "refreshing"]
     IN  Change([hooks EXCEPT ![x] = Begin(seen, x, Left(x))], Left(x))
  /\ UNCHANGED <<token, writes, entries>>

Mount(x, k)  == ~hooks[x].on /\ Show(x, k, Closed)
Enable(x, k) == ~hooks[x].on /\ hooks[x].key # Nil /\ Show(x, k, hooks[x])
Rekey(x, k)  == hooks[x].on /\ hooks[x].key # k /\ Show(x, k, hooks[x])

Disable(x) ==
  /\ hooks[x].on
  /\ LET h == [hooks[x] EXCEPT !.on = FALSE, !.live = FALSE, !.data = Nil, !.mode = "loading"] IN
       Change([hooks EXCEPT ![x] = Tidy(h)], Left(x))
  /\ UNCHANGED <<token, writes, entries>>

Reload(x) ==
  /\ hooks[x].on /\ Room(hooks[x])
  /\ Change([hooks EXCEPT ![x] = Begin([@ EXCEPT !.mode = "loading"], x, table)], table)
  /\ UNCHANGED <<token, writes, entries>>

\* Another consumer of the transport asks for a path.
Ask(g) ==
  /\ g[2] = token /\ table[g] = Nil
  /\ table' = [table EXCEPT ![g] = [age |-> Nil, owner |-> Nil]]
  /\ UNCHANGED <<token, writes, entries, hooks>>

\* The server reads what it will answer.
Read(g) ==
  /\ table[g] # Nil /\ table[g].age = Nil
  /\ table' = [table EXCEPT ![g].age = "new"]
  /\ UNCHANGED <<token, writes, entries, hooks>>

\* Reads L of hook x have settled; those behind them go.
Settle(h, x, L, T) ==
  [h EXCEPT !.flight = IF @ \in L THEN 0 ELSE @,
            !.retired = IF @ \in L THEN 0 ELSE @,
            !.live = @ /\ h.flight \notin L,
            !.reads = [i \in ReadId |->
              IF i \in L THEN Nil
              ELSE IF @[i] # Nil /\ @[i].behind \in L THEN Loaded(@[i], x, T) ELSE @[i]]]

Landing(x, g) ==
  {i \in ReadId : LET r == hooks[x].reads[i] IN r # Nil /\ r.behind = 0 /\ r.get = g}

\* The hooks that take the answer of g, and what they take.
Takers(g) == {x \in Hook : hooks[x].live /\ hooks[x].flight \in Landing(x, g)}
Taken(x, g) == IF hooks[x].reads[hooks[x].flight].joined THEN "stray" ELSE table[g].age

\* A GET leaves the table and its reads settle, with the changes of slot in New.
Land(g, New) ==
  LET T == [table EXCEPT ![g] = Nil]
  IN  Change([x \in Hook |->
                Tidy(Settle(IF x \in Takers(g) THEN New[x] ELSE hooks[x], x, Landing(x, g), T))], T)

\* startedAt is the generation.
Fits(x) == hooks[x].reads[hooks[x].flight].fit

Succeed(g) ==
  /\ table[g] # Nil /\ table[g].age # Nil
  /\ Land(g, [x \in Takers(g) |-> [hooks[x] EXCEPT !.data = Taken(x, g), !.mode = "ok"]])
  /\ LET W == {x \in Takers(g) : Fits(x)} IN
       IF W = {} THEN UNCHANGED entries
                 ELSE \E x \in W : entries' = [entries EXCEPT ![g[1]] = Taken(x, g)]
  /\ UNCHANGED <<token, writes>>

\* 401, 403, 404 (revoking) drop the data; the network and 5xx keep them.
Fail(g, revoking) ==
  /\ table[g] # Nil
  /\ Land(g, [x \in Takers(g) |-> [hooks[x] EXCEPT !.data = IF revoking THEN Nil ELSE @, !.mode = "error"]])
  /\ entries' = IF revoking /\ Takers(g) # {} THEN [entries EXCEPT ![g[1]] = Nil] ELSE entries
  /\ UNCHANGED <<token, writes>>

-----------------------------------------------------------------------------
Aged(age, from, to) == IF age \in from THEN to ELSE age

\* The table, the hooks and the writes when answers for paths K grow older.
TableAged(K, from, to) ==
  [g \in DOMAIN table |->
     IF g[1] \in K /\ table[g] # Nil THEN [table[g] EXCEPT !.age = Aged(@, from, to)] ELSE table[g]]
HooksAged(K, from, to) ==
  [x \in Hook |-> IF hooks[x].key \in K THEN [hooks[x] EXCEPT !.data = Aged(@, from, to)] ELSE hooks[x]]
WritesAged(K, from, to) ==
  [w \in Edit |->
     IF writes[w] # Nil /\ writes[w].path \in K THEN [writes[w] EXCEPT !.age = Aged(@, from, to)] ELSE writes[w]]

\* The server moves on for paths K; the cache hears of it later, if it does.
MoveOn(K) ==
  /\ table' = TableAged(K, {"new"}, "old")
  /\ entries' = [k \in Path |-> IF k \in K THEN Aged(entries[k], {"new"}, "old") ELSE entries[k]]
  /\ hooks' = HooksAged(K, {"new"}, "old")

\* A write of this tab is done, and will be answered with the whole of the new data.
WritePage(w, k) ==
  /\ writes[w] = Nil
  /\ MoveOn({k})
  /\ writes' = [WritesAged({k}, {"new"}, "old") EXCEPT ![w] = [path |-> k, age |-> "new"]]
  /\ UNCHANGED token

\* The answer is lost, and whoever wrote tells nobody.
LoseWrite(w) ==
  /\ writes[w] # Nil
  /\ writes' = [writes EXCEPT ![w] = Nil]
  /\ UNCHANGED <<token, table, entries, hooks>>

\* Another person from here on, with a credential never used before unless
\* there is only one.  A GET that was sent already is one of the person before.
ChangePerson(t) ==
  /\ t > token \/ Token = {t}
  /\ table' = TableAged(Path, {Nil, "new"}, "old")
  /\ entries' = [k \in Path |-> Aged(entries[k], {"new"}, "old")]
  /\ hooks' = HooksAged(Path, {"new"}, "old")
  /\ token' = t
  /\ writes' = WritesAged(Path, {"new"}, "old")

Unfit(h) == [h EXCEPT !.reads = [i \in ReadId |-> IF @[i] = Nil THEN Nil ELSE [@[i] EXCEPT !.fit = FALSE]]]

\* Mutant: the event leaves the read in flight valid.
StaysLive(h) == h

\* What an event does to the read of a hook it concerns.
Retire(h) ==
  [h EXCEPT !.live = FALSE, !.retired = IF h.flight # 0 THEN h.flight ELSE @]

Concerns(h, k) == h.on /\ h.key = k /\ h.mode # "error"

\* What the other writes of path k are once the cache is told of w.
Told(w, k) == [WritesAged({k}, {"old"}, "stray") EXCEPT ![w] = Nil]

\* Whoever wrote hears the answer of w, and tells the cache that the path changed.
Invalidate(w) ==
  /\ writes[w] # Nil
  /\ LET k == writes[w].path
         H == HooksAged({k}, {"old"}, "late")
         T == TableAged({k}, {"old"}, "late")
         Waiting(h) == IF h.data = Nil THEN "loading" ELSE "refreshing"
     IN  /\ \A x \in Hook : Concerns(hooks[x], k) => Room(hooks[x])
         /\ entries' = [entries EXCEPT ![k] = Nil]
         /\ Change([x \in Hook |->
              IF Concerns(hooks[x], k) THEN Begin([Retire(Unfit(H[x])) EXCEPT !.mode = Waiting(H[x])], x, T)
                                       ELSE Unfit(H[x])], T)
         /\ writes' = Told(w, k)
  /\ UNCHANGED token

\* The same, but the answer itself is put in, with the generation of now: it is
\* taken whatever the cache was told since the write was sent.
Replace(w) ==
  /\ writes[w] # Nil
  /\ LET k == writes[w].path
         data == writes[w].age
         H == HooksAged({k}, {"old"}, "late")
     IN  /\ entries' = [entries EXCEPT ![k] = data]
         /\ Change([x \in Hook |->
              IF H[x].on /\ H[x].key = k THEN Tidy([Retire(H[x]) EXCEPT !.data = data, !.mode = "ok"])
                                        ELSE H[x]], TableAged({k}, {"old"}, "late"))
         /\ writes' = Told(w, k)
  /\ UNCHANGED token

\* The identity of another account is installed (refetch), or a session ended.
Clear(refetch) ==
  /\ refetch => \A x \in Hook : hooks[x].on => Room(hooks[x])
  /\ entries' = [k \in Path |-> Nil]
  /\ LET H == HooksAged(Path, {"old", "late"}, "alien")
         T == TableAged(Path, {"old"}, "late")
         Emptied(h) == [Retire(Unfit(h)) EXCEPT !.data = Nil, !.mode = "loading"]
     IN  Change([x \in Hook |->
           IF ~H[x].on THEN Unfit(H[x])
           ELSE IF refetch THEN Begin(Emptied(H[x]), x, T)
           ELSE Tidy(Emptied(H[x]))], T)
  /\ writes' = WritesAged(Path, {"old"}, "stray")
  /\ UNCHANGED token

ReadNext ==
  \/ \E x \in Hook, k \in Path : Mount(x, k) \/ Enable(x, k) \/ Rekey(x, k)
  \/ \E x \in Hook : Disable(x) \/ Reload(x)
  \/ \E g \in Path \X Token : Ask(g) \/ Read(g) \/ Succeed(g) \/ Fail(g, TRUE) \/ Fail(g, FALSE)
  \/ \E w \in Edit, k \in Path : WritePage(w, k)
  \/ \E w \in Edit : LoseWrite(w) \/ Invalidate(w) \/ Replace(w)
  \/ \E t \in Token : ChangePerson(t)
  \/ Clear(TRUE) \/ Clear(FALSE)

ReadSpec == ReadInit /\ [][ReadNext]_readVars

-----------------------------------------------------------------------------
\* What was read before an event is never taken after it: the cache and a hook
\* at rest have nothing older than the last write or change of person they were
\* told of, and no hook paints anything of the person before.  Exempt is what is
\* stray: the answer of a GET that the hook joined and that somebody else had
\* sent, and a write-through whose answer comes after the cache was told of a
\* later write to the path or was cleared, which replaceAsyncData takes all the
\* same.  (useAsyncData: an answer asked before an invalidation lands after it.)
OldNeverLands ==
  /\ \A k \in Path : entries[k] \notin {"late", "alien"}
  /\ \A x \in Hook :
       LET h == hooks[x] IN
       h.on => h.data # "alien" /\ (h.mode = "ok" => h.data # "late")
=============================================================================
