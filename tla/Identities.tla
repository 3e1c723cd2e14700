----------------------------- MODULE Identities -----------------------------
(***************************************************************************)
(* How a person of the upstream gets an account: the login by OpenID       *)
(* Connect and the trusted principal look for the identity, choose a user  *)
(* name, and commit, each statement reading what others have committed     *)
(* meanwhile.  Two unique constraints of the table decide between two that *)
(* found nothing.                                                          *)
(*                                                                         *)
(* Left out: e-mail, picture and locale, and the pull of grants that       *)
(* follows (AuthzSnapshot).                                                *)
(***************************************************************************)
EXTENDS Naturals

CONSTANTS Process, \* one request at a time in each
          Human,   \* identities: subjects of the upstream
          Name,    \* user names
          Shown,   \* those that the upstream shows for a human; any may have any
          WithSub, \* per such name and human, f"{name}-{sub[:8]}"
          NoAccount, NoRequest

Accounts == [username : Name, active : BOOLEAN]

Requests == [human : Human, name : Shown, username : Name,
             step : {"new", "update", "insert", "refused"}]

\* Eight characters tell subjects apart or not, and a name with a subject may be
\* anybody's name: WithSub is any function.
ASSUME IdentityAssumption ==
  /\ Shown \subseteq Name
  /\ WithSub \in [Shown \X Human -> Name]
  /\ NoAccount \notin Accounts
  /\ NoRequest \notin Requests

VARIABLES
  external, \* per human, its account: [username, active]
  typed,    \* user names of local accounts
  request,  \* per process: [human, name, step, username]
  passed    \* history: an account was inserted since the request looked

identityVars == <<external, typed, request, passed>>

IdentityTypeOK ==
  /\ external \in [Human -> Accounts \cup {NoAccount}]
  /\ typed \subseteq Name
  /\ request \in [Process -> Requests \cup {NoRequest}]
  /\ passed \in [Process -> BOOLEAN]

IdentityInit ==
  /\ external = [h \in Human |-> NoAccount]
  /\ typed \in SUBSET Name
  /\ request = [p \in Process |-> NoRequest]
  /\ passed = [p \in Process |-> FALSE]

NameTaken(u) == u \in typed \/ \E h \in Human : external[h] # NoAccount /\ external[h].username = u

At(p, step) == request[p] # NoRequest /\ request[p].step = step

\* Every request under way has been passed by an insert.
Inserted == passed' = [p \in Process |-> request[p] # NoRequest]

-----------------------------------------------------------------------------
\* An account that is inactive is refused; nothing has changed then.
Find(p, h, n) ==
  /\ request[p] = NoRequest
  /\ external[h] # NoAccount => external[h].active
  /\ request' = [request EXCEPT ![p] =
       [human |-> h, name |-> n, username |-> n,
        step |-> IF external[h] = NoAccount THEN "new" ELSE "update"]]
  /\ passed' = [passed EXCEPT ![p] = FALSE]
  /\ UNCHANGED <<external, typed>>

\* Mutant: the name is taken as it is.
NameAsIs(r) == r.name

Fallback(r) == WithSub[r.name, r.human]

\* The query for the name, and the name chosen; nobody looks for the second.
Chosen(r) == IF NameTaken(r.name) THEN Fallback(r) ELSE r.name

ChooseName(p) ==
  /\ At(p, "new")
  /\ request' = [request EXCEPT ![p].username = Chosen(request[p]), ![p].step = "insert"]
  /\ UNCHANGED <<external, typed, passed>>

\* The constraints: one account of a user name, one of an identity.
Insertable(r) == ~NameTaken(r.username) /\ external[r.human] = NoAccount

Insert(p) ==
  /\ At(p, "insert")
  /\ Insertable(request[p])
  /\ external' = [external EXCEPT ![request[p].human] = [username |-> request[p].username, active |-> TRUE]]
  /\ request' = [request EXCEPT ![p] = NoRequest]
  /\ passed' = [q \in Process |-> q # p /\ request[q] # NoRequest]
  /\ UNCHANGED typed

\* IntegrityError: 500, and the request is over.
Refused(p) ==
  /\ At(p, "insert")
  /\ ~Insertable(request[p])
  /\ request' = [request EXCEPT ![p].step = "refused"]
  /\ UNCHANGED <<external, typed, passed>>

Finish(p) ==
  /\ At(p, "update") \/ At(p, "refused")
  /\ request' = [request EXCEPT ![p] = NoRequest]
  /\ passed' = [passed EXCEPT ![p] = FALSE]
  /\ UNCHANGED <<external, typed>>

\* Local accounts come and go; an external one is taken out of use and back.
TypeName(n) ==
  /\ ~NameTaken(n)
  /\ typed' = typed \cup {n}
  /\ Inserted
  /\ UNCHANGED <<external, request>>

Forget(n) ==
  /\ n \in typed
  /\ typed' = typed \ {n}
  /\ UNCHANGED <<external, request, passed>>

Use(h) ==
  /\ external[h] # NoAccount
  /\ external' = [external EXCEPT ![h].active = ~@]
  /\ UNCHANGED <<typed, request, passed>>

IdentityNext ==
  \/ \E p \in Process : \/ \E h \in Human, n \in Shown : Find(p, h, n)
                        \/ ChooseName(p) \/ Insert(p) \/ Refused(p) \/ Finish(p)
  \/ \E n \in Name : TypeName(n) \/ Forget(n)
  \/ \E h \in Human : Use(h)

IdentitySpec == IdentityInit /\ [][IdentityNext]_identityVars

-----------------------------------------------------------------------------
\* A person is refused by a constraint only if an account was inserted while its
\* request ran, or if it was given its name with eight characters of its subject
\* and another account bears that: no request is refused alone because of a name
\* that others have, nor because of its own account (upsert_identity,
\* resolve_trusted_principal: the name is looked up and taken in two statements).
RefusalIsExplained ==
  [][\A p \in Process :
       ~At(p, "refused") /\ At(p, "refused")' =>
         \/ passed[p]
         \/ request[p].username = Fallback(request[p]) /\ NameTaken(request[p].username)
    ]_identityVars
=============================================================================
