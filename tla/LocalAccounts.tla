---------------------------- MODULE LocalAccounts ----------------------------
(***************************************************************************)
(* The administration of local accounts: every operation is a transaction  *)
(* of PostgreSQL in READ COMMITTED.  It first locks the rows of all local  *)
(* administrators, in the order of their keys, then the row it changes,    *)
(* decides by what it reads there, writes, counts the administrators that  *)
(* are left, and commits.  Who asks has been resolved before it began.     *)
(*                                                                         *)
(* The operation and its target are chosen when the locks are held: until  *)
(* then the code does nothing that depends on them.                        *)
(***************************************************************************)
EXTENDS Naturals

CONSTANTS Account,     \* keys of rows, in their order
          Txn,         \* transactions at a time
          Perm,        \* grantable permissions
          High,        \* those of high risk
          Manage,      \* accounts.local.manage
          Kind,        \* what the operators ask for
          Bootstrap,   \* the administrator the host seeds
          External,    \* an operator of EasyAuth's who was given Manage
          Unused,      \* a row not yet inserted
          Deleted,     \* a row deleted
          NoDraft,
          MaxVersion   \* bound on local_grants_version

ASSUME BoundsAssumption ==
  /\ Account \subseteq Nat
  /\ Bootstrap \in Account
  /\ External \notin Account
  /\ High \subseteq Perm
  /\ Manage \in High \/ Manage \notin Perm
  /\ Kind \subseteq {"create", "delete", "active", "admin", "expires", "grants"}
  /\ MaxVersion \in Nat
  /\ Unused # Deleted

VARIABLES
  acct,   \* the committed rows
  pc,     \* per transaction: how far it is,
  actor,  \* who asked,
  super,  \* is_local_superadmin of the actor, when the request came,
  todo,   \* rows of administrators it has still to lock,
  held,   \* rows it has locked,
  draft   \* the row it has written, [id, row], or NoDraft

vars == <<acct, pc, actor, super, todo, held, draft>>

\* What an account may have been granted: known permissions, each once and in a
\* scope that is grantable; those that everybody has are not kept.
Grants == SUBSET Perm

\* expires "set" stands for any time: nothing but the count looks at it.
Record == [active : BOOLEAN, admin : BOOLEAN, expires : {"never", "set"},
           grants : Grants, version : 0 .. MaxVersion]

ASSUME RowsAssumption == Unused \notin Record /\ Deleted \notin Record
ASSUME DraftAssumption == NoDraft \notin [id : Account, row : Record \cup {Deleted}]

Operator == Account \cup {External}

TypeOK ==
  /\ acct \in [Account -> Record \cup {Unused, Deleted}]
  /\ pc \in [Txn -> {"idle", "asked", "lock", "written"}]
  /\ actor \in [Txn -> Operator]
  /\ super \in [Txn -> BOOLEAN]
  /\ todo \in [Txn -> SUBSET Account]
  /\ held \in [Txn -> SUBSET Account]
  /\ draft \in [Txn -> [id : Account, row : Record \cup {Deleted}] \cup {NoDraft}]

\* seed inserts the administrator; the others are not there yet or ordinary.
Ordinary == [active |-> TRUE, admin |-> FALSE, expires |-> "never", grants |-> {}, version |-> 0]
Seeded == [Ordinary EXCEPT !.admin = TRUE]

Init ==
  /\ acct \in [Account -> {Unused, Ordinary, Seeded}]
  /\ \A i \in Account : acct[i] = Seeded <=> i = Bootstrap
  /\ pc = [t \in Txn |-> "idle"]
  /\ actor = [t \in Txn |-> External]
  /\ super = [t \in Txn |-> FALSE]
  /\ todo = [t \in Txn |-> {}]
  /\ held = [t \in Txn |-> {}]
  /\ draft = [t \in Txn |-> NoDraft]

-----------------------------------------------------------------------------
(* Rows *)

Present(r) == r \notin {Unused, Deleted}

Admin(r) == Present(r) /\ r.admin

\* usable_local_admin_count; it counts one with an expiry still to come too.
Usable(r) == Admin(r) /\ r.active

Privileged(r) == r.admin \/ r.grants \cap High # {}

\* The symmetric difference of two sets of grants touches one of high risk.
TouchesHigh(G, H) == ((G \ H) \cup (H \ G)) \cap High # {}

\* Nobody else has locked the row.
Free(t, i) == \A u \in Txn \ {t} : i \notin held[u]

-----------------------------------------------------------------------------
(* A transaction *)

\* current_user has resolved the operator; the route requires Manage.
Request(t, a) ==
  /\ pc[t] = "idle"
  /\ a # External => /\ Present(acct[a])
                     /\ acct[a].active
                     /\ acct[a].admin \/ Manage \in acct[a].grants
  /\ pc' = [pc EXCEPT ![t] = "asked"]
  /\ actor' = [actor EXCEPT ![t] = a]
  /\ super' = [super EXCEPT ![t] = (a # External /\ Admin(acct[a]))]
  /\ UNCHANGED <<acct, todo, held, draft>>

\* lock_local_admins: the statement sees the rows committed when it begins, ...
SelectAdmins(t) ==
  /\ pc[t] = "asked"
  /\ pc' = [pc EXCEPT ![t] = "lock"]
  /\ todo' = [todo EXCEPT ![t] = {i \in Account : Admin(acct[i])}]
  /\ UNCHANGED <<acct, actor, super, held, draft>>

\* ... locks them one after another, and skips those that are administrators
\* no more when their turn comes.
LockAdmin(t, i) ==
  /\ pc[t] = "lock"
  /\ i \in todo[t]
  /\ \A k \in todo[t] : i <= k
  /\ Free(t, i)
  /\ todo' = [todo EXCEPT ![t] = @ \ {i}]
  /\ held' = [held EXCEPT ![t] = IF Admin(acct[i]) THEN @ \cup {i} ELSE @]
  /\ UNCHANGED <<acct, pc, actor, super, draft>>

\* Mutant: the administrators are locked one by one, as they are needed.
LocksNobody(t) == pc[t] = "lock"

LocksHeld(t) == pc[t] = "lock" /\ todo[t] = {}

\* Mutant: the row is read without a lock.
TargetUnlocked(t, i) == Present(acct[i]) /\ UNCHANGED held

\* get_account(for_update=True), of a row that is there.
LockTarget(t, i) ==
  /\ Present(acct[i])
  /\ Free(t, i)
  /\ held' = [held EXCEPT ![t] = @ \cup {i}]

\* _ensure_admin_remains: the count sees what others have committed, and r.
AdminRemains(i, r) == Usable(r) \/ \E k \in Account \ {i} : Usable(acct[k])

\* The flush of a changed row r, which the count after it accepts.
Write(t, i, r) ==
  /\ AdminRemains(i, r)
  /\ draft' = [draft EXCEPT ![t] = [id |-> i, row |-> r]]
  /\ pc' = [pc EXCEPT ![t] = "written"]
  /\ UNCHANGED <<acct, actor, super, todo>>

Self(t, i) == actor[t] = i

\* _guard_privileged_target
MayChange(t, i) == super[t] \/ ~Privileged(acct[i])

-----------------------------------------------------------------------------
(* The operations *)

\* An insert waits for another one of the same username.
Create(t, i) ==
  /\ "create" \in Kind
  /\ LocksHeld(t)
  /\ acct[i] = Unused
  /\ Free(t, i)
  /\ held' = [held EXCEPT ![t] = @ \cup {i}]
  /\ \E admin \in BOOLEAN, expires \in {"never", "set"}, G \in Grants :
       /\ admin => (super[t] /\ G = {} /\ expires = "never")
       /\ super[t] \/ ~TouchesHigh({}, G)
       /\ Write(t, i, [active |-> TRUE, admin |-> admin, expires |-> expires,
                       grants |-> G, version |-> 0])

Delete(t, i) ==
  /\ "delete" \in Kind
  /\ LocksHeld(t)
  /\ LockTarget(t, i)
  /\ ~Self(t, i)
  /\ MayChange(t, i)
  /\ Write(t, i, Deleted)

\* Mutant: an account that becomes an administrator keeps its grants and expiry.
PromotedAsIs(r) == [r EXCEPT !.admin = TRUE]

\* _apply_admin_change, upwards: no grants, no expiry.
Promoted(r) ==
  [r EXCEPT !.admin = TRUE, !.grants = {}, !.version = @ + 1, !.expires = "never"]

\* The values a PATCH of the row r may end in. One that names active or
\* is_admin with the value of the row does nothing; one that names expires_at
\* (dated) is looked at whatever it says.
Flag(kind, old) == IF kind \in Kind THEN BOOLEAN ELSE {old}
Expiry(dated, old) == IF dated THEN {"never", "set"} ELSE {old}

Update(t, i) ==
  /\ LocksHeld(t)
  /\ LockTarget(t, i)
  /\ \E dated \in {FALSE, "expires" \in Kind} :
     \E active \in Flag("active", acct[i].active), admin \in Flag("admin", acct[i].admin),
        expires \in Expiry(dated, acct[i].expires) :
       LET r == acct[i]
           turns == admin # r.admin
           moves == dated /\ (expires = "set" \/ r.expires = "set")
           q == [r EXCEPT !.active = active]
       IN  /\ turns => super[t]
           /\ (turns \/ moves \/ q # r) => MayChange(t, i)
           /\ Self(t, i) => /\ active \/ ~r.active
                            /\ admin \/ ~r.admin
                            /\ ~dated
           /\ (dated /\ admin) => expires = "never"
           /\ IF turns /\ admin
                THEN r.version < MaxVersion /\ Write(t, i, Promoted(q))
                ELSE Write(t, i, [q EXCEPT !.admin = admin, !.expires = expires])

Replaced(r, G) == [r EXCEPT !.grants = G, !.version = @ + 1]

\* The expected_version of the request is the version of the row.
SetPermissions(t, i) ==
  /\ "grants" \in Kind
  /\ LocksHeld(t)
  /\ LockTarget(t, i)
  /\ ~acct[i].admin
  /\ \E G \in Grants :
       LET r == acct[i] IN
       /\ super[t] \/ ~TouchesHigh(r.grants, G)
       /\ IF G = r.grants
            THEN Write(t, i, r)
            ELSE /\ MayChange(t, i)
                 /\ r.version < MaxVersion
                 /\ Write(t, i, Replaced(r, G))

End(t) ==
  /\ pc' = [pc EXCEPT ![t] = "idle"]
  /\ actor' = [actor EXCEPT ![t] = External]
  /\ super' = [super EXCEPT ![t] = FALSE]
  /\ todo' = [todo EXCEPT ![t] = {}]
  /\ held' = [held EXCEPT ![t] = {}]
  /\ draft' = [draft EXCEPT ![t] = NoDraft]

Commit(t) ==
  /\ pc[t] = "written"
  /\ acct' = [acct EXCEPT ![draft[t].id] = draft[t].row]
  /\ End(t)

\* Refused by a guard or by the count, failed, or the victim of a deadlock:
\* two transactions may lock the same rows in different orders.
Rollback(t) ==
  /\ pc[t] # "idle"
  /\ End(t)
  /\ UNCHANGED acct

-----------------------------------------------------------------------------
Next ==
  \E t \in Txn :
    \/ \E a \in Operator : Request(t, a)
    \/ SelectAdmins(t)
    \/ \E i \in Account : \/ LockAdmin(t, i)
                          \/ Create(t, i) \/ Delete(t, i) \/ Update(t, i) \/ SetPermissions(t, i)
    \/ Commit(t) \/ Rollback(t)

Spec == Init /\ [][Next]_vars

-----------------------------------------------------------------------------
(* Properties *)

\* However the transactions overlap, a usable administrator remains: no two of
\* them take the last two away, each counting on the other's.
LastAdminRemains == \E i \in Account : Usable(acct[i]) /\ acct[i].expires = "never"

\* An administrator has neither an expiry nor grants, whatever was set while
\* it was on its way to become one.
AdminIsClean ==
  \A i \in Account : Admin(acct[i]) => acct[i].expires = "never" /\ acct[i].grants = {}

\* A client that saw a version of the grants saw these grants: no two changes,
\* of whichever operators, end in the same version (D6).
VersionTellsGrants ==
  [][ \A i \in Account :
        (Present(acct[i]) /\ Present(acct'[i]) /\ acct'[i].grants # acct[i].grants) =>
          acct'[i].version = acct[i].version + 1 ]_acct

\* What a delegate commits changes no privileged account and makes none, also
\* if the account became privileged after the request had come.
DelegateStaysBelow ==
  [][ \A t \in Txn, i \in Account :
        (pc[t] = "written" /\ pc'[t] = "idle" /\ ~super[t] /\ acct'[i] # acct[i]) =>
          /\ Present(acct[i]) => ~Privileged(acct[i])
          /\ Present(acct'[i]) => ~Privileged(acct'[i]) ]_acct
=============================================================================
