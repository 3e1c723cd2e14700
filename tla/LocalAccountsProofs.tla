------------------------- MODULE LocalAccountsProofs -------------------------
(***************************************************************************)
(* What the locks of LocalAccounts are good for, however many operators    *)
(* and accounts there are: a row that a transaction has written cannot     *)
(* change under it, so what it decided by is still so when it commits.     *)
(***************************************************************************)
EXTENDS LocalAccounts, TLAPS

\* What a row r that replaces q may be, for AdminIsClean, ...
Clean(r) == Admin(r) => r.expires = "never" /\ r.grants = {}

\* ... for VersionTellsGrants ...
Counted(q, r) ==
  (Present(q) /\ Present(r) /\ r.grants # q.grants) => r.version = q.version + 1

\* ... and for DelegateStaysBelow.
Below(s, q, r) ==
  (~s /\ r # q) => /\ Present(q) => ~Privileged(q)
                   /\ Present(r) => ~Privileged(r)

Sound(t, i, r) == Clean(r) /\ Counted(acct[i], r) /\ Below(super[t], acct[i], r)

Row == Record \cup {Deleted}

\* No row is locked by two transactions.
HeldApart == \A t, u \in Txn : t # u => held[t] \cap held[u] = {}

\* A row that was written is locked, and right against the committed one.
DraftsSound ==
  \A t \in Txn : pc[t] = "written" =>
    /\ draft[t] # NoDraft
    /\ draft[t].id \in held[t]
    /\ Sound(t, draft[t].id, draft[t].row)

IInv == TypeOK /\ HeldApart /\ DraftsSound /\ AdminIsClean

USE DEF Row

-----------------------------------------------------------------------------
(* What the operations write *)

\* A draft is a row and its key.
LEMMA DraftTyped ==
  ASSUME TypeOK, NEW t \in Txn, draft[t] # NoDraft
  PROVE  draft[t].id \in Account /\ draft[t].row \in Row
  BY DEF TypeOK

\* Promotion clears grants and expiry and counts the version once.
LEMMA PromotedRow ==
  ASSUME NEW r \in Record, r.version < MaxVersion
  PROVE  /\ Promoted(r) \in Record
         /\ Promoted(r).admin /\ Promoted(r).expires = "never" /\ Promoted(r).grants = {}
         /\ Promoted(r).version = r.version + 1
<1>1. r.version + 1 \in 0 .. MaxVersion /\ {} \in Grants
  BY BoundsAssumption DEF Record, Grants
<1>2. Promoted(r) \in Record
  BY <1>1 DEF Promoted, Record
<1> QED  BY <1>1, <1>2 DEF Promoted, Record

\* Replaced grants leave all else but the version, which is counted.
LEMMA ReplacedRow ==
  ASSUME NEW r \in Record, NEW G \in Grants, r.version < MaxVersion
  PROVE  /\ Replaced(r, G) \in Record
         /\ Replaced(r, G).admin = r.admin /\ Replaced(r, G).expires = r.expires
         /\ Replaced(r, G).grants = G
         /\ Replaced(r, G).version = r.version + 1
<1>1. r.version + 1 \in 0 .. MaxVersion
  BY BoundsAssumption DEF Record
<1>2. Replaced(r, G) \in Record
  BY <1>1 DEF Replaced, Record
<1> QED  BY <1>1, <1>2 DEF Replaced, Record

\* Rows in records, and the marks of the absent.
LEMMA PresentRow ==
  ASSUME NEW r \in Record \cup {Unused, Deleted}
  PROVE  Present(r) <=> r \in Record
  BY RowsAssumption DEF Present

\* A change of no grant of high risk leaves those of high risk as they were.
LEMMA HighUntouched ==
  ASSUME NEW G, NEW H, ~TouchesHigh(G, H), G \cap High = {}
  PROVE  H \cap High = {}
  BY DEF TouchesHigh

\* Locking one more row that nobody holds keeps the locks apart.
LEMMA LockKeepsApart ==
  ASSUME TypeOK, HeldApart, NEW t \in Txn, NEW i \in Account, Free(t, i),
         held' = [held EXCEPT ![t] = @ \cup {i}]
  PROVE  HeldApart'
  BY DEF TypeOK, HeldApart, Free

\* A sound write under the lock of its row keeps the invariant.
LEMMA WriteKeeps ==
  ASSUME IInv, NEW t \in Txn, NEW i \in Account, NEW r \in Row,
         pc[t] = "lock", Free(t, i), held' = [held EXCEPT ![t] = @ \cup {i}],
         Write(t, i, r), Sound(t, i, r)
  PROVE  IInv'
<1> USE DEF IInv
<1>1. /\ draft' = [draft EXCEPT ![t] = [id |-> i, row |-> r]]
      /\ pc' = [pc EXCEPT ![t] = "written"]
      /\ UNCHANGED <<acct, actor, super, todo>>
  BY DEF Write
<1>2. [id |-> i, row |-> r] \in [id : Account, row : Row]
  OBVIOUS
<1>3. [id |-> i, row |-> r] # NoDraft
  BY <1>2, DraftAssumption
<1>4. TypeOK'
  BY <1>1, <1>2 DEF TypeOK
<1>5. HeldApart'
  BY LockKeepsApart
<1>6. DraftsSound'
  <2> SUFFICES ASSUME NEW u \in Txn, pc'[u] = "written"
               PROVE  /\ draft'[u] # NoDraft
                      /\ draft'[u].id \in held'[u]
                      /\ Sound(u, draft[u].id, draft[u].row)'
    BY DEF DraftsSound
  <2>1. CASE u = t
    <3>1. draft'[u] = [id |-> i, row |-> r] /\ i \in held'[u]
      BY <1>1, <2>1 DEF TypeOK
    <3>2. acct' = acct /\ super' = super
      BY <1>1
    <3> QED  BY <1>3, <2>1, <3>1, <3>2 DEF Sound
  <2>2. CASE u # t
    <3>1. draft'[u] = draft[u] /\ held'[u] = held[u] /\ pc[u] = "written"
      BY <1>1, <2>2 DEF TypeOK
    <3>2. acct' = acct /\ super' = super
      BY <1>1
    <3> QED  BY <3>1, <3>2 DEF DraftsSound, Sound
  <2> QED  BY <2>1, <2>2
<1>7. AdminIsClean'
  BY <1>1 DEF AdminIsClean
<1> QED  BY <1>4, <1>5, <1>6, <1>7

-----------------------------------------------------------------------------
(* The operations write what is sound *)

\* A new account is clean, and not above the delegate who creates it.
LEMMA CreateKeeps ==
  ASSUME IInv, NEW t \in Txn, NEW i \in Account, Create(t, i)
  PROVE  IInv'
<1>1. PICK admin \in BOOLEAN, expires \in {"never", "set"}, G \in Grants :
        /\ admin => (super[t] /\ G = {} /\ expires = "never")
        /\ super[t] \/ ~TouchesHigh({}, G)
        /\ Write(t, i, [active |-> TRUE, admin |-> admin, expires |-> expires,
                        grants |-> G, version |-> 0])
  BY DEF Create
<1> DEFINE r == [active |-> TRUE, admin |-> admin, expires |-> expires,
                 grants |-> G, version |-> 0]
<1>2. r \in Record
  BY BoundsAssumption DEF Record
<1>3. pc[t] = "lock" /\ acct[i] = Unused /\ Free(t, i)
      /\ held' = [held EXCEPT ![t] = @ \cup {i}]
  BY DEF Create, LocksHeld
<1>4. Clean(r)
  BY <1>1 DEF Clean, Admin
<1>5. Counted(acct[i], r)
  BY <1>3 DEF Counted, Present
<1>6. Below(super[t], acct[i], r)
  <2>1. ~super[t] => ~r.admin /\ r.grants \cap High = {}
    BY <1>1 DEF TouchesHigh
  <2> QED  BY <1>3, <2>1 DEF Below, Present, Privileged
<1>7. Sound(t, i, r) /\ Write(t, i, r)
  BY <1>1, <1>4, <1>5, <1>6 DEF Sound
<1> HIDE DEF r
<1> QED  BY <1>2, <1>3, <1>7, WriteKeeps

\* Nobody below a superadmin deletes a privileged account.
LEMMA DeleteKeeps ==
  ASSUME IInv, NEW t \in Txn, NEW i \in Account, Delete(t, i)
  PROVE  IInv'
<1>1. /\ pc[t] = "lock" /\ Free(t, i) /\ held' = [held EXCEPT ![t] = @ \cup {i}]
      /\ MayChange(t, i) /\ Write(t, i, Deleted)
  BY DEF Delete, LocksHeld, LockTarget
<1>2. Sound(t, i, Deleted)
  BY <1>1 DEF Sound, Clean, Counted, Below, Admin, Present, MayChange
<1> QED  BY <1>1, <1>2, WriteKeeps

\* What an update writes is clean: promotion clears, and an administrator
\* that stays one is given no expiry.
LEMMA UpdateKeeps ==
  ASSUME IInv, NEW t \in Txn, NEW i \in Account, Update(t, i)
  PROVE  IInv'
<1> DEFINE r == acct[i]
<1>1. /\ pc[t] = "lock" /\ Free(t, i) /\ held' = [held EXCEPT ![t] = @ \cup {i}]
      /\ Present(r)
  BY DEF Update, LocksHeld, LockTarget
<1>2. PICK dated \in {FALSE, "expires" \in Kind} :
      \E active \in Flag("active", r.active), admin \in Flag("admin", r.admin),
         expires \in Expiry(dated, r.expires) :
        LET turns == admin # r.admin
            moves == dated /\ (expires = "set" \/ r.expires = "set")
            q == [r EXCEPT !.active = active]
        IN  /\ turns => super[t]
            /\ (turns \/ moves \/ q # r) => MayChange(t, i)
            /\ Self(t, i) => /\ active \/ ~r.active
                             /\ admin \/ ~r.admin
                             /\ ~dated
            /\ (dated /\ admin) => expires = "never"
            /\ IF turns /\ admin
                 THEN r.version < MaxVersion /\ Write(t, i, Promoted(q))
                 ELSE Write(t, i, [q EXCEPT !.admin = admin, !.expires = expires])
  BY Zenon DEF Update
<1>3. PICK active \in Flag("active", r.active), admin \in Flag("admin", r.admin),
           expires \in Expiry(dated, r.expires) :
        LET turns == admin # r.admin
            moves == dated /\ (expires = "set" \/ r.expires = "set")
            q == [r EXCEPT !.active = active]
        IN  /\ turns => super[t]
            /\ (turns \/ moves \/ q # r) => MayChange(t, i)
            /\ Self(t, i) => /\ active \/ ~r.active
                             /\ admin \/ ~r.admin
                             /\ ~dated
            /\ (dated /\ admin) => expires = "never"
            /\ IF turns /\ admin
                 THEN r.version < MaxVersion /\ Write(t, i, Promoted(q))
                 ELSE Write(t, i, [q EXCEPT !.admin = admin, !.expires = expires])
  BY Zenon, <1>2
<1> DEFINE q == [r EXCEPT !.active = active]
           n == [q EXCEPT !.admin = admin, !.expires = expires]
<1>4. r \in Record
  BY <1>1, PresentRow DEF IInv, TypeOK
<1>5. /\ active \in BOOLEAN /\ admin \in BOOLEAN /\ expires \in {"never", "set"}
      /\ ~dated => expires = r.expires
  BY <1>4 DEF Record, Flag, Expiry
<1>6. /\ q \in Record /\ q.version = r.version /\ q.grants = r.grants
      /\ q.admin = r.admin /\ q.expires = r.expires
  BY <1>4, <1>5 DEF Record
<1>7. Clean(r)
  BY DEF IInv, AdminIsClean, Clean
<1>8. CASE admin # r.admin /\ admin
  <2>1. r.version < MaxVersion /\ Write(t, i, Promoted(q)) /\ super[t]
    BY <1>3, <1>8
  <2>2. /\ Promoted(q) \in Record
        /\ Promoted(q).expires = "never" /\ Promoted(q).grants = {}
        /\ Promoted(q).version = r.version + 1
    BY <1>6, <2>1, PromotedRow
  <2>3. Sound(t, i, Promoted(q))
    BY <2>1, <2>2 DEF Sound, Clean, Counted, Below
  <2> HIDE DEF r, q
  <2> QED  BY <1>1, <2>1, <2>2, <2>3, WriteKeeps
<1>9. CASE ~(admin # r.admin /\ admin)
  <2>1. Write(t, i, n)
    BY <1>3, <1>9
  <2>2. /\ n \in Record /\ n.version = r.version /\ n.grants = r.grants
        /\ n.admin = admin /\ n.expires = expires
    BY <1>5, <1>6 DEF Record
  <2>3. Clean(n)
    BY <1>1, <1>3, <1>4, <1>5, <1>7, <1>9, <2>2, PresentRow DEF Clean, Admin
  <2>4. Counted(r, n)
    BY <2>2 DEF Counted
  <2>5. Below(super[t], r, n)
    <3> SUFFICES ASSUME ~super[t], n # r
                 PROVE  ~Privileged(r) /\ ~Privileged(n)
      BY DEF Below
    <3>1. admin = r.admin
      BY <1>3
    <3>2. q # r \/ expires # r.expires
      <4> SUFFICES ASSUME q = r, expires = r.expires
                   PROVE  n = r
        OBVIOUS
      <4> QED  BY <1>4, <3>1 DEF Record
    <3>3. MayChange(t, i)
      <4>1. CASE q # r
        BY <1>3, <4>1
      <4>2. CASE expires # r.expires
        <5>1. dated /\ (expires = "set" \/ r.expires = "set")
          BY <1>4, <1>5, <4>2 DEF Record
        <5> QED  BY <1>3, <5>1
      <4> QED  BY <3>2, <4>1, <4>2
    <3>4. ~Privileged(r)
      BY <3>3 DEF MayChange
    <3> QED  BY <2>2, <3>1, <3>4 DEF Privileged
  <2>6. Sound(t, i, n)
    BY <2>3, <2>4, <2>5 DEF Sound
  <2> HIDE DEF r, n
  <2> QED  BY <1>1, <2>1, <2>2, <2>6, WriteKeeps
<1> QED  BY <1>8, <1>9

\* Grants are replaced with the version counted, for accounts that are no
\* administrators, and those of high risk by superadmins only.
LEMMA SetPermissionsKeeps ==
  ASSUME IInv, NEW t \in Txn, NEW i \in Account, SetPermissions(t, i)
  PROVE  IInv'
<1> DEFINE r == acct[i]
<1>1. /\ pc[t] = "lock" /\ Free(t, i) /\ held' = [held EXCEPT ![t] = @ \cup {i}]
      /\ Present(r) /\ ~r.admin
  BY DEF SetPermissions, LocksHeld, LockTarget
<1>2. PICK G \in Grants :
        /\ super[t] \/ ~TouchesHigh(r.grants, G)
        /\ IF G = r.grants
             THEN Write(t, i, r)
             ELSE MayChange(t, i) /\ r.version < MaxVersion /\ Write(t, i, Replaced(r, G))
  BY DEF SetPermissions
<1>3. r \in Record
  BY <1>1, PresentRow DEF IInv, TypeOK
<1>4. CASE G = r.grants
  <2>1. Write(t, i, r)
    BY <1>2, <1>4
  <2>2. Sound(t, i, r)
    BY <1>1 DEF Sound, Clean, Counted, Below, Admin
  <2> HIDE DEF r
  <2> QED  BY <1>1, <1>3, <2>1, <2>2, WriteKeeps
<1>5. CASE G # r.grants
  <2> DEFINE n == Replaced(r, G)
  <2>1. MayChange(t, i) /\ r.version < MaxVersion /\ Write(t, i, n)
    BY <1>2, <1>5
  <2>2. /\ n \in Record /\ n.admin = r.admin /\ n.grants = G
        /\ n.version = r.version + 1
    BY <1>3, <2>1, ReplacedRow
  <2>3. Clean(n) /\ Counted(r, n)
    BY <1>1, <2>2 DEF Clean, Counted, Admin
  <2>4. Below(super[t], r, n)
    <3> SUFFICES ASSUME ~super[t]
                 PROVE  ~Privileged(r) /\ ~Privileged(n)
      BY DEF Below
    <3>1. ~Privileged(r)
      BY <2>1 DEF MayChange
    <3>2. G \cap High = {}
      BY <1>2, <3>1, HighUntouched DEF Privileged
    <3> QED  BY <1>1, <2>2, <3>1, <3>2 DEF Privileged
  <2>5. Sound(t, i, n)
    BY <2>3, <2>4 DEF Sound
  <2> HIDE DEF r, n
  <2> QED  BY <1>1, <2>1, <2>2, <2>5, WriteKeeps
<1> QED  BY <1>4, <1>5

-----------------------------------------------------------------------------
(* The end of a transaction *)

\* Its locks go, with what it wrote; what others wrote stays locked and right.
LEMMA EndKeeps ==
  ASSUME IInv, NEW t \in Txn, End(t),
         acct' \in [Account -> Record \cup {Unused, Deleted}],
         \A i \in Account : acct'[i] # acct[i] => i \in held[t],
         \A i \in Account : Clean(acct'[i])
  PROVE  IInv'
<1> USE DEF IInv
<1>1. TypeOK'
  BY DEF TypeOK, End, Operator
<1>2. HeldApart'
  BY DEF TypeOK, HeldApart, End
<1>3. DraftsSound'
  <2> SUFFICES ASSUME NEW u \in Txn, pc'[u] = "written"
               PROVE  /\ draft'[u] # NoDraft
                      /\ draft'[u].id \in held'[u]
                      /\ Sound(u, draft[u].id, draft[u].row)'
    BY DEF DraftsSound
  <2>1. u # t
    BY DEF TypeOK, End
  <2>2. draft'[u] = draft[u] /\ held'[u] = held[u] /\ pc[u] = "written" /\ super'[u] = super[u]
    BY <2>1 DEF TypeOK, End
  <2>3. draft[u] # NoDraft /\ draft[u].id \in held[u] /\ Sound(u, draft[u].id, draft[u].row)
    BY <2>2 DEF DraftsSound
  <2>4. draft[u].id \in Account /\ draft[u].id \notin held[t]
    BY <2>1, <2>3, DraftTyped DEF HeldApart
  <2>5. acct'[draft[u].id] = acct[draft[u].id]
    BY <2>4
  <2> QED  BY <2>2, <2>3, <2>5 DEF Sound
<1>4. AdminIsClean'
  BY DEF AdminIsClean, Clean
<1> QED  BY <1>1, <1>2, <1>3, <1>4

\* A commit changes the one row that was written, into what was written.
LEMMA CommitChanges ==
  ASSUME IInv, NEW t \in Txn, Commit(t)
  PROVE  /\ draft[t].id \in Account /\ draft[t].row \in Row
         /\ draft[t].id \in held[t] /\ Sound(t, draft[t].id, draft[t].row)
         /\ acct'[draft[t].id] = draft[t].row
         /\ \A i \in Account : i # draft[t].id => acct'[i] = acct[i]
  BY DraftTyped DEF IInv, DraftsSound, Commit, TypeOK

\* The committed row is clean, and nobody else had written it.
LEMMA CommitKeeps ==
  ASSUME IInv, NEW t \in Txn, Commit(t)
  PROVE  IInv'
<1>1. acct' \in [Account -> Record \cup {Unused, Deleted}]
  BY CommitChanges DEF IInv, TypeOK, Commit
<1>2. \A i \in Account : acct'[i] # acct[i] => i \in held[t]
  BY CommitChanges
<1>3. \A i \in Account : Clean(acct[i])
  BY DEF IInv, AdminIsClean, Clean
<1>4. \A i \in Account : Clean(acct'[i])
  BY <1>3, CommitChanges DEF Sound
<1> QED  BY <1>1, <1>2, <1>4, EndKeeps DEF Commit

\* Nothing that was committed changes.
LEMMA RollbackKeeps ==
  ASSUME IInv, NEW t \in Txn, Rollback(t)
  PROVE  IInv'
<1>1. \A i \in Account : Clean(acct[i])
  BY DEF IInv, AdminIsClean, Clean
<1> QED  BY <1>1, EndKeeps DEF Rollback, IInv, TypeOK

-----------------------------------------------------------------------------
(* Getting the locks *)

\* What neither commits nor writes leaves rows and drafts as they are.
LEMMA WaitingKeeps ==
  ASSUME IInv, TypeOK', HeldApart', UNCHANGED <<acct, draft>>,
         NEW t \in Txn, pc'[t] # "written",
         \A u \in Txn \ {t} : pc'[u] = pc[u] /\ held'[u] = held[u] /\ super'[u] = super[u]
  PROVE  IInv'
<1>1. DraftsSound'
  BY DEF IInv, DraftsSound, Sound
<1>2. AdminIsClean'
  BY DEF IInv, AdminIsClean
<1> QED  BY <1>1, <1>2 DEF IInv

\* A request is resolved: nothing is locked or written yet.
LEMMA RequestKeeps ==
  ASSUME IInv, NEW t \in Txn, NEW a \in Operator, Request(t, a)
  PROVE  IInv'
<1>1. (a # External /\ Admin(acct[a])) \in BOOLEAN
  <2>1. CASE a = External
    BY <2>1
  <2>2. CASE a # External
    <3>1. acct[a] \in Record
      BY <2>2, PresentRow DEF Request, Operator, IInv, TypeOK
    <3> QED  BY <2>2, <3>1 DEF Admin, Record
  <2> QED  BY <2>1, <2>2
<1>2. TypeOK'
  BY <1>1 DEF IInv, TypeOK, Request
<1>3. HeldApart' /\ pc'[t] # "written"
  BY DEF IInv, TypeOK, HeldApart, Request
<1> QED  BY <1>2, <1>3, WaitingKeeps DEF IInv, TypeOK, Request

\* The administrators are selected, not yet locked.
LEMMA SelectAdminsKeeps ==
  ASSUME IInv, NEW t \in Txn, SelectAdmins(t)
  PROVE  IInv'
<1>1. TypeOK' /\ HeldApart' /\ pc'[t] # "written"
  BY DEF IInv, TypeOK, HeldApart, SelectAdmins
<1> QED  BY <1>1, WaitingKeeps DEF IInv, TypeOK, SelectAdmins

\* A lock is taken from nobody.
LEMMA LockAdminKeeps ==
  ASSUME IInv, NEW t \in Txn, NEW i \in Account, LockAdmin(t, i)
  PROVE  IInv'
<1>1. TypeOK'
  BY DEF IInv, TypeOK, LockAdmin
<1>2. HeldApart'
  <2>1. CASE Admin(acct[i])
    BY <2>1, LockKeepsApart DEF IInv, LockAdmin
  <2>2. CASE ~Admin(acct[i])
    BY <2>2 DEF IInv, TypeOK, HeldApart, LockAdmin
  <2> QED  BY <2>1, <2>2
<1> QED  BY <1>1, <1>2, WaitingKeeps DEF IInv, TypeOK, LockAdmin

-----------------------------------------------------------------------------
(* The invariant, and what follows from it *)

\* What seed inserts is a row.
LEMMA SeedRows == Ordinary \in Record /\ Seeded \in Record
<1>1. 0 \in 0 .. MaxVersion /\ {} \in Grants
  BY BoundsAssumption DEF Grants
<1>2. Ordinary \in Record
  BY <1>1 DEF Ordinary, Record
<1> QED  BY <1>2 DEF Seeded, Record

\* The seeded administrator is clean, and no transaction runs.
LEMMA InitHolds == Init => IInv
<1> SUFFICES ASSUME Init PROVE IInv
  OBVIOUS
<1>1. Ordinary \in Record /\ Seeded \in Record
  BY SeedRows
<1>2. TypeOK
  BY <1>1 DEF Init, TypeOK, Operator
<1>3. HeldApart /\ DraftsSound
  BY DEF Init, HeldApart, DraftsSound
<1>4. AdminIsClean
  <2>1. Seeded.expires = "never" /\ Seeded.grants = {}
    BY DEF Seeded, Ordinary
  <2>2. ~Ordinary.admin
    BY DEF Ordinary
  <2> QED  BY <2>1, <2>2 DEF Init, AdminIsClean, Admin, Present
<1> QED  BY <1>2, <1>3, <1>4 DEF IInv

\* One lemma per operation.
LEMMA NextKeeps == IInv /\ [Next]_vars => IInv'
<1> SUFFICES ASSUME IInv, [Next]_vars PROVE IInv'
  OBVIOUS
<1>1. CASE UNCHANGED vars
  BY <1>1 DEF vars, IInv, TypeOK, HeldApart, DraftsSound, Sound, AdminIsClean
<1>2. CASE Next
  <2> PICK t \in Txn :
        \/ \E a \in Operator : Request(t, a)
        \/ SelectAdmins(t)
        \/ \E i \in Account :
             \/ LockAdmin(t, i)
             \/ Create(t, i) \/ Delete(t, i) \/ Update(t, i) \/ SetPermissions(t, i)
        \/ Commit(t) \/ Rollback(t)
    BY <1>2 DEF Next
  <2> QED
    BY RequestKeeps, SelectAdminsKeeps, LockAdminKeeps, CreateKeeps, DeleteKeeps, UpdateKeeps,
       SetPermissionsKeeps, CommitKeeps, RollbackKeeps
<1> QED  BY <1>1, <1>2

\* In every reachable state what a transaction wrote is locked by it alone, and right.
THEOREM InvariantHolds == Spec => []IInv
  BY InitHolds, NextKeeps, PTL DEF Spec

\* Types: rows are records or the marks of the absent, versions stay in range.
THEOREM TypeCorrect == Spec => []TypeOK
  BY InvariantHolds, PTL DEF IInv

\* However many operators there are, an administrator has neither expiry nor
\* grants: what update writes was decided on a row nobody else could change.
THEOREM AdministratorsAreClean == Spec => []AdminIsClean
  BY InvariantHolds, PTL DEF IInv

\* Only a commit changes rows, and it changes its own.
LEMMA OnlyCommitChanges ==
  ASSUME IInv, [Next]_vars, acct' # acct
  PROVE  \E t \in Txn : Commit(t)
<1>1. ASSUME NEW t \in Txn, NEW i \in Account, NEW r, Write(t, i, r)
      PROVE  FALSE
  BY <1>1 DEF Write
<1>2. ASSUME NEW t \in Txn, NEW i \in Account
      PROVE  ~Create(t, i) /\ ~Delete(t, i)
  BY Zenon, <1>1 DEF Create, Delete
<1>3. ASSUME NEW t \in Txn, NEW i \in Account
      PROVE  ~Update(t, i)
  BY Zenon, <1>1 DEF Update
<1>4. ASSUME NEW t \in Txn, NEW i \in Account
      PROVE  ~SetPermissions(t, i)
  BY Zenon, <1>1 DEF SetPermissions
<1>5. ASSUME NEW t \in Txn, NEW i \in Account
      PROVE  ~LockAdmin(t, i) /\ ~SelectAdmins(t) /\ ~Rollback(t)
  BY DEF LockAdmin, SelectAdmins, Rollback
<1>6. ASSUME NEW t \in Txn, NEW a \in Operator
      PROVE  ~Request(t, a)
  BY DEF Request
<1> QED  BY <1>2, <1>3, <1>4, <1>5, <1>6, BoundsAssumption DEF Next, vars

\* set_permissions and _apply_admin_change count the version of the row they
\* locked, so no two changes of the grants end in the same one.
THEOREM VersionsTellGrants == Spec => VersionTellsGrants
<1>1. IInv /\ [Next]_vars =>
        [ \A i \in Account :
            (Present(acct[i]) /\ Present(acct'[i]) /\ acct'[i].grants # acct[i].grants) =>
              acct'[i].version = acct[i].version + 1 ]_acct
  <2> SUFFICES ASSUME IInv, [Next]_vars, acct' # acct, NEW i \in Account,
                      Present(acct[i]), Present(acct'[i]), acct'[i].grants # acct[i].grants
               PROVE  acct'[i].version = acct[i].version + 1
    OBVIOUS
  <2>1. PICK t \in Txn : Commit(t)
    BY OnlyCommitChanges
  <2>2. i = draft[t].id
    BY <2>1, CommitChanges
  <2>3. acct'[i] = draft[t].row /\ Counted(acct[i], draft[t].row)
    BY <2>1, <2>2, CommitChanges DEF Sound
  <2> QED  BY <2>3 DEF Counted
<1> QED  BY <1>1, InvariantHolds, PTL DEF Spec, VersionTellsGrants

\* What a delegate decided on the row it locked still holds when it commits:
\* it changes no privileged account and makes none.
THEOREM DelegatesStayBelow == Spec => DelegateStaysBelow
<1>1. IInv /\ [Next]_vars =>
        [ \A t \in Txn, i \in Account :
            (pc[t] = "written" /\ pc'[t] = "idle" /\ ~super[t] /\ acct'[i] # acct[i]) =>
              /\ Present(acct[i]) => ~Privileged(acct[i])
              /\ Present(acct'[i]) => ~Privileged(acct'[i]) ]_acct
  <2> SUFFICES ASSUME IInv, [Next]_vars, acct' # acct, NEW t \in Txn, NEW i \in Account,
                      pc[t] = "written", pc'[t] = "idle", ~super[t], acct'[i] # acct[i]
               PROVE  /\ Present(acct[i]) => ~Privileged(acct[i])
                      /\ Present(acct'[i]) => ~Privileged(acct'[i])
    OBVIOUS
  <2>1. PICK u \in Txn : Commit(u)
    BY OnlyCommitChanges
  <2>2. u = t
    BY <2>1 DEF IInv, TypeOK, Commit, End
  <2>3. i = draft[t].id
    BY <2>1, <2>2, CommitChanges
  <2>4. acct'[i] = draft[t].row /\ Below(super[t], acct[i], draft[t].row)
    BY <2>1, <2>2, <2>3, CommitChanges DEF Sound
  <2> QED  BY <2>4 DEF Below
<1> QED  BY <1>1, InvariantHolds, PTL DEF Spec, DelegateStaysBelow

-----------------------------------------------------------------------------
(* The last administrator, of two transactions at a time *)

\* (With three it may go: MCLocalAccountsThree.)
AtMostTwo == \A t, u, v \in Txn : t = u \/ u = v \/ t = v

Running(t) == pc[t] \in {"lock", "written"}

\* It has locked, or has still to lock, every administrator there is.
Covers(t) == \A i \in Account : Admin(acct[i]) => i \in todo[t] \cup held[t]

\* Of two that run, the one that selected last does.
OneCovers ==
  \A t, u \in Txn : t # u /\ Running(t) /\ Running(u) => Covers(t) \/ Covers(u)

\* What a transaction counted when it wrote is still there.
CountsStand ==
  \A t \in Txn : pc[t] = "written" =>
    todo[t] = {} /\ AdminRemains(draft[t].id, draft[t].row)

SomeUsable == \E i \in Account : Usable(acct[i])

PairInv == IInv /\ OneCovers /\ CountsStand /\ SomeUsable

\* A row that was written leaves a usable one behind when it is committed.
LEMMA CommitLeavesOne ==
  ASSUME PairInv, NEW t \in Txn, Commit(t)
  PROVE  SomeUsable'
<1>1. IInv /\ pc[t] = "written" /\ AdminRemains(draft[t].id, draft[t].row)
  BY DEF PairInv, CountsStand, Commit
<1>2. CASE Usable(draft[t].row)
  BY <1>1, <1>2, CommitChanges DEF SomeUsable
<1>3. CASE ~Usable(draft[t].row)
  <2>1. PICK k \in Account \ {draft[t].id} : Usable(acct[k])
    BY <1>1, <1>3 DEF AdminRemains
  <2>2. acct'[k] = acct[k]
    BY <1>1, <2>1, CommitChanges
  <2> QED  BY <2>1, <2>2 DEF SomeUsable
<1> QED  BY <1>2, <1>3

\* The commit of another takes nothing away that t has counted: one of the two
\* holds every administrator, so the row that the other changes is none.
LEMMA CommitSparesCount ==
  ASSUME PairInv, NEW t \in Txn, NEW u \in Txn, t # u, Commit(u), pc[t] = "written"
  PROVE  AdminRemains(draft[t].id, draft[t].row)'
<1> DEFINE i == draft[t].id
           j == draft[u].id
<1>1. IInv /\ Running(t) /\ Running(u) /\ pc[u] = "written"
  BY DEF PairInv, Commit, Running
<1>2. /\ i \in Account /\ j \in Account /\ i # j
      /\ i \in held[t] /\ j \in held[u] /\ i \notin held[u] /\ j \notin held[t]
  BY <1>1, DraftTyped DEF IInv, DraftsSound, HeldApart
<1>3. /\ todo[t] = {} /\ todo[u] = {}
      /\ AdminRemains(i, draft[t].row) /\ AdminRemains(j, draft[u].row)
  BY <1>1 DEF PairInv, CountsStand
<1>4. draft'[t] = draft[t] /\ acct'[j] = draft[u].row
      /\ \A k \in Account : k # j => acct'[k] = acct[k]
  BY <1>1, CommitChanges DEF Commit, End, IInv, TypeOK
<1> HIDE DEF i, j
<1>5. Usable(draft[t].row) \/ \E k \in Account \ {i} : Usable(acct'[k])
  <2>1. CASE Covers(t)
    <3>1. ~Admin(acct[j])
      BY <1>2, <1>3, <2>1 DEF Covers
    <3> QED  BY <1>3, <1>4, <3>1 DEF AdminRemains, Usable
  <2>2. CASE Covers(u)
    <3>1. ~Admin(acct[i])
      BY <1>2, <1>3, <2>2 DEF Covers
    <3>2. CASE Usable(draft[u].row)
      BY <1>2, <1>4, <3>2
    <3>3. CASE ~Usable(draft[u].row)
      <4>1. PICK k \in Account \ {j} : Usable(acct[k])
        BY <1>3, <3>3 DEF AdminRemains
      <4> QED  BY <1>4, <3>1, <4>1 DEF Usable
    <3> QED  BY <3>2, <3>3
  <2> QED  BY <1>1, <2>1, <2>2 DEF PairInv, OneCovers
<1> QED  BY <1>4, <1>5 DEF AdminRemains, i

\* A commit or a rollback leaves one transaction of the two.
LEMMA EndKeepsPair ==
  ASSUME AtMostTwo, PairInv, NEW t \in Txn, Commit(t) \/ Rollback(t)
  PROVE  PairInv'
<1>1. IInv /\ IInv'
  BY CommitKeeps, RollbackKeeps DEF PairInv
<1>2. End(t) /\ (acct' = acct \/ Commit(t))
  BY DEF Commit, Rollback
<1>3. ~Running(t)' /\ \A u \in Txn : u # t =>
        pc'[u] = pc[u] /\ todo'[u] = todo[u] /\ draft'[u] = draft[u]
  BY <1>1, <1>2 DEF IInv, TypeOK, End, Running
<1>4. OneCovers'
  BY <1>3 DEF AtMostTwo, OneCovers
<1>5. CountsStand'
  <2> SUFFICES ASSUME NEW u \in Txn, pc'[u] = "written"
               PROVE  todo'[u] = {} /\ AdminRemains(draft[u].id, draft[u].row)'
    BY DEF CountsStand
  <2>1. u # t /\ pc[u] = "written"
    BY <1>3 DEF Running
  <2>2. todo[u] = {} /\ AdminRemains(draft[u].id, draft[u].row)
    BY <2>1 DEF PairInv, CountsStand
  <2>3. CASE acct' = acct
    BY <1>3, <2>1, <2>2, <2>3 DEF AdminRemains
  <2>4. CASE Commit(t)
    BY <1>3, <2>1, <2>2, <2>4, CommitSparesCount
  <2> QED  BY <1>2, <2>3, <2>4
<1>6. SomeUsable'
  BY <1>2, CommitLeavesOne DEF PairInv, SomeUsable
<1> QED  BY <1>1, <1>4, <1>5, <1>6 DEF PairInv

\* A transaction that writes has locked all it had to, and has just counted.
LEMMA WriteKeepsPair ==
  ASSUME PairInv, IInv', NEW t \in Txn, NEW i \in Account, NEW r,
         LocksHeld(t), held' = [held EXCEPT ![t] = @ \cup {i}], Write(t, i, r)
  PROVE  PairInv'
<1>1. /\ draft' = [draft EXCEPT ![t] = [id |-> i, row |-> r]]
      /\ pc' = [pc EXCEPT ![t] = "written"]
      /\ UNCHANGED <<acct, todo>> /\ AdminRemains(i, r) /\ IInv
  BY DEF Write, PairInv
<1>2. OneCovers'
  <2> SUFFICES ASSUME NEW u \in Txn, NEW v \in Txn, u # v, Running(u)', Running(v)'
               PROVE  Covers(u)' \/ Covers(v)'
    BY DEF OneCovers
  <2>1. Running(u) /\ Running(v)
    BY <1>1 DEF Running, LocksHeld, IInv, TypeOK
  <2>2. held[u] \subseteq held'[u] /\ held[v] \subseteq held'[v]
    BY <1>1 DEF IInv, TypeOK
  <2>3. Covers(u) \/ Covers(v)
    BY <2>1 DEF PairInv, OneCovers
  <2> QED  BY <1>1, <2>2, <2>3 DEF Covers
<1>3. CountsStand'
  <2> SUFFICES ASSUME NEW u \in Txn, pc'[u] = "written"
               PROVE  todo'[u] = {} /\ AdminRemains(draft[u].id, draft[u].row)'
    BY DEF CountsStand
  <2>1. CASE u = t
    BY <1>1, <2>1 DEF IInv, TypeOK, AdminRemains, LocksHeld
  <2>2. CASE u # t
    <3>1. draft'[u] = draft[u] /\ pc[u] = "written"
      BY <1>1, <2>2 DEF IInv, TypeOK
    <3> QED  BY <1>1, <3>1 DEF PairInv, CountsStand, AdminRemains
  <2> QED  BY <2>1, <2>2
<1>4. SomeUsable'
  BY <1>1 DEF PairInv, SomeUsable
<1> QED  BY <1>2, <1>3, <1>4 DEF PairInv

\* Whoever selects now knows every administrator there is.
LEMMA SelectKeepsPair ==
  ASSUME AtMostTwo, PairInv, NEW t \in Txn, SelectAdmins(t)
  PROVE  PairInv'
<1>1. IInv /\ IInv' /\ UNCHANGED <<acct, held, draft>>
  BY SelectAdminsKeeps DEF PairInv, SelectAdmins
<1>2. Covers(t)'
  BY <1>1 DEF SelectAdmins, Covers, IInv, TypeOK
<1>3. OneCovers'
  BY <1>2 DEF AtMostTwo, OneCovers
<1>4. CountsStand' /\ SomeUsable'
  BY <1>1 DEF PairInv, CountsStand, SomeUsable, SelectAdmins, AdminRemains, IInv, TypeOK
<1> QED  BY <1>1, <1>3, <1>4 DEF PairInv

\* An administrator whose turn comes is locked; one that is none any more need
\* not be.
LEMMA LockKeepsPair ==
  ASSUME PairInv, NEW t \in Txn, NEW i \in Account, LockAdmin(t, i)
  PROVE  PairInv'
<1>1. IInv /\ IInv' /\ UNCHANGED <<acct, pc, draft>>
  BY LockAdminKeeps DEF PairInv, LockAdmin
<1>2. ASSUME NEW u \in Txn, Covers(u) PROVE Covers(u)'
  BY <1>1, <1>2 DEF LockAdmin, Covers, IInv, TypeOK
<1>3. OneCovers'
  BY <1>1, <1>2 DEF PairInv, OneCovers, Running
<1>4. CountsStand' /\ SomeUsable'
  BY <1>1 DEF PairInv, CountsStand, SomeUsable, LockAdmin, AdminRemains, IInv, TypeOK
<1> QED  BY <1>1, <1>3, <1>4 DEF PairInv

\* A request runs nothing yet.
LEMMA RequestKeepsPair ==
  ASSUME PairInv, NEW t \in Txn, NEW a \in Operator, Request(t, a)
  PROVE  PairInv'
<1>1. IInv /\ IInv' /\ UNCHANGED <<acct, todo, held, draft>>
  BY RequestKeeps DEF PairInv, Request
<1>2. pc' = [pc EXCEPT ![t] = "asked"]
  BY DEF Request
<1>3. OneCovers'
  <2> SUFFICES ASSUME NEW u \in Txn, NEW v \in Txn, u # v, Running(u)', Running(v)'
               PROVE  Covers(u)' \/ Covers(v)'
    BY DEF OneCovers
  <2>1. Running(u) /\ Running(v)
    BY <1>1, <1>2 DEF Running, IInv, TypeOK
  <2> QED  BY <1>1, <2>1 DEF PairInv, OneCovers, Covers
<1>4. CountsStand' /\ SomeUsable'
  BY <1>1, <1>2 DEF PairInv, CountsStand, SomeUsable, AdminRemains, IInv, TypeOK
<1> QED  BY <1>1, <1>3, <1>4 DEF PairInv

\* Every operation writes under the locks.
LEMMA OperationKeepsPair ==
  ASSUME PairInv, NEW t \in Txn, NEW i \in Account,
         Create(t, i) \/ Delete(t, i) \/ Update(t, i) \/ SetPermissions(t, i)
  PROVE  PairInv'
<1>1. IInv'
  BY CreateKeeps, DeleteKeeps, UpdateKeeps, SetPermissionsKeeps DEF PairInv
<1>2. LocksHeld(t) /\ held' = [held EXCEPT ![t] = @ \cup {i}]
  <2>1. CASE Create(t, i) \/ Delete(t, i) \/ SetPermissions(t, i)
    BY Zenon, <2>1 DEF Create, Delete, SetPermissions, LockTarget
  <2>2. CASE Update(t, i)
    BY Zenon, <2>2 DEF Update, LockTarget
  <2> QED  BY <2>1, <2>2
<1>3. \E r : Write(t, i, r)
  <2>1. CASE Create(t, i) \/ Delete(t, i)
    BY Zenon, <2>1 DEF Create, Delete
  <2>2. CASE SetPermissions(t, i)
    BY Zenon, <2>2 DEF SetPermissions
  <2>3. CASE Update(t, i)
    BY Zenon, <2>3 DEF Update
  <2> QED  BY <2>1, <2>2, <2>3
<1>4. PICK r : Write(t, i, r)
  BY <1>3
<1> QED  BY <1>1, <1>2, <1>4, WriteKeepsPair

LEMMA StepKeepsPair ==
  ASSUME AtMostTwo, PairInv, [Next]_vars
  PROVE  PairInv'
<1>1. CASE UNCHANGED vars
  <2>1. IInv' /\ UNCHANGED vars
    BY <1>1, NextKeeps DEF PairInv
  <2> QED
    BY <2>1 DEF vars, PairInv, OneCovers, Covers, Running, CountsStand, AdminRemains, SomeUsable
<1>2. CASE Next
  <2> PICK t \in Txn :
        \/ \E a \in Operator : Request(t, a)
        \/ SelectAdmins(t)
        \/ \E i \in Account :
             \/ LockAdmin(t, i)
             \/ Create(t, i) \/ Delete(t, i) \/ Update(t, i) \/ SetPermissions(t, i)
        \/ Commit(t) \/ Rollback(t)
    BY <1>2 DEF Next
  <2> QED
    BY RequestKeepsPair, SelectKeepsPair, LockKeepsPair, OperationKeepsPair, EndKeepsPair
<1> QED  BY <1>1, <1>2

\* Of two transactions at a time, on any accounts and by any operators, no pair
\* of demotions, disablings and deletions takes the last usable administrator
\* away (lock_local_admins and _ensure_admin_remains).
THEOREM TwoLeaveAnAdministrator ==
  ASSUME AtMostTwo
  PROVE  Spec => []LastAdminRemains
<1>1. Init => PairInv
  <2> SUFFICES ASSUME Init PROVE PairInv
    OBVIOUS
  <2>1. Seeded.admin /\ Seeded.active /\ acct[Bootstrap] = Seeded /\ Bootstrap \in Account
    BY BoundsAssumption DEF Init, Seeded, Ordinary
  <2>2. Usable(acct[Bootstrap])
    BY <2>1, SeedRows, PresentRow DEF Usable, Admin
  <2> QED
    BY <2>1, <2>2, InitHolds DEF PairInv, SomeUsable, Init, OneCovers, Running, CountsStand
<1>2. PairInv /\ [Next]_vars => PairInv'
  BY StepKeepsPair
<1>3. PairInv => LastAdminRemains
  BY DEF PairInv, IInv, AdminIsClean, SomeUsable, Usable, LastAdminRemains
<1> QED  BY <1>1, <1>2, <1>3, PTL DEF Spec
=============================================================================
