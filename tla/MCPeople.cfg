\* Two transactions at a time on two accounts, a permission of high risk and
\* one of standard risk; a hook that moves between two pages, with two
\* writes to be answered.
CONSTANTS
  manage = manage
  view = view
  Account = {1, 2}
  Txn = {t1, t2}
  Perm = {manage, view}
  High = {manage}
  Manage = manage
  Kind = {"create", "delete", "active", "admin", "expires", "grants"}
  Bootstrap = 1
  External = External
  Unused = Unused
  Deleted = Deleted
  NoDraft = NoDraft
  MaxVersion = 2
  \* ReadCache
  Hook = {h1}  Path = {p2, p3}  Token = {1}  Edit = {o1, o2}  MaxPending = 2  Nil = Nil
SYMMETRY PeopleSymmetry
SPECIFICATION PeopleSpec
INVARIANTS
  LastAdminRemains
  AdminIsClean
  OldNeverLands
PROPERTIES
  VersionTellsGrants
  DelegateStaysBelow
