\* Three transactions: two of them locked the administrators of another time.
CONSTANTS
  manage = manage
  view = view
  Account = {1, 2, 3}
  Txn = {t1, t2, t3}
  Perm = {}
  High = {}
  Manage = manage
  Kind = {"admin"}
  Bootstrap = 1
  External = External
  Unused = Unused
  Deleted = Deleted
  NoDraft = NoDraft
  MaxVersion = 1
SYMMETRY Symmetric
SPECIFICATION Spec
INVARIANT LastAdminRemains
