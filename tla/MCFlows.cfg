SPECIFICATION Spec
CONSTANTS
  \* ManifestSync
  m1 = m1  m2 = m2
  Worker = {w1, w2}  Place = {p1}  Manifest = {m1, m2}  Own <- MCOwn
  MaxVersion = 3  Nowhere = Nowhere  Nothing = Nothing
  \* OidcFlow
  Flow = {f1, f2}  Key = {k1, k2}  Sub = {s1}
  NoFlow = NoFlow  NoSub = NoSub  NoKey = NoKey
  \* NotificationSettings
  Account = {a1}  Stranger = Stranger  Default <- MCDefault
  Switch = {c1, c2, c3, c4}  Declared = {c1, c2, c3}  InApp = {c1, c2}  Patched = {c1, c2}
  Thread = {t1, t2}  Unset = Unset
  \* PlatformSettings
  Authority = {x1, x2}  Blank = Blank  NoSecret = NoSecret  Admin = {d1, d2}
  \* DirectorySync
  Ref = {u1, u2}  MaxSnapshot = 3  MaxRestarts = 1
  \* NotificationCenter
  NoteCount = 5  LastStamp = 2  Mine = {1, 2, 4, 5}  PageLimit = 2
  \* SignedMessages
  Lifetime = 3  Skew = 1  Window = 2  LastTime = 8  Never = Never
  \* Identities
  Process = {q1, q2}  Human = {v1, v2, v3}  Name = {n1, n2, n3}  Shown = {n1}
  v1 = v1  v2 = v2  n2 = n2  n3 = n3  WithSub <- MCWithSub
  NoAccount = NoAccount  NoRequest = NoRequest
SYMMETRY FlowsSymmetry
INVARIANTS
  StoredWasImported
  ConflictNeedsAnother
  RefusalsAreJust
  PatchesAreKept
  PlanWasInForce
  CredentialFits
  ProjectionIsOneSnapshot
  WalkIsExact
  ReuseIsBounded
PROPERTY RefusalIsExplained
CHECK_DEADLOCK FALSE
