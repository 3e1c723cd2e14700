\* The owner in two threads and an administrator: password, TOTP, logout.  A
\* login may also name a user without account, on the same stripe.  Two
\* persons, one after the other at a tab.
CONSTANTS
  Client = {c1, c2}
  Me = Me
  Other = Other
  Subject = {Me, Other}
  Stripe = {1}
  StripeOf <- OneStripe
  FailureLimit = 1
  Nobody = Nobody
  Passkey = {}
  Challenge = {}
  Session = {s1}
  Untracked = Untracked
  Kind = {"login", "change", "begin", "confirm", "disable", "logout"}
  AdminKind = {"totp", "reset"}
  \* ShellIdentity
  Person = {g1, g2}  Pref = {tableDensity}  NoPerson = NoPerson  NoIdentity = NoIdentity
  MaxChanges = 1  MaxLoads = 2  MaxSaves = 2
SYMMETRY SessionSymmetry
SPECIFICATION SessionSpec
INVARIANTS
  EnabledHasSecret
  FailuresBounded
  ShellIsTrue
