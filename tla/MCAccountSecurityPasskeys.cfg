\* Logins, passkeys and their challenges in two threads, while an
\* administrator takes the account out of use and back.
CONSTANTS
  Client = {c1, c2}
  Me = Me
  Other = Other
  Subject = {Me}
  Stripe = {1}
  StripeOf <- OneStripe
  FailureLimit = 1
  Nobody = Nobody
  Passkey = {k1}
  Challenge = {j1}
  Session = {s1}
  Untracked = Untracked
  Kind = {"login", "passkeyBegin", "passkeyComplete", "registerBegin", "registerComplete", "delete"}
  AdminKind = {"active"}
SPECIFICATION FairSpec
INVARIANTS
  ChallengeUsedOnce
  FactorAsked
PROPERTY RequestEnds
