------------------------- MODULE MCAccountSecurity --------------------------
EXTENDS AccountSecurity, TLC

CONSTANT Other  \* a user name without an account

\* All subjects fall on one stripe.
OneStripe == [s \in Subject |-> CHOOSE i \in Stripe : TRUE]

Symmetric == Permutations(Client)
=============================================================================
