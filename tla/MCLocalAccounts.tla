--------------------------- MODULE MCLocalAccounts ---------------------------
(* Instances of LocalAccounts for TLC. *)
EXTENDS LocalAccounts, TLC

CONSTANTS manage, view

\* Transactions are interchangeable; accounts are not, locks go by their order.
Symmetric == Permutations(Txn)
=============================================================================
