------------------------------ MODULE MCPeople ------------------------------
(***************************************************************************)
(* Accounts, and the read cache of a person's browser: components that do   *)
(* not wait for each other, checked one beside the other.  part says which  *)
(* of them moves, and the other stays as it began.                          *)
(***************************************************************************)
EXTENDS MCLocalAccounts, ReadCache

VARIABLE part

peopleVars == <<vars, readVars, part>>

PeopleInit ==
  /\ part \in {"accounts", "read"}
  /\ Init /\ (part = "accounts" \/ acct[2] = Unused)
  /\ ReadInit

PeopleNext ==
  /\ UNCHANGED part
  /\ \/ part = "accounts" /\ Next /\ UNCHANGED readVars
     \/ part = "read" /\ ReadNext /\ UNCHANGED vars

PeopleSpec == PeopleInit /\ [][PeopleNext]_peopleVars

\* As in MCLocalAccounts; the paths of the pages go with the transactions.
Exchange(S, p) == LET swap == CHOOSE q \in Permutations(S) : \E x \in S : q[x] # x
                  IN  IF \E t \in Txn : p[t] # t THEN swap ELSE [x \in S |-> x]
PeopleSymmetry == {p @@ Exchange(Path, p) @@ q :
                     p \in Symmetric, q \in Permutations(Edit)}
=============================================================================
