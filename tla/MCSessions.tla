----------------------------- MODULE MCSessions ------------------------------
(***************************************************************************)
(* The credentials and sessions of an account at the server, and beside    *)
(* them whose shell a tab of the browser paints.  As in MCPeople, part     *)
(* says which of the two moves.                                            *)
(***************************************************************************)
EXTENDS MCAccountSecurity, ShellIdentity

VARIABLE part

sessionVars == <<vars, shellVars, part>>

SessionInit == part \in {"security", "shell"} /\ Init /\ ShellInit

SessionNext ==
  /\ UNCHANGED part
  /\ \/ part = "security" /\ Next /\ UNCHANGED shellVars
     \/ part = "shell" /\ ShellNext /\ UNCHANGED vars

SessionSpec == SessionInit /\ [][SessionNext]_sessionVars

\* Threads are interchangeable, and so are the persons at a tab.
SessionSymmetry == Symmetric \cup Permutations(Person)
=============================================================================
