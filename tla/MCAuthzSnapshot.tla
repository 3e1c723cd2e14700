--------------------------- MODULE MCAuthzSnapshot ---------------------------
(* Instances of AuthzSnapshot for TLC. *)
EXTENDS AuthzSnapshot, TLC

\* The processes, and the threads of a process, are interchangeable.
Symmetric == Permutations(Proc) \cup Permutations(Slot)

\* Everything but the failed events and the counted pulls, which no step looks at.
WithoutFailed == <<remote, evCatalog, store, process, thread, acked, crashes>>
==============================================================================
