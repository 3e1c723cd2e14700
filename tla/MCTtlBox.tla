------------------------------ MODULE MCTtlBox ------------------------------
(* Instances of TtlBox for TLC. *)
EXTENDS TtlBox, TLC

CONSTANTS easyauth, floor

\* The boxes of invalidate_easyauth: the floor is computed from easyauth.
FloorFromEasyauth == [b \in Box |-> IF b = floor THEN easyauth ELSE NoBox]

\* Threads are interchangeable.
Symmetric == Permutations(Thread) \cup Permutations(Writer)
=============================================================================
