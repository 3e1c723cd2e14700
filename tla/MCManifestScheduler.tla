------------------------- MODULE MCManifestScheduler -------------------------
(* Instances of ManifestScheduler for TLC. *)
EXTENDS ManifestScheduler, TLC

\* Threads are interchangeable.
Symmetric == Permutations(Thread)
==============================================================================
