----------------------------- MODULE MCSyncBridge -----------------------------
(* Instances of SyncBridge for TLC. *)
EXTENDS SyncBridge, TLC

\* Calls, tasks and pool threads are interchangeable.
Symmetry == Permutations(SCall) \cup Permutations(ACall)
                \cup Permutations(Spawn) \cup Permutations(Pool)
=============================================================================
