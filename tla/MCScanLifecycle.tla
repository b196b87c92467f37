-------------------------- MODULE MCScanLifecycle --------------------------
(* Instances of ScanLifecycle for TLC. *)
EXTENDS ScanLifecycle, TLC

\* Sites, requests and ticks are interchangeable (safety runs only).
Symmetry == Permutations(Sites) \union Permutations(Requests) \union Permutations(Ticks)
=============================================================================
