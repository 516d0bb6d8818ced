--------------------------- MODULE MCCoreService ---------------------------
(* Small instances of CoreService for TLC.                                 *)
EXTENDS CoreService, TLC

\* Requests, random ids and allocations are interchangeable.
Symmetry ==
  Permutations(Requests) \cup Permutations(EscrowIds) \cup Permutations(Winners)
=============================================================================
