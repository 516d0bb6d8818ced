--------------------------- MODULE MCRegistration ---------------------------
(* Small instances of Registration for TLC.                                *)
EXTENDS Registration, TLC

\* An open line, a full one, one whose liabilities fill it, an unauthorised one.
MCLines ==
  {[authorized |-> TRUE, limit |-> 2, balance |-> 1, liabilities |-> 0],
   [authorized |-> TRUE, limit |-> 2, balance |-> 1, liabilities |-> 1],
   [authorized |-> FALSE, limit |-> 2, balance |-> 0, liabilities |-> 0]}

Symmetry == Permutations(Requests) \cup Permutations(Judgings)
=============================================================================
