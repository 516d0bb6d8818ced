------------------------------ MODULE Amounts ------------------------------
(***************************************************************************)
(* Totals of token amounts.                                                *)
(*                                                                         *)
(* The contract sums a list of payments with Iterator::sum; its auditors   *)
(* sum wallets and reserved prizes.  A total is defined here by counting:  *)
(* every unit of the amount f[x] is a pair <<x, k>>, and the total of f is *)
(* the number of such pairs.  The definition needs no recursion, so facts  *)
(* about it follow from the cardinality theorems (module AmountsProofs).   *)
(***************************************************************************)
EXTENDS Integers, FiniteSets

\* The units of account of x under f, and of every x together.
UnitsOf(f, x) == {x} \X (1..f[x])

Units(f) == UNION {UnitsOf(f, x) : x \in DOMAIN f}

\* The sum of f[x] over the domain of f, for f with natural values.
Total(f) == Cardinality(Units(f))
=============================================================================
