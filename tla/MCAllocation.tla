---------------------------- MODULE MCAllocation ----------------------------
(* Inputs for Allocation: every team of up to three members with any shares *)
(* and ordinals, for one prize or two, and the mistakes the code refuses.   *)
EXTENDS Allocation

CONSTANTS PrizeAmounts, Shares, Ordinals

Member == [ordinal : Ordinals, share : Shares]
Team == UNION {[1..n -> Member] : n \in 0..3}

\* One prize; the reward is the prize or one unit off.
OnePrize ==
  {[reward |-> a + d, positions |-> <<[place |-> 1, amount |-> a]>>,
    teams |-> <<[place |-> 1, members |-> m]>>] :
     a \in PrizeAmounts, d \in {0, 1}, m \in Team}

\* Two prizes, the teams listed in either order, or one place named twice.
SmallTeam ==
  {<<[ordinal |-> 0, share |-> TotalShareBasisPoints]>>} \cup
  {m \in [1..2 -> Member] :
     /\ m[1].share > 0 /\ m[2].share > 0
     /\ m[1].share + m[2].share = TotalShareBasisPoints
     /\ m[1].ordinal + m[2].ordinal = 1}

TwoPrizes ==
  {[reward |-> a + b,
    positions |-> <<[place |-> 1, amount |-> a], [place |-> 2, amount |-> b]>>,
    teams |-> <<[place |-> x, members |-> m], [place |-> y, members |-> n]>>] :
     a \in PrizeAmounts, b \in PrizeAmounts, x \in 1..2, y \in 1..2,
     m \in SmallTeam, n \in SmallTeam}

AllInputs == OnePrize \cup TwoPrizes
=============================================================================
