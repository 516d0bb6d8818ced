---------------------------- MODULE Allocation ----------------------------
(***************************************************************************)
(* AllocateWinners (allocate.go): the split of every prize among the       *)
(* members of the team that won it, in int64 arithmetic.                   *)
(*                                                                         *)
(* An input is a reward, the positions and the winning teams; a result is  *)
(* the amounts of every position's team in member order, or a refusal.     *)
(* Addresses, error texts and the flattening into one list are left out:   *)
(* neither the checks nor the amounts depend on them.                      *)
(***************************************************************************)
EXTENDS Integers, Sequences, FiniteSets, Amounts

CONSTANTS
  TotalShareBasisPoints,  \* 10000 in the code
  MaxWinners,             \* maxWinnersAllocation, 25 in the code
  IntSpan,                \* number of int64 values, 2^64 in the code
  Inputs                  \* the inputs tried

ASSUME AllocationAssumption ==
  /\ TotalShareBasisPoints \in Nat \ {0}
  /\ MaxWinners \in Nat
  /\ IntSpan \in Nat \ {0}

VARIABLES input, result
vars == <<input, result>>

\* int64: the value congruent to x that fits.
Wrap(x) == ((x + IntSpan \div 2) % IntSpan) - IntSpan \div 2

\* Go's integer division rounds towards zero.
Quotient(x, d) == IF x >= 0 THEN x \div d ELSE -((-x) \div d)

\* The sum of an integer-valued function.
Positive(f) == [x \in DOMAIN f |-> IF f[x] > 0 THEN f[x] ELSE 0]
Negative(f) == [x \in DOMAIN f |-> IF f[x] < 0 THEN -f[x] ELSE 0]
Sum(f) == Total(Positive(f)) - Total(Negative(f))

\* Rule 3: the floor of each member's share.
Floors(amount, members) ==
  [i \in DOMAIN members |->
     Quotient(Wrap(amount * members[i].share), TotalShareBasisPoints)]

\* Mutant: the first listed member.
Lowest_First(members) == 1

\* The member who gets the remainder: the lowest ordinal, not the first listed.
Lowest(members) ==
  CHOOSE i \in DOMAIN members :
    \A j \in DOMAIN members : members[i].ordinal <= members[j].ordinal

\* Mutant: the remainder is dropped.
SplitPrize_NoRemainder(amount, members) == Floors(amount, members)

\* Rule 4: what the floors leave goes to the lowest ordinal.
SplitPrize(amount, members) ==
  LET floors == Floors(amount, members)
      remainder == Wrap(amount - Wrap(Sum(floors)))
  IN  [floors EXCEPT ![Lowest(members)] = Wrap(@ + remainder)]

\* Rule 2: shares are positive, ordinals differ, shares add up.
ValidTeam(members) ==
  /\ members # <<>>
  /\ \A i \in DOMAIN members : members[i].share > 0
  /\ \A i, j \in DOMAIN members : members[i].ordinal = members[j].ordinal => i = j
  /\ Sum([i \in DOMAIN members |-> members[i].share]) = TotalShareBasisPoints

PositionAmounts(in) == [p \in DOMAIN in.positions |-> in.positions[p].amount]
TeamSizes(in) == [t \in DOMAIN in.teams |-> Len(in.teams[t].members)]

TeamFor(in, p) ==
  (CHOOSE t \in DOMAIN in.teams : in.teams[t].place = in.positions[p].place)

MembersFor(in, p) == in.teams[TeamFor(in, p)].members

\* Rules 1, 2 and 6.
ValidInput(in) ==
  /\ in.positions # <<>>
  /\ \A p \in DOMAIN in.positions : in.positions[p].amount > 0
  /\ Wrap(Sum(PositionAmounts(in))) = in.reward
  /\ Len(in.teams) = Len(in.positions)
  /\ \A t, u \in DOMAIN in.teams : in.teams[t].place = in.teams[u].place => t = u
  /\ Sum(TeamSizes(in)) <= MaxWinners
  /\ \A p \in DOMAIN in.positions :
       /\ \E t \in DOMAIN in.teams : in.teams[t].place = in.positions[p].place
       /\ ValidTeam(MembersFor(in, p))

Split(in) ==
  [p \in DOMAIN in.positions |->
     SplitPrize(in.positions[p].amount, MembersFor(in, p))]

\* Rule 5: every member is paid something.
AllPaid(split) == \A p \in DOMAIN split : \A i \in DOMAIN split[p] : split[p][i] > 0

PaidTotal(split) == Wrap(Sum([p \in DOMAIN split |-> Sum(split[p])]))

\* Rule 7 panics when the total is not the reward.
AllocateWinners(in) ==
  CASE ~ValidInput(in) -> [answer |-> "error"]
    [] ValidInput(in) /\ ~AllPaid(Split(in)) -> [answer |-> "error"]
    [] ValidInput(in) /\ AllPaid(Split(in)) ->
         IF PaidTotal(Split(in)) = in.reward
         THEN [answer |-> "winners", split |-> Split(in)]
         ELSE [answer |-> "panic"]

Init ==
  /\ input \in Inputs
  /\ result = [answer |-> "none"]

Allocate ==
  /\ result.answer = "none"
  /\ result' = AllocateWinners(input)
  /\ UNCHANGED input

Next == Allocate

Spec == Init /\ [][Next]_vars

-----------------------------------------------------------------------------
Winning == result.answer = "winners"

\* Every prize is paid in full and to the last unit, nobody gets nothing, and
\* the whole fits one release_reward call: exactly what the contract's
\* validate_and_sum_winners will insist on.  The post-condition never panics.
PaysInFull ==
  /\ result.answer # "panic"
  /\ Winning =>
       /\ \A p \in DOMAIN result.split :
            /\ Sum(result.split[p]) = input.positions[p].amount
            /\ \A i \in DOMAIN result.split[p] : result.split[p][i] > 0
       /\ Sum([p \in DOMAIN result.split |-> Len(result.split[p])]) <= MaxWinners

\* The exact share of a member, rounded down, without int64.
ExactFloor(amount, m) == (amount * m.share) \div TotalShareBasisPoints

\* Every member gets the exact floor of the declared share; only the member with
\* the lowest ordinal gets more, and that by less than one unit per member,
\* however the members are ordered in the request.
SharesAreFair ==
  Winning =>
    \A p \in DOMAIN result.split :
      LET members == MembersFor(input, p)
          extra == [i \in DOMAIN members |->
                      result.split[p][i] -
                        ExactFloor(input.positions[p].amount, members[i])]
      IN  \A i \in DOMAIN members :
            /\ extra[i] \in 0..(Len(members) - 1)
            /\ extra[i] > 0 => \A j \in DOMAIN members :
                                 members[i].ordinal <= members[j].ordinal

\* The rule as allocate.go states it: "Each member's amount is
\* floor(position.Amount * share / 10000)", the remainder aside.
FloorRule ==
  Winning =>
    \A p \in DOMAIN result.split :
      \A i \in DOMAIN result.split[p] :
        i # Lowest(MembersFor(input, p)) =>
          result.split[p][i] =
            ExactFloor(input.positions[p].amount, MembersFor(input, p)[i])
=============================================================================
