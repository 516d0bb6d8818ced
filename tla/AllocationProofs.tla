-------------------------- MODULE AllocationProofs --------------------------
(***************************************************************************)
(* The split of a prize loses and invents nothing, for every prize, team   *)
(* size, ordering and share, while the arithmetic stays inside int64.      *)
(***************************************************************************)
EXTENDS Allocation, AmountsProofs, SequenceTheorems

USE AllocationAssumption

\* The values an int64 holds.
Fits(x) == -(IntSpan \div 2) <= x /\ x < IntSpan - IntSpan \div 2

\* A value that fits is not changed by wrapping.
LEMMA WrapFits ==
  ASSUME NEW x \in Int, Fits(x)
  PROVE  Wrap(x) = x
<1>1. PICK h \in Int : h = IntSpan \div 2
  OBVIOUS
<1>2. x + h \in Int /\ 0 <= x + h /\ x + h < IntSpan
  BY <1>1 DEF Fits
<1>3. (x + h) % IntSpan = x + h
  BY <1>2
<1> QED
  BY <1>1, <1>2, <1>3 DEF Wrap

\* A quotient is an integer.
LEMMA QuotientType ==
  ASSUME NEW y \in Int
  PROVE  Quotient(y, TotalShareBasisPoints) \in Int
<1>1. CASE y >= 0
  BY <1>1 DEF Quotient
<1>2. CASE ~(y >= 0)
  <2>1. -y \in Int /\ (-y) \div TotalShareBasisPoints \in Int
    OBVIOUS
  <2> QED
    BY <1>2, <2>1 DEF Quotient
<1> QED
  BY <1>1, <1>2

\* The positive and negative parts of an integer-valued function.
LEMMA SumParts ==
  ASSUME NEW S, NEW f \in [S -> Int]
  PROVE  /\ Positive(f) \in [S -> Nat] /\ Negative(f) \in [S -> Nat]
         /\ \A x \in S : Positive(f)[x] - Negative(f)[x] = f[x]
BY DEF Positive, Negative

\* A sum is an integer.
LEMMA SumType ==
  ASSUME NEW S, IsFiniteSet(S), NEW f \in [S -> Int]
  PROVE  Sum(f) \in Int
<1>1. Total(Positive(f)) \in Nat /\ Total(Negative(f)) \in Nat
  BY SumParts, TotalType
<1> QED
  BY <1>1 DEF Sum

\* Changing one entry moves the sum by as much as the entry.
LEMMA SumChange ==
  ASSUME NEW S, IsFiniteSet(S), NEW f \in [S -> Int], NEW g \in [S -> Int],
         NEW x \in S, \A y \in S \ {x} : g[y] = f[y]
  PROVE  Sum(g) - Sum(f) = g[x] - f[x]
<1>1. /\ Positive(f) \in [S -> Nat] /\ Negative(f) \in [S -> Nat]
      /\ Positive(g) \in [S -> Nat] /\ Negative(g) \in [S -> Nat]
  BY SumParts
<1>2. /\ \A y \in S \ {x} : Positive(g)[y] = Positive(f)[y]
      /\ \A y \in S \ {x} : Negative(g)[y] = Negative(f)[y]
  BY DEF Positive, Negative
<1>3. /\ Total(Positive(g)) - Total(Positive(f)) = Positive(g)[x] - Positive(f)[x]
      /\ Total(Negative(g)) - Total(Negative(f)) = Negative(g)[x] - Negative(f)[x]
  BY <1>1, <1>2, TotalChange
<1>4. /\ Total(Positive(f)) \in Nat /\ Total(Positive(g)) \in Nat
      /\ Total(Negative(f)) \in Nat /\ Total(Negative(g)) \in Nat
  BY <1>1, TotalType
<1>5. /\ Positive(f)[x] - Negative(f)[x] = f[x]
      /\ Positive(g)[x] - Negative(g)[x] = g[x]
  BY SumParts
<1>6. /\ Positive(f)[x] \in Nat /\ Negative(f)[x] \in Nat
      /\ Positive(g)[x] \in Nat /\ Negative(g)[x] \in Nat
  BY <1>1
<1> QED
  BY <1>3, <1>4, <1>5, <1>6 DEF Sum

\* No intermediate value of the split of amount leaves int64.
NoOverflow(amount, members) ==
  LET floors == [i \in DOMAIN members |->
                   Quotient(amount * members[i].share, TotalShareBasisPoints)]
  IN  /\ \A i \in DOMAIN members : Fits(amount * members[i].share)
      /\ Fits(Sum(floors))
      /\ Fits(amount - Sum(floors))
      /\ Fits(floors[Lowest(members)] + (amount - Sum(floors)))

\* Where nothing overflows, a split is the floors, with what they leave added to
\* the lowest ordinal's.
LEMMA SplitShape ==
  ASSUME NEW amount \in Int,
         NEW members \in Seq([ordinal : Int, share : Int]),
         \E i \in DOMAIN members :
           \A j \in DOMAIN members : members[i].ordinal <= members[j].ordinal,
         NoOverflow(amount, members)
  PROVE  \E f \in [DOMAIN members -> Int], x \in DOMAIN members :
           /\ x = Lowest(members)
           /\ f = [i \in DOMAIN members |->
                     Quotient(amount * members[i].share, TotalShareBasisPoints)]
           /\ SplitPrize(amount, members) = [f EXCEPT ![x] = f[x] + (amount - Sum(f))]
<1>1. IsFiniteSet(DOMAIN members)
  BY FS_Interval
<1>2. Lowest(members) \in DOMAIN members
  BY DEF Lowest
<1>3. PICK S : S = DOMAIN members
  OBVIOUS
<1>4. \A i \in S : members[i].share \in Int
  <2>1. PICK R : R = [ordinal : Int, share : Int]
    OBVIOUS
  <2>2. members \in Seq(R)
    BY <2>1
  <2>3. \A i \in S : members[i] \in R
    BY <1>3, <2>2
  <2> QED
    BY <2>1, <2>3
<1>5. PICK f : f = [i \in S |->
                      Quotient(amount * members[i].share, TotalShareBasisPoints)]
  OBVIOUS
<1>6. f \in [S -> Int]
  <2>1. \A i \in S : amount * members[i].share \in Int
    <3>1. TAKE i \in S
    <3>2. PICK m \in Int : m = members[i].share
      BY <1>4
    <3>3. amount * m \in Int
      OBVIOUS
    <3> QED
      BY <3>2, <3>3
  <2>2. \A i \in S :
          Quotient(amount * members[i].share, TotalShareBasisPoints) \in Int
    BY <2>1, QuotientType
  <2> QED
    BY <1>5, <2>2
<1>7. Floors(amount, members) = f
  <2>1. \A i \in S : Wrap(amount * members[i].share) = amount * members[i].share
    <3>1. \A i \in DOMAIN members : Fits(amount * members[i].share)
      BY DEF NoOverflow
    <3>2. TAKE i \in S
    <3>3. PICK m \in Int : m = members[i].share
      BY <1>4
    <3>4. amount * m \in Int
      OBVIOUS
    <3>5. Fits(amount * m)
      BY <1>3, <3>1, <3>3, Zenon
    <3>6. Wrap(amount * m) = amount * m
      BY <3>4, <3>5, WrapFits
    <3> QED
      BY <3>3, <3>6
  <2> QED
    BY <1>3, <1>5, <2>1 DEF Floors
<1>8. PICK s \in Int : s = Sum(f)
  BY <1>1, <1>3, <1>6, SumType
<1>9. Fits(s) /\ Fits(amount - s) /\ Fits(f[Lowest(members)] + (amount - s))
  BY <1>3, <1>5, <1>8 DEF NoOverflow
<1>10. PICK x \in S : x = Lowest(members)
  BY <1>2, <1>3
<1>11. f[x] \in Int
  BY <1>6
<1>12. SplitPrize(amount, members) = [f EXCEPT ![x] = f[x] + (amount - s)]
  <2>1. Wrap(s) = s /\ Wrap(amount - s) = amount - s
    BY <1>9, WrapFits
  <2>2. Wrap(f[x] + (amount - s)) = f[x] + (amount - s)
    BY <1>9, <1>10, <1>11, WrapFits
  <2> QED
    BY <1>7, <1>8, <1>10, <2>1, <2>2 DEF SplitPrize
<1> QED
  BY <1>3, <1>5, <1>6, <1>8, <1>10, <1>12

\* Rule 7 of AllocateWinners for one prize: what the members get adds up to the
\* prize, to the last unit, whatever the shares, their order and the ordinals,
\* as long as nothing overflows: the contract's exact-sum check then holds.
THEOREM SplitIsExact ==
  ASSUME NEW amount \in Int,
         NEW members \in Seq([ordinal : Int, share : Int]),
         \E i \in DOMAIN members :
           \A j \in DOMAIN members : members[i].ordinal <= members[j].ordinal,
         NoOverflow(amount, members)
  PROVE  Sum(SplitPrize(amount, members)) = amount
<1>1. PICK f \in [DOMAIN members -> Int], x \in DOMAIN members :
        SplitPrize(amount, members) = [f EXCEPT ![x] = f[x] + (amount - Sum(f))]
  BY SplitShape
<1>2. PICK S : S = DOMAIN members
  OBVIOUS
<1>3. IsFiniteSet(S)
  BY <1>2, FS_Interval
<1>4. PICK s \in Int : s = Sum(f)
  BY <1>2, <1>3, SumType
<1>5. PICK g : g = [f EXCEPT ![x] = f[x] + (amount - s)]
  OBVIOUS
<1>6. f[x] \in Int /\ x \in S /\ f \in [S -> Int]
  BY <1>2
<1>7. /\ g \in [S -> Int]
      /\ \A y \in S \ {x} : g[y] = f[y]
      /\ g[x] = f[x] + (amount - s)
  BY <1>5, <1>6
<1>8. Sum(g) - Sum(f) = g[x] - f[x]
  BY <1>3, <1>6, <1>7, SumChange, ZenonT(30)
<1>9. Sum(g) \in Int
  BY <1>3, <1>7, SumType
<1> QED
  BY <1>1, <1>4, <1>5, <1>6, <1>7, <1>8, <1>9

-----------------------------------------------------------------------------
(* A whole allocation.                                                     *)

\* The sum of naturals is their total.
LEMMA SumOfNats ==
  ASSUME NEW S, IsFiniteSet(S), NEW f \in [S -> Nat]
  PROVE  Sum(f) = Total(f)
<1>1. Positive(f) = f
  BY DEF Positive
<1>2. Negative(f) \in [S -> Nat] /\ \A x \in S : Negative(f)[x] = 0
  BY DEF Negative
<1>3. Total(Negative(f)) = 0
  BY <1>2, TotalZero
<1>4. PICK n \in Nat : n = Total(f)
  BY TotalType
<1>5. Sum(f) = n - 0
  BY <1>1, <1>3, <1>4, Zenon DEF Sum
<1>6. n - 0 = n
  OBVIOUS
<1> QED
  BY <1>4, <1>5, <1>6, Zenon

Member == [ordinal : Int, share : Int]
PositionRows == [place : Int, amount : Int]
TeamRows == [place : Int, members : Seq(Member)]

\* An input as core-go's store hands it over: the ranks of an event's prizes are
\* distinct (a unique index), and no step of the split overflows.
WellFormed(in) ==
  /\ in.positions \in Seq(PositionRows)
  /\ in.teams \in Seq(TeamRows)
  /\ \A p, q \in DOMAIN in.positions :
       in.positions[p].place = in.positions[q].place => p = q
  /\ ValidInput(in) =>
       \A p \in DOMAIN in.positions :
         NoOverflow(in.positions[p].amount, MembersFor(in, p))

\* The team of a position exists, and has at least one member.
LEMMA TeamFound ==
  ASSUME NEW in, WellFormed(in), ValidInput(in), NEW p \in DOMAIN in.positions
  PROVE  /\ TeamFor(in, p) \in DOMAIN in.teams
         /\ in.teams[TeamFor(in, p)].place = in.positions[p].place
         /\ MembersFor(in, p) \in Seq(Member)
         /\ MembersFor(in, p) # <<>>
<1>1. \E t \in DOMAIN in.teams : in.teams[t].place = in.positions[p].place
  BY DEF ValidInput
<1>2. /\ TeamFor(in, p) \in DOMAIN in.teams
      /\ in.teams[TeamFor(in, p)].place = in.positions[p].place
  BY <1>1 DEF TeamFor
<1>3. in.teams[TeamFor(in, p)] \in TeamRows
  BY <1>2 DEF WellFormed
<1>4. MembersFor(in, p) \in Seq(Member)
  BY <1>3 DEF MembersFor, TeamRows
<1>5. MembersFor(in, p) # <<>>
  BY DEF ValidInput, ValidTeam
<1> QED
  BY <1>2, <1>4, <1>5

\* A team has a member with the lowest ordinal.
LEMMA LowestOrdinal ==
  ASSUME NEW members \in Seq(Member), members # <<>>
  PROVE  \E i \in DOMAIN members :
           \A j \in DOMAIN members : members[i].ordinal <= members[j].ordinal
<1> DEFINE o == [i \in DOMAIN members |-> members[i].ordinal]
<1>1. IsFiniteSet(DOMAIN members)
  BY FS_Interval
<1>2. DOMAIN members # {}
  <2>1. Len(members) \in Nat /\ Len(members) # 0
    BY EmptySeq, LenProperties
  <2>2. 1 \in DOMAIN members
    BY <2>1, LenProperties
  <2> QED
    BY <2>2
<1>3. o \in [DOMAIN members -> Int]
  <2>1. \A i \in DOMAIN members : members[i] \in Member
    OBVIOUS
  <2> QED
    BY <2>1 DEF Member
<1>4. \E i \in DOMAIN members : \A j \in DOMAIN members : o[i] <= o[j]
  <2> HIDE DEF o
  <2> QED
    BY <1>1, <1>2, <1>3, LowestExists
<1> QED
  BY <1>4

\* Each position's split is as long as its team and adds up to its prize.
LEMMA PositionSplit ==
  ASSUME NEW in, WellFormed(in), ValidInput(in), NEW p \in DOMAIN in.positions
  PROVE  /\ Len(Split(in)[p]) = Len(MembersFor(in, p))
         /\ Sum(Split(in)[p]) = in.positions[p].amount
<1>1. in.positions[p] \in PositionRows
  BY DEF WellFormed
<1>2. in.positions[p].amount \in Int
  BY <1>1 DEF PositionRows
<1>3. PICK members \in Seq(Member) : members = MembersFor(in, p) /\ members # <<>>
  BY TeamFound
<1>4. PICK amount \in Int : amount = in.positions[p].amount
  BY <1>2
<1>5. NoOverflow(amount, members)
  BY <1>3, <1>4 DEF WellFormed
<1>6. \E i \in DOMAIN members :
        \A j \in DOMAIN members : members[i].ordinal <= members[j].ordinal
  BY <1>3, LowestOrdinal
<1>7. Sum(SplitPrize(amount, members)) = amount
  BY <1>5, <1>6, SplitIsExact DEF Member
<1>8. Split(in)[p] = SplitPrize(amount, members)
  BY <1>3, <1>4 DEF Split
<1>9. DOMAIN SplitPrize(amount, members) = DOMAIN members
  BY DEF SplitPrize, Floors
<1>10. Len(SplitPrize(amount, members)) = Len(members)
  BY <1>9
<1> QED
  BY <1>3, <1>4, <1>7, <1>8, <1>10

\* A split of a positive prize by positive shares that add up is fair: every
\* floor leaves less than one unit, so all of them leave less than one unit per
\* member.
LEMMA SplitIsFair ==
  ASSUME NEW amount \in Nat,
         NEW members \in Seq(Member), members # <<>>,
         \A i \in DOMAIN members : members[i].share > 0,
         Sum([i \in DOMAIN members |-> members[i].share]) = TotalShareBasisPoints,
         \E i \in DOMAIN members :
           \A j \in DOMAIN members : members[i].ordinal <= members[j].ordinal,
         NoOverflow(amount, members),
         NEW i \in DOMAIN members
  PROVE  LET extra == SplitPrize(amount, members)[i] - ExactFloor(amount, members[i])
         IN  /\ extra \in 0..(Len(members) - 1)
             /\ extra > 0 => i = Lowest(members)
<1> DEFINE S == DOMAIN members
           T == TotalShareBasisPoints
           shares == [k \in S |-> members[k].share]
           exact == [k \in S |-> amount * shares[k]]
           floors == [k \in S |-> (amount * shares[k]) \div T]
           scaled == [k \in S |-> T * floors[k]]
           rests == [k \in S |-> (amount * shares[k]) % T]
<1>1. IsFiniteSet(S) /\ Cardinality(S) = Len(members) /\ Len(members) \in Nat /\ Len(members) > 0
  <2>1. Len(members) \in Nat /\ S = 1..Len(members)
    BY LenProperties
  <2>2. Len(members) # 0
    BY EmptySeq
  <2>3. IsFiniteSet(1..Len(members)) /\ Cardinality(1..Len(members)) = Len(members)
    <3>1. PICK n \in Nat : n = Len(members)
      BY <2>1
    <3>2. 1 \in Int /\ n \in Int
      OBVIOUS
    <3>3. IsFiniteSet(1..n) /\ Cardinality(1..n) = IF 1 > n THEN 0 ELSE n - 1 + 1
      BY <3>2, FS_Interval, Zenon
    <3>4. Cardinality(1..n) = n
      BY <3>3
    <3> QED
      BY <3>1, <3>3, <3>4
  <2> QED
    BY <2>1, <2>2, <2>3
<1>2. shares \in [S -> Nat]
  <2>1. \A k \in S : members[k] \in Member
    OBVIOUS
  <2>2. \A k \in S : members[k].share \in Nat
    BY <2>1 DEF Member
  <2> QED
    BY <2>2
<1>3. T \in Nat /\ T > 0
  OBVIOUS
<1> HIDE DEF shares, T
<1>4. exact \in [S -> Nat] /\ \A k \in S : amount * shares[k] \in Nat
  BY <1>2
<1>5. /\ floors \in [S -> Nat] /\ rests \in [S -> Nat]
      /\ \A k \in S : exact[k] = T * floors[k] + rests[k] /\ rests[k] <= T - 1
  <2>1. ASSUME NEW e \in Nat
        PROVE  e \div T \in Nat /\ e % T \in Nat /\ e = T * (e \div T) + (e % T) /\ e % T <= T - 1
    BY <1>3
  <2> QED
    BY <1>4, <2>1
<1>6. scaled \in [S -> Nat]
  <2>1. \A n \in Nat : T * n \in Nat
    BY <1>3
  <2> QED
    BY <1>5, <2>1
<1>7. Total(shares) = T
  BY <1>1, <1>2, SumOfNats DEF shares, T
<1>8. exact = [k \in S |-> scaled[k] + rests[k]]
  BY <1>5
<1> HIDE DEF floors, rests, scaled, exact
<1>9. Total(exact) = amount * T
  <2>1. Total([k \in S |-> amount * shares[k]]) = amount * Total(shares)
    BY <1>1, <1>2, TotalScale
  <2> QED
    BY <1>7, <2>1 DEF exact
<1>10. Total(exact) = Total(scaled) + Total(rests)
  BY <1>1, <1>5, <1>6, <1>8, TotalAdd, ZenonT(40)
<1>11. Total(scaled) = T * Total(floors)
  <2>1. Total([k \in S |-> T * floors[k]]) = T * Total(floors)
    BY <1>1, <1>3, <1>5, TotalScale
  <2> QED
    BY <2>1 DEF scaled
<1>12. Total(rests) <= Len(members) * (T - 1)
  <2>1. T - 1 \in Nat
    BY <1>3
  <2> QED
    BY <1>1, <1>5, <2>1, TotalAtMost
<1>13. PICK n \in Nat, t \in Nat, r \in Nat : n = Len(members) /\ t = Total(floors) /\ r = Total(rests)
  BY <1>1, <1>5, TotalType
<1>14. amount * T = T * t + r /\ r <= n * (T - 1) /\ n > 0
  BY <1>1, <1>9, <1>10, <1>11, <1>12, <1>13
<1>15. amount - t \in 0..(n - 1)
  <2>1. T * (amount - t) = r
    BY <1>3, <1>14
  <2>2. ASSUME amount - t < 0 PROVE FALSE
    <3>1. PICK d \in Nat : t - amount = d /\ d >= 1
      BY <2>2
    <3>2. T * d >= T /\ T * (amount - t) = -(T * d)
      BY <1>3, <3>1
    <3> QED
      BY <1>3, <2>1, <3>2
  <2>3. ASSUME amount - t >= n PROVE FALSE
    <3>1. PICK d \in Nat : amount - t = n + d
      BY <2>3
    <3>2. T * (amount - t) = T * n + T * d /\ T * d >= 0
      BY <1>3, <3>1
    <3>3. PICK m \in Nat, e \in Nat : m = T * n /\ e = T * d
      BY <1>3
    <3>4. n * (T - 1) = m - n
      BY <1>3, <3>3
    <3>5. r = m + e
      BY <2>1, <3>2, <3>3
    <3> QED
      BY <1>14, <3>4, <3>5
  <2> QED
    BY <2>2, <2>3
<1>16. PICK f \in [S -> Int], x \in S :
         /\ x = Lowest(members)
         /\ f = [k \in S |-> Quotient(amount * members[k].share, TotalShareBasisPoints)]
         /\ SplitPrize(amount, members) = [f EXCEPT ![x] = f[x] + (amount - Sum(f))]
  <2>1. amount \in Int /\ members \in Seq([ordinal : Int, share : Int])
    BY DEF Member
  <2> QED
    BY <2>1, SplitShape, Zenon
<1>17. f = floors
  BY <1>4, <1>16, SMTT(30) DEF Quotient, floors, shares, T
<1>18. Sum(f) = t
  BY <1>1, <1>5, <1>13, <1>17, SumOfNats
<1>19. ExactFloor(amount, members[i]) = floors[i] /\ floors[i] \in Nat
  BY <1>5 DEF ExactFloor, floors, shares, T
<1>20. SplitPrize(amount, members)[i] = IF i = x THEN floors[i] + (amount - t) ELSE floors[i]
  BY <1>16, <1>17, <1>18
<1>21. CASE i = x
  <2>1. PICK e \in Nat : e = floors[i]
    BY <1>19
  <2>2. SplitPrize(amount, members)[i] - ExactFloor(amount, members[i]) = amount - t
    BY <1>19, <1>20, <1>21, <2>1
  <2> QED
    BY <1>13, <1>15, <1>16, <1>21, <2>2
<1>22. CASE i # x
  <2>1. SplitPrize(amount, members)[i] - ExactFloor(amount, members[i]) = 0
    BY <1>19, <1>20, <1>22
  <2> QED
    BY <1>13, <1>14, <2>1
<1> QED
  BY <1>21, <1>22

\* The members of all positions' teams are no more than those of all teams.
LEMMA WinnersBounded ==
  ASSUME NEW in, WellFormed(in), ValidInput(in)
  PROVE  Sum([p \in DOMAIN Split(in) |-> Len(Split(in)[p])]) <= MaxWinners
<1> DEFINE S == DOMAIN in.positions
           T == DOMAIN in.teams
           f == [p \in S |-> Len(MembersFor(in, p))]
           g == TeamSizes(in)
           h == [p \in S |-> TeamFor(in, p)]
<1>1. IsFiniteSet(S) /\ IsFiniteSet(T)
  BY FS_Interval DEF WellFormed
<1>2. f \in [S -> Nat]
  <2>1. \A p \in S : Len(MembersFor(in, p)) \in Nat
    BY TeamFound, LenProperties
  <2> QED
    BY <2>1
<1>3. g \in [T -> Nat]
  <2>1. \A t \in T : in.teams[t] \in TeamRows
    BY DEF WellFormed
  <2>2. \A t \in T : in.teams[t].members \in Seq(Member)
    BY <2>1 DEF TeamRows
  <2>3. \A t \in T : Len(in.teams[t].members) \in Nat
    BY <2>2, LenProperties
  <2> QED
    BY <2>3 DEF TeamSizes
<1>4. h \in [S -> T] /\ \A p \in S : in.teams[h[p]].place = in.positions[p].place
  BY TeamFound
<1>5. \A p, q \in S : h[p] = h[q] => p = q
  BY <1>4, ZenonT(40) DEF WellFormed
<1>6. \A p \in S : g[h[p]] = f[p]
  BY <1>4 DEF TeamSizes, MembersFor
<1>7. [p \in DOMAIN Split(in) |-> Len(Split(in)[p])] = f
  <2>1. DOMAIN Split(in) = S
    BY DEF Split
  <2> QED
    BY <2>1, PositionSplit
<1>8. Sum(g) <= MaxWinners
  BY DEF ValidInput
<1> HIDE DEF S, T, f, g, h
<1>9. Total(f) <= Total(g)
  BY <1>1, <1>2, <1>3, <1>4, <1>5, <1>6, TotalInjection
<1>10. Sum(f) = Total(f) /\ Sum(g) = Total(g)
  BY <1>1, <1>2, <1>3, SumOfNats
<1>11. Total(f) \in Nat /\ Total(g) \in Nat
  BY <1>1, <1>2, <1>3, TotalType
<1> QED
  BY <1>7, <1>8, <1>9, <1>10, <1>11

\* The post-condition of AllocateWinners holds: rule 7 never panics.
LEMMA TotalIsReward ==
  ASSUME NEW in, WellFormed(in), ValidInput(in)
  PROVE  PaidTotal(Split(in)) = in.reward
<1>1. DOMAIN Split(in) = DOMAIN in.positions
  BY DEF Split
<1>2. [p \in DOMAIN Split(in) |-> Sum(Split(in)[p])] = PositionAmounts(in)
  BY <1>1, PositionSplit DEF PositionAmounts
<1> QED
  BY <1>2 DEF PaidTotal, ValidInput

\* The answer to an input is the answer of AllocateWinners to it.
Answered ==
  /\ input \in Inputs
  /\ result.answer = "none" \/ result = AllocateWinners(input)

\* What AllocateWinners answers is paid in full.
LEMMA AnswerPaysInFull ==
  ASSUME \A in \in Inputs : WellFormed(in), Answered
  PROVE  PaysInFull
<1>1. CASE result.answer = "none"
  BY <1>1 DEF PaysInFull, Winning
<1>2. CASE result = AllocateWinners(input) /\ result.answer # "none"
  <2>1. CASE result.answer \notin {"winners", "panic"}
    BY <2>1 DEF PaysInFull, Winning
  <2>2. CASE result.answer \in {"winners", "panic"}
    <3>1. ValidInput(input) /\ AllPaid(Split(input))
      BY <1>2, <2>2 DEF AllocateWinners
    <3>2. WellFormed(input)
      BY DEF Answered
    <3>3. result = [answer |-> "winners", split |-> Split(input)]
      BY <1>2, <3>1, <3>2, TotalIsReward DEF AllocateWinners
    <3>4. result.answer = "winners" /\ result.split = Split(input)
      BY <3>3
    <3>5. \A p \in DOMAIN Split(input) :
            Sum(Split(input)[p]) = input.positions[p].amount
      BY <3>1, <3>2, PositionSplit DEF Split
    <3>6. Sum([p \in DOMAIN Split(input) |-> Len(Split(input)[p])]) <= MaxWinners
      BY <3>1, <3>2, WinnersBounded
    <3> QED
      BY <3>1, <3>4, <3>5, <3>6 DEF PaysInFull, AllPaid
  <2> QED
    BY <2>1, <2>2
<1> QED
  BY <1>1, <1>2 DEF Answered

\* Whatever prizes, teams, shares and ordinals, while nothing overflows and the
\* ranks are distinct, AllocateWinners pays every prize to the last unit and
\* every member something, in one call of at most MAX_WINNERS winners, and its
\* post-condition never panics.
THEOREM PrizesPaidInFull ==
  ASSUME \A in \in Inputs : WellFormed(in)
  PROVE  Spec => []PaysInFull
<1>1. Init => Answered
  BY DEF Init, Answered
<1>2. Answered /\ [Next]_vars => Answered'
  BY DEF Answered, Next, Allocate, vars
<1>3. Answered => PaysInFull
  BY AnswerPaysInFull
<1> QED
  BY <1>1, <1>2, <1>3, PTL DEF Spec

\* The split of every position is fair.
LEMMA PositionIsFair ==
  ASSUME NEW in, WellFormed(in), ValidInput(in), NEW p \in DOMAIN in.positions,
         NEW i \in DOMAIN MembersFor(in, p)
  PROVE  LET members == MembersFor(in, p)
             extra == Split(in)[p][i] - ExactFloor(in.positions[p].amount, members[i])
         IN  /\ extra \in 0..(Len(members) - 1)
             /\ extra > 0 => \A j \in DOMAIN members : members[i].ordinal <= members[j].ordinal
<1>1. in.positions[p] \in PositionRows
  BY DEF WellFormed
<1>2. PICK amount \in Nat : amount = in.positions[p].amount
  BY <1>1 DEF PositionRows, ValidInput
<1>3. PICK members \in Seq(Member) : members = MembersFor(in, p) /\ members # <<>>
  BY TeamFound
<1>4. NoOverflow(amount, members)
  BY <1>2, <1>3 DEF WellFormed
<1>5. /\ \A k \in DOMAIN members : members[k].share > 0
      /\ Sum([k \in DOMAIN members |-> members[k].share]) = TotalShareBasisPoints
  BY <1>3 DEF ValidInput, ValidTeam
<1>6. \E k \in DOMAIN members : \A j \in DOMAIN members : members[k].ordinal <= members[j].ordinal
  BY <1>3, LowestOrdinal
<1>7. \A j \in DOMAIN members : members[Lowest(members)].ordinal <= members[j].ordinal
  BY <1>6 DEF Lowest
<1>8. Split(in)[p] = SplitPrize(amount, members)
  BY <1>2, <1>3 DEF Split
<1>9. LET extra == SplitPrize(amount, members)[i] - ExactFloor(amount, members[i])
      IN  extra \in 0..(Len(members) - 1) /\ (extra > 0 => i = Lowest(members))
  BY <1>3, <1>4, <1>5, <1>6, SplitIsFair
<1> QED
  BY <1>2, <1>3, <1>7, <1>8, <1>9

LEMMA AnswerIsFair ==
  ASSUME \A in \in Inputs : WellFormed(in), Answered
  PROVE  SharesAreFair
<1> SUFFICES ASSUME result.answer = "winners" PROVE SharesAreFair
  BY DEF SharesAreFair, Winning
<1>1. result = AllocateWinners(input) /\ WellFormed(input)
  BY DEF Answered
<1>2. ValidInput(input) /\ AllPaid(Split(input))
  BY <1>1 DEF AllocateWinners
<1>3. result = [answer |-> "winners", split |-> Split(input)]
  BY <1>1, <1>2, TotalIsReward DEF AllocateWinners
<1>4. result.split = Split(input) /\ DOMAIN Split(input) = DOMAIN input.positions
  BY <1>3 DEF Split
<1> QED
  BY <1>1, <1>2, <1>4, PositionIsFair DEF SharesAreFair

\* Where nothing overflows and the ranks are distinct, every member gets the
\* exact floor of the declared share, and the member with the lowest ordinal
\* what the floors of the team leave: less than one unit per member.
THEOREM SharesStayFair ==
  ASSUME \A in \in Inputs : WellFormed(in)
  PROVE  Spec => []SharesAreFair
<1>1. Init => Answered
  BY DEF Init, Answered
<1>2. Answered /\ [Next]_vars => Answered'
  BY DEF Answered, Next, Allocate, vars
<1>3. Answered => SharesAreFair
  BY AnswerIsFair
<1> QED
  BY <1>1, <1>2, <1>3, PTL DEF Spec
=============================================================================
