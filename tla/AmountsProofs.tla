--------------------------- MODULE AmountsProofs ---------------------------
(***************************************************************************)
(* The facts about Total that the proofs about money rest on: it is a      *)
(* natural number, it moves by exactly the change of the one entry that    *)
(* changed, it is monotone, it adds and it scales. The last two lemmas     *)
(* are about numbers: the lowest of finitely many, and induction.          *)
(***************************************************************************)
EXTENDS Amounts, FiniteSetTheorems, FunctionTheorems, TLAPS

\* The units of one account are as many as its amount.
LEMMA UnitsOfCount ==
  ASSUME NEW x, NEW f, f[x] \in Nat
  PROVE  /\ IsFiniteSet(UnitsOf(f, x))
         /\ Cardinality(UnitsOf(f, x)) = f[x]
<1> DEFINE g == [k \in 1..f[x] |-> <<x, k>>]
<1>1. g \in Bijection(1..f[x], UnitsOf(f, x))
  <2>1. g \in [1..f[x] -> UnitsOf(f, x)]
    BY DEF UnitsOf
  <2>2. \A i, j \in 1..f[x] : g[i] = g[j] => i = j
    OBVIOUS
  <2>3. \A p \in UnitsOf(f, x) : \E k \in 1..f[x] : g[k] = p
    BY DEF UnitsOf
  <2> QED
    BY <2>1, <2>2, <2>3 DEF Bijection, Injection, Surjection, IsInjective
<1>2. ExistsBijection(1..f[x], UnitsOf(f, x))
  BY <1>1 DEF ExistsBijection
<1>3. IsFiniteSet(1..f[x]) /\ Cardinality(1..f[x]) = f[x]
  BY FS_Interval, SMTT(30)
<1> QED
  BY <1>2, <1>3, FS_Bijection

\* Finitely many accounts with finite amounts have finitely many units.
LEMMA UnitsFinite ==
  ASSUME NEW S, IsFiniteSet(S), NEW f \in [S -> Nat]
  PROVE  IsFiniteSet(Units(f))
<1> DEFINE Fam == {UnitsOf(f, x) : x \in DOMAIN f}
           h == [x \in S |-> UnitsOf(f, x)]
<1>1. h \in Surjection(S, Fam)
  BY DEF Surjection
<1>2. IsFiniteSet(Fam)
  BY <1>1, FS_Surjection
<1>3. \A U \in Fam : IsFiniteSet(U)
  BY UnitsOfCount
<1>4. IsFiniteSet(UNION Fam)
  BY <1>2, <1>3, FS_UNION
<1> QED
  BY <1>4 DEF Units

\* A total of finitely many amounts is a natural number.
LEMMA TotalType ==
  ASSUME NEW S, IsFiniteSet(S), NEW f \in [S -> Nat]
  PROVE  Total(f) \in Nat
BY UnitsFinite, FS_CardinalityType DEF Total

\* A total splits into one entry and the units of all the others.
LEMMA TotalSplit ==
  ASSUME NEW S, IsFiniteSet(S), NEW f \in [S -> Nat], NEW x \in S
  PROVE  LET Rest == UNION {UnitsOf(f, y) : y \in S \ {x}}
         IN  /\ Cardinality(Rest) \in Nat
             /\ Total(f) = Cardinality(Rest) + f[x]
<1> DEFINE Rest == UNION {UnitsOf(f, y) : y \in S \ {x}}
<1>1. Units(f) = Rest \cup UnitsOf(f, x)
  BY DEF Units
<1>2. Rest \cap UnitsOf(f, x) = {}
  BY DEF UnitsOf
<1>3. IsFiniteSet(Rest)
  <2>1. Rest \in SUBSET Units(f)
    BY <1>1
  <2> QED
    BY <2>1, UnitsFinite, FS_Subset
<1>4. /\ IsFiniteSet(UnitsOf(f, x))
      /\ Cardinality(UnitsOf(f, x)) = f[x]
  BY UnitsOfCount
<1>5. Cardinality(Rest) \in Nat
  BY <1>3, FS_CardinalityType
<1>6. Cardinality(Rest \cup UnitsOf(f, x)) = Cardinality(Rest) + f[x] - Cardinality({})
  BY <1>2, <1>3, <1>4, FS_Union
<1>7. Cardinality({}) = 0
  BY FS_EmptySet
<1>8. Total(f) = Cardinality(Rest) + f[x]
  <2> HIDE DEF Rest
  <2> QED
    BY <1>1, <1>5, <1>6, <1>7 DEF Total
<1> QED
  BY <1>5, <1>8

\* Every entry is at most the total.
LEMMA TotalEntry ==
  ASSUME NEW S, IsFiniteSet(S), NEW f \in [S -> Nat], NEW x \in S
  PROVE  f[x] <= Total(f)
<1> DEFINE Rest == UNION {UnitsOf(f, y) : y \in S \ {x}}
<1>1. Cardinality(Rest) \in Nat /\ Total(f) = Cardinality(Rest) + f[x]
  BY TotalSplit
<1> HIDE DEF Rest
<1> QED
  BY <1>1

\* When only the entry of x differs, the totals differ by as much.
LEMMA TotalChange ==
  ASSUME NEW S, IsFiniteSet(S), NEW f \in [S -> Nat], NEW g \in [S -> Nat],
         NEW x \in S, \A y \in S \ {x} : g[y] = f[y]
  PROVE  Total(g) - Total(f) = g[x] - f[x]
<1> DEFINE RestF == UNION {UnitsOf(f, y) : y \in S \ {x}}
           RestG == UNION {UnitsOf(g, y) : y \in S \ {x}}
<1>1. \A y \in S \ {x} : UnitsOf(f, y) = UnitsOf(g, y)
  BY DEF UnitsOf
<1>2. RestF = RestG
  BY <1>1
<1>3. Cardinality(RestF) \in Nat /\ Total(f) = Cardinality(RestF) + f[x]
  BY TotalSplit
<1>4. Cardinality(RestG) \in Nat /\ Total(g) = Cardinality(RestG) + g[x]
  BY TotalSplit
<1> HIDE DEF RestF, RestG
<1> QED
  BY <1>2, <1>3, <1>4

\* A pointwise larger function has a larger total.
LEMMA TotalMonotone ==
  ASSUME NEW S, IsFiniteSet(S), NEW f \in [S -> Nat], NEW g \in [S -> Nat],
         \A y \in S : f[y] <= g[y]
  PROVE  Total(f) <= Total(g)
<1>1. \A y \in S : 1..f[y] \subseteq 1..g[y]
  OBVIOUS
<1>2. \A y \in S : UnitsOf(f, y) \subseteq UnitsOf(g, y)
  BY <1>1 DEF UnitsOf
<1>3. Units(f) \in SUBSET Units(g)
  BY <1>2 DEF Units
<1> QED
  BY <1>3, UnitsFinite, FS_Subset DEF Total

\* The total of zeros is zero.
LEMMA TotalZero ==
  ASSUME NEW S, NEW f \in [S -> Nat], \A x \in S : f[x] = 0
  PROVE  Total(f) = 0
<1>1. \A x \in S : UnitsOf(f, x) = {}
  BY DEF UnitsOf
<1>2. Units(f) = {}
  BY <1>1 DEF Units
<1> QED
  BY <1>2, FS_EmptySet DEF Total

\* Amounts that are entered once each into a larger account total no more.
LEMMA TotalInjection ==
  ASSUME NEW S, IsFiniteSet(S), NEW T, IsFiniteSet(T),
         NEW f \in [S -> Nat], NEW g \in [T -> Nat], NEW h \in [S -> T],
         \A x, y \in S : h[x] = h[y] => x = y,
         \A x \in S : g[h[x]] = f[x]
  PROVE  Total(f) <= Total(g)
<1> DEFINE m == [u \in Units(f) |-> <<h[u[1]], u[2]>>]
<1>1. \A u \in Units(f) : /\ u[1] \in S /\ u[2] \in 1..f[u[1]]
                          /\ u = <<u[1], u[2]>>
  BY DEF Units, UnitsOf
<1>2. \A u \in Units(f) : <<h[u[1]], u[2]>> \in Units(g)
  <2>1. TAKE u \in Units(f)
  <2>2. h[u[1]] \in T /\ u[2] \in 1..g[h[u[1]]]
    BY <1>1
  <2> QED
    BY <2>2 DEF Units, UnitsOf
<1>3. m \in [Units(f) -> Units(g)]
  BY <1>2
<1>4. \A u, v \in Units(f) : m[u] = m[v] => u = v
  BY <1>1
<1>5. m \in Injection(Units(f), Units(g))
  BY <1>3, <1>4 DEF Injection, IsInjective
<1>6. IsFiniteSet(Units(g))
  BY UnitsFinite
<1> QED
  BY <1>5, <1>6, FS_Injection DEF Total

\* Two lists of amounts, added entry by entry, have the sum of the totals.
LEMMA TotalAdd ==
  ASSUME NEW S, IsFiniteSet(S), NEW f \in [S -> Nat], NEW g \in [S -> Nat]
  PROVE  Total([x \in S |-> f[x] + g[x]]) = Total(f) + Total(g)
<1> DEFINE h == [x \in S |-> f[x] + g[x]]
           Late == {p \in Units(h) : p[2] > f[p[1]]}
           move == [p \in Late |-> <<p[1], p[2] - f[p[1]]>>]
<1>1. h \in [S -> Nat] /\ IsFiniteSet(Units(h)) /\ IsFiniteSet(Units(f)) /\ IsFiniteSet(Units(g))
  BY UnitsFinite
<1>2. \A p : p \in Units(h) <=> /\ p = <<p[1], p[2]>> /\ p[1] \in S
                                /\ p[2] \in 1..(f[p[1]] + g[p[1]])
  BY DEF Units, UnitsOf
<1>3. \A p : p \in Units(f) <=> p = <<p[1], p[2]>> /\ p[1] \in S /\ p[2] \in 1..f[p[1]]
  BY DEF Units, UnitsOf
<1>4. \A p : p \in Units(g) <=> p = <<p[1], p[2]>> /\ p[1] \in S /\ p[2] \in 1..g[p[1]]
  BY DEF Units, UnitsOf
<1>5. Units(h) = Units(f) \cup Late /\ Units(f) \cap Late = {}
  BY <1>2, <1>3
<1>6. move \in Bijection(Late, Units(g))
  <2>1. move \in [Late -> Units(g)]
    BY <1>2, <1>4
  <2>2. \A p, q \in Late : move[p] = move[q] => p = q
    BY <1>2
  <2>3. \A u \in Units(g) : \E p \in Late : move[p] = u
    <3> SUFFICES ASSUME NEW u \in Units(g) PROVE \E p \in Late : move[p] = u
      OBVIOUS
    <3>1. <<u[1], f[u[1]] + u[2]>> \in Late
      BY <1>2, <1>4
    <3> QED
      BY <1>4, <3>1
  <2> QED
    BY <2>1, <2>2, <2>3 DEF Bijection, Injection, Surjection, IsInjective
<1> HIDE DEF h, Late, move
<1>7. IsFiniteSet(Late) /\ Cardinality(Late) = Cardinality(Units(g))
  <2>1. Late \in SUBSET Units(h)
    BY <1>5
  <2>2. IsFiniteSet(Late)
    BY <1>1, <2>1, FS_Subset
  <2>3. ExistsBijection(Late, Units(g))
    BY <1>6 DEF ExistsBijection
  <2> QED
    BY <2>2, <2>3, FS_Bijection
<1>8. Cardinality(Units(f) \cup Late) = Cardinality(Units(f)) + Cardinality(Late) - Cardinality({})
  BY <1>1, <1>5, <1>7, FS_Union
<1>9. Cardinality({}) = 0 /\ Cardinality(Units(f)) \in Nat /\ Cardinality(Units(g)) \in Nat
  BY <1>1, FS_EmptySet, FS_CardinalityType
<1>10. Total(h) = Total(f) + Total(g)
  BY <1>5, <1>7, <1>8, <1>9 DEF Total
<1> QED
  BY <1>10 DEF h

\* As many times the amounts have as many times the total.
LEMMA TotalScale ==
  ASSUME NEW S, IsFiniteSet(S), NEW f \in [S -> Nat], NEW c \in Nat
  PROVE  Total([x \in S |-> c * f[x]]) = c * Total(f)
<1> DEFINE h == [x \in S |-> c * f[x]]
           Pairs == (1..c) \X Units(f)
           unit == [q \in Pairs |-> <<q[2][1], c * (q[2][2] - 1) + q[1]>>]
<1>1. IsFiniteSet(Units(f))
  BY UnitsFinite
<1>2. \A p : p \in Units(h) <=> p = <<p[1], p[2]>> /\ p[1] \in S /\ p[2] \in 1..(c * f[p[1]])
  BY DEF Units, UnitsOf
<1>3. \A p : p \in Units(f) <=> p = <<p[1], p[2]>> /\ p[1] \in S /\ p[2] \in 1..f[p[1]]
  BY DEF Units, UnitsOf
<1>4. ASSUME NEW k \in 1..c, NEW n \in Nat, NEW m \in 1..n
      PROVE  c * (m - 1) + k \in 1..(c * n)
  <2>1. PICK d \in Nat : n = m + d
    OBVIOUS
  <2>2. c * n = c * (m - 1) + c + c * d
    BY <2>1
  <2>3. c * d \in Nat /\ c * (m - 1) \in Nat
    BY <2>1
  <2> QED
    BY <2>2, <2>3
<1>5. ASSUME NEW k \in 1..c, NEW m \in Nat, NEW j \in 1..c, NEW n \in Nat,
             c * (m - 1) + k = c * (n - 1) + j
      PROVE  m = n /\ k = j
  <2>1. CASE m < n
    <3>1. PICK d \in Nat : n = m + d /\ d >= 1
      BY <2>1
    <3>2. c * (n - 1) = c * (m - 1) + c * d /\ c * d >= c
      BY <3>1
    <3> QED
      BY <1>5, <3>2
  <2>2. CASE n < m
    <3>1. PICK d \in Nat : m = n + d /\ d >= 1
      BY <2>2
    <3>2. c * (m - 1) = c * (n - 1) + c * d /\ c * d >= c
      BY <3>1
    <3> QED
      BY <1>5, <3>2
  <2> QED
    BY <1>5, <2>1, <2>2
<1>6. ASSUME NEW n \in Nat, NEW k \in 1..(c * n)
      PROVE  \E j \in 1..c, m \in 1..n : k = c * (m - 1) + j
  <2>1. c > 0
    <3>1. c = 0 => c * n = 0
      OBVIOUS
    <3> QED
      BY <3>1
  <2> DEFINE a == (k - 1) \div c
             b == (k - 1) % c
  <2>2. k - 1 \in Nat
    OBVIOUS
  <2>3. a \in Nat /\ b \in 0..(c - 1) /\ k - 1 = c * a + b
    BY <2>1, <2>2
  <2> HIDE DEF a, b
  <2>4. a < n
    <3> SUFFICES ASSUME ~(a < n) PROVE FALSE
      OBVIOUS
    <3>1. PICK d \in Nat : a = n + d
      BY <2>3
    <3>2. c * a = c * n + c * d /\ c * d \in Nat
      BY <3>1
    <3> QED
      BY <2>3, <3>2
  <2>5. b + 1 \in 1..c /\ a + 1 \in 1..n /\ k = c * ((a + 1) - 1) + (b + 1)
    BY <2>3, <2>4
  <2> QED
    BY <2>5
<1>7. unit \in Bijection(Pairs, Units(h))
  <2>1. unit \in [Pairs -> Units(h)]
    <3> SUFFICES ASSUME NEW q \in Pairs PROVE unit[q] \in Units(h)
      OBVIOUS
    <3>1. q[1] \in 1..c /\ q[2][1] \in S /\ q[2][2] \in 1..f[q[2][1]] /\ f[q[2][1]] \in Nat
      BY <1>3
    <3>2. c * (q[2][2] - 1) + q[1] \in 1..(c * f[q[2][1]])
      BY <1>4, <3>1
    <3> QED
      BY <1>2, <3>1, <3>2
  <2>2. \A p, q \in Pairs : unit[p] = unit[q] => p = q
    <3> SUFFICES ASSUME NEW p \in Pairs, NEW q \in Pairs, unit[p] = unit[q] PROVE p = q
      OBVIOUS
    <3>1. /\ p[1] \in 1..c /\ p[2][2] \in Nat /\ q[1] \in 1..c /\ q[2][2] \in Nat
      BY <1>3
    <3>2. p[2][1] = q[2][1] /\ c * (p[2][2] - 1) + p[1] = c * (q[2][2] - 1) + q[1]
      <4>1. /\ unit[p] = <<p[2][1], c * (p[2][2] - 1) + p[1]>>
            /\ unit[q] = <<q[2][1], c * (q[2][2] - 1) + q[1]>>
        OBVIOUS
      <4> QED
        BY <4>1, Zenon
    <3>3. p[2][2] = q[2][2] /\ p[1] = q[1]
      <4>1. PICK k \in 1..c, m \in Nat, j \in 1..c, n \in Nat :
              k = p[1] /\ m = p[2][2] /\ j = q[1] /\ n = q[2][2]
        BY <3>1
      <4>2. c * (m - 1) + k = c * (n - 1) + j
        BY <3>2, <4>1, Zenon
      <4>3. m = n /\ k = j
        BY <1>5, <4>2
      <4> QED
        BY <4>1, <4>3
    <3>4. p[2] = q[2]
      BY <1>3, <3>2, <3>3
    <3> QED
      BY <3>3, <3>4
  <2>3. \A u \in Units(h) : \E q \in Pairs : unit[q] = u
    <3> SUFFICES ASSUME NEW u \in Units(h) PROVE \E q \in Pairs : unit[q] = u
      OBVIOUS
    <3>1. u = <<u[1], u[2]>> /\ u[1] \in S /\ u[2] \in 1..(c * f[u[1]]) /\ f[u[1]] \in Nat
      BY <1>2
    <3>2. PICK j \in 1..c, m \in 1..f[u[1]] : u[2] = c * (m - 1) + j
      BY <1>6, <3>1
    <3>3. <<u[1], m>> \in Units(f)
      BY <1>3, <3>1
    <3>4. <<j, <<u[1], m>>>> \in Pairs
      BY <3>3
    <3>5. unit[<<j, <<u[1], m>>>>] = u
      BY <3>1, <3>2, <3>4
    <3> QED
      BY <3>4, <3>5
  <2> QED
    BY <2>1, <2>2, <2>3 DEF Bijection, Injection, Surjection, IsInjective
<1>8. IsFiniteSet(Pairs) /\ Cardinality(Pairs) = c * Cardinality(Units(f))
  <2>1. IsFiniteSet(1..c) /\ Cardinality(1..c) = c
    BY FS_Interval, SMTT(30)
  <2> QED
    BY <1>1, <2>1, FS_Product
<1> HIDE DEF h, Pairs, unit
<1>9. Cardinality(Pairs) = Cardinality(Units(h))
  <2>1. ExistsBijection(Pairs, Units(h))
    BY <1>7 DEF ExistsBijection
  <2> QED
    BY <1>8, <2>1, FS_Bijection
<1>10. Total(h) = c * Total(f)
  BY <1>8, <1>9 DEF Total
<1> QED
  BY <1>10 DEF h

\* Amounts of at most c have a total of at most c times their number.
LEMMA TotalAtMost ==
  ASSUME NEW S, IsFiniteSet(S), NEW f \in [S -> Nat], NEW c \in Nat, \A x \in S : f[x] <= c
  PROVE  Total(f) <= Cardinality(S) * c
<1>1. Units(f) \subseteq S \X (1..c)
  BY DEF Units, UnitsOf
<1>2. IsFiniteSet(1..c) /\ Cardinality(1..c) = c
  BY FS_Interval, SMTT(30)
<1>3. IsFiniteSet(S \X (1..c)) /\ Cardinality(S \X (1..c)) = Cardinality(S) * c
  BY <1>2, FS_Product
<1>4. Cardinality(Units(f)) <= Cardinality(S \X (1..c))
  BY <1>1, <1>3, FS_Subset
<1> QED
  BY <1>3, <1>4 DEF Total

-----------------------------------------------------------------------------
(* Induction over the natural numbers, with a set in place of a predicate. *)

\* Among finitely many numbers one is the lowest.
LEMMA LowestExists ==
  ASSUME NEW D, IsFiniteSet(D), D # {}, NEW o \in [D -> Int]
  PROVE  \E i \in D : \A j \in D : o[i] <= o[j]
<1> DEFINE Below(i) == {j \in D : o[j] < o[i]}
           Fam == {Below(i) : i \in D}
<1>1. Fam \subseteq FiniteSubsetsOf(D)
  BY FS_Subset DEF FiniteSubsetsOf
<1>2. PICK U \in Fam : \A V \in Fam : ~(<<V, U>> \in StrictSubsetOrdering(D))
  <2>1. IsWellFoundedOn(StrictSubsetOrdering(D), FiniteSubsetsOf(D))
    BY FS_StrictSubsetOrderingWellFounded
  <2>2. Fam # {}
    <3>1. PICK k \in D : TRUE
      OBVIOUS
    <3>2. Below(k) \in Fam
      OBVIOUS
    <3> QED
      BY <3>2
  <2> HIDE DEF Fam
  <2> QED
    BY <1>1, <2>1, <2>2, WFMin
<1>3. PICK i \in D : U = Below(i)
  OBVIOUS
<1>4. ASSUME NEW j \in D, ~(o[i] <= o[j]) PROVE FALSE
  <2>1. o[j] < o[i]
    BY <1>4
  <2>2. Below(j) \subseteq Below(i) /\ j \in Below(i) /\ j \notin Below(j)
    BY <2>1
  <2>3. <<Below(j), Below(i)>> \in StrictSubsetOrdering(D)
    BY <2>2 DEF StrictSubsetOrdering
  <2> QED
    BY <1>2, <1>3, <2>3
<1> QED
  BY <1>4

\* A set that holds 0, and with every number the next one, holds them all.
LEMMA EveryNumber ==
  ASSUME NEW S, 0 \in S, \A n \in Nat : n \in S => n + 1 \in S
  PROVE  Nat \subseteq S
<1> SUFFICES ASSUME NEW n \in Nat, n \notin S PROVE FALSE
  OBVIOUS
<1> DEFINE D == 0..n \ S
           o == [i \in D |-> i]
<1>1. IsFiniteSet(D)
  <2>1. IsFiniteSet(0..n) /\ D \subseteq 0..n
    BY FS_Interval
  <2> QED
    BY <2>1, FS_Subset
<1>2. n \in D /\ o \in [D -> Int]
  OBVIOUS
<1>3. PICK i \in D : \A j \in D : o[i] <= o[j]
  <2> HIDE DEF D, o
  <2> QED
    BY <1>1, <1>2, LowestExists
<1>4. i # 0 /\ i - 1 \in Nat /\ i - 1 \notin D
  BY <1>3
<1>5. i - 1 \in S
  BY <1>4
<1> QED
  BY <1>4, <1>5
=============================================================================
