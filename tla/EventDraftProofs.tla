-------------------------- MODULE EventDraftProofs --------------------------
(***************************************************************************)
(* A prize amount keeps its value from the form to the signed transaction, *)
(* for every base, number of decimals, width of an integer and number of   *)
(* prizes. The sums and the digits are loops; what a loop computes is      *)
(* shown by induction over its rounds.                                     *)
(***************************************************************************)
EXTENDS EventPages, AmountsProofs, SequenceTheorems

-----------------------------------------------------------------------------
(* Loops.                                                                  *)

\* A loop has a table of its results, round by round.
LEMMA LoopTable ==
  ASSUME NEW n \in Nat, NEW b \in Int, NEW step \in [1..n -> [Int -> Int]]
  PROVE  \E g \in [0..n -> Int] :
           /\ g[0] = b
           /\ \A k \in 1..n : g[k] = step[k][g[k - 1]]
           /\ Draft!Loop(n, b, step) = g[n]
<1> DEFINE Table(m, g) == g[0] = b /\ \A k \in 1..m : g[k] = step[k][g[k - 1]]
           HasTable(m) == \E g \in [0..m -> Int] : Table(m, g)
           Built == {m \in Nat : m <= n => HasTable(m)}
<1>1. HasTable(0)
  <2> WITNESS [k \in 0..0 |-> b] \in [0..0 -> Int]
  <2> QED
    OBVIOUS
<1>2. ASSUME NEW m \in Nat, m + 1 <= n, HasTable(m)
      PROVE  HasTable(m + 1)
  <2>1. PICK g \in [0..m -> Int] : Table(m, g)
    BY <1>2
  <2> DEFINE h == [k \in 0..m + 1 |-> IF k = m + 1 THEN step[m + 1][g[m]] ELSE g[k]]
  <2>2. step[m + 1][g[m]] \in Int
    BY <1>2
  <2>3. h \in [0..m + 1 -> Int]
    BY <2>2
  <2>4. h[0] = b
    BY <2>1
  <2>5. ASSUME NEW k \in 1..m + 1 PROVE h[k] = step[k][h[k - 1]]
    <3>1. CASE k = m + 1
      BY <3>1
    <3>2. CASE k \in 1..m
      BY <2>1, <3>2
    <3> QED
      BY <3>1, <3>2
  <2> WITNESS h \in [0..m + 1 -> Int]
  <2> QED
    BY <2>4, <2>5
<1> HIDE DEF HasTable
<1>3. n \in Built
  <2>1. 0 \in Built
    BY <1>1
  <2>2. ASSUME NEW m \in Nat, m \in Built PROVE m + 1 \in Built
    BY <1>2, <2>2
  <2> HIDE DEF Built
  <2> QED
    BY <2>1, <2>2, EveryNumber
<1>4. PICK g \in [0..n -> Int] : Table(n, g)
  <2>1. HasTable(n)
    BY <1>3
  <2> QED
    BY <2>1 DEF HasTable
<1> DEFINE Body(h) == [k \in 0..n |-> IF k = 0 THEN b ELSE step[k][h[k - 1]]]
           f == CHOOSE h : h = Body(h)
<1>5. g = Body(g)
  BY <1>4
<1>6. f = Body(f)
  BY <1>5
<1> HIDE DEF f
<1> DEFINE Same == {k \in Nat : k <= n => f[k] = g[k]}
<1>7. n \in Same
  <2>1. 0 \in Same
    BY <1>4, <1>6
  <2>2. ASSUME NEW k \in Nat, k \in Same PROVE k + 1 \in Same
    <3> SUFFICES ASSUME k + 1 <= n PROVE f[k + 1] = g[k + 1]
      OBVIOUS
    <3>1. k + 1 \in 1..n /\ (k + 1) - 1 = k /\ f[k] = g[k]
      BY <2>2
    <3>2. f[k + 1] = step[k + 1][f[k]]
      <4>1. f[k + 1] = Body(f)[k + 1]
        BY <1>6
      <4>2. Body(f)[k + 1] = step[k + 1][f[(k + 1) - 1]]
        BY <3>1
      <4> QED
        BY <3>1, <4>1, <4>2
    <3>3. g[k + 1] = step[k + 1][g[k]]
      BY <1>4, <3>1
    <3> QED
      BY <3>1, <3>2, <3>3
  <2> HIDE DEF Same
  <2> QED
    BY <2>1, <2>2, EveryNumber
<1>8. Draft!Loop(n, b, step) = f[n]
  BY DEF Draft!Loop, f
<1>9. Draft!Loop(n, b, step) = g[n]
  BY <1>7, <1>8
<1> WITNESS g \in [0..n -> Int]
<1> QED
  BY <1>4, <1>9

\* What holds of the start and is kept by every round holds of all of them.
LEMMA Rounds ==
  ASSUME NEW n \in Nat, NEW S, 0 \in S, \A k \in 1..n : k - 1 \in S => k \in S
  PROVE  0..n \subseteq S
<1> DEFINE T == {k \in Nat : k <= n => k \in S}
<1>1. 0 \in T
  OBVIOUS
<1>2. ASSUME NEW k \in Nat, k \in T PROVE k + 1 \in T
  <2> SUFFICES ASSUME k + 1 <= n PROVE k + 1 \in S
    OBVIOUS
  <2>1. k + 1 \in 1..n /\ (k + 1) - 1 = k /\ k \in S
    BY <1>2
  <2> QED
    BY <2>1
<1>3. Nat \subseteq T
  <2> HIDE DEF T
  <2> QED
    BY <1>1, <1>2, EveryNumber
<1> QED
  BY <1>3

-----------------------------------------------------------------------------
(* Powers and digits.                                                      *)

\* The widths and limits are numbers.
LEMMA Widths ==
  /\ Base \in Nat /\ Base > 1
  /\ Decimals \in Nat \ {0} /\ WholeMax \in Nat /\ IntMax \in Nat \ {0}
  /\ JsSafe \in Nat \ {0} /\ MaxRows \in Nat \ {0}
  /\ Typeable \subseteq Draft!Texts \cup {None} /\ None \notin Draft!Texts
BY EventPagesAssumption DEF Draft!DraftAssumption

\* The loop of Power computes powers.
LEMMA PowerLaw ==
  /\ Draft!Power(0) = 1
  /\ \A n \in Nat : /\ Draft!Power(n) \in Nat \ {0}
                    /\ Draft!Power(n + 1) = Draft!Power(n) * Base
<1> DEFINE step(n) == [k \in 1..n |-> [p \in Int |-> p * Base]]
<1>1. \A n \in Nat : step(n) \in [1..n -> [Int -> Int]]
  BY Widths
<1>2. \A n \in Nat : Draft!Power(n) = Draft!Loop(n, 1, step(n))
  BY DEF Draft!Power
<1> HIDE DEF step
<1>3. Draft!Power(0) = 1
  <2>1. PICK g \in [0..0 -> Int] : g[0] = 1 /\ Draft!Loop(0, 1, step(0)) = g[0]
    <3>1. 0 \in Nat /\ 1 \in Int /\ step(0) \in [1..0 -> [Int -> Int]]
      BY <1>1
    <3> QED
      BY <3>1, LoopTable, ZenonT(60)
  <2> QED
    BY <1>2, <2>1
<1>4. ASSUME NEW n \in Nat
      PROVE  Draft!Power(n) \in Int /\ Draft!Power(n + 1) = Draft!Power(n) * Base
  <2>1. PICK g \in [0..n -> Int] : /\ g[0] = 1
                                   /\ \A k \in 1..n : g[k] = step(n)[k][g[k - 1]]
                                   /\ Draft!Loop(n, 1, step(n)) = g[n]
    <3>1. 1 \in Int
      OBVIOUS
    <3> QED
      BY <1>1, <3>1, LoopTable, ZenonT(60)
  <2>2. PICK h \in [0..n + 1 -> Int] :
                  /\ h[0] = 1
                  /\ \A k \in 1..n + 1 : h[k] = step(n + 1)[k][h[k - 1]]
                  /\ Draft!Loop(n + 1, 1, step(n + 1)) = h[n + 1]
    <3>1. n + 1 \in Nat /\ 1 \in Int
      OBVIOUS
    <3> QED
      BY <1>1, <3>1, LoopTable, ZenonT(60)
  <2>3. \A k \in 1..n : g[k] = g[k - 1] * Base
    <3>1. TAKE k \in 1..n
    <3>2. g[k - 1] \in Int /\ g[k] = step(n)[k][g[k - 1]]
      BY <2>1
    <3>3. step(n)[k] = [p \in Int |-> p * Base]
      BY DEF step
    <3> QED
      BY <3>2, <3>3
  <2>4. \A k \in 1..n + 1 : h[k] = h[k - 1] * Base
    <3>1. TAKE k \in 1..n + 1
    <3>2. h[k - 1] \in Int /\ h[k] = step(n + 1)[k][h[k - 1]]
      BY <2>2
    <3>3. step(n + 1)[k] = [p \in Int |-> p * Base]
      BY DEF step
    <3> QED
      BY <3>2, <3>3
  <2> DEFINE Same == {k \in 0..n : g[k] = h[k]}
  <2>5. 0..n \subseteq Same
    <3>1. 0 \in Same
      BY <2>1, <2>2
    <3>2. ASSUME NEW k \in 1..n, k - 1 \in Same PROVE k \in Same
      <4>1. g[k] = g[k - 1] * Base /\ h[k] = h[k - 1] * Base
        BY <2>3, <2>4
      <4> QED
        BY <3>2, <4>1
    <3> HIDE DEF Same
    <3> QED
      BY <3>1, <3>2, Rounds
  <2>6. h[n + 1] = h[n] * Base /\ h[n] = g[n]
    BY <2>4, <2>5
  <2> QED
    BY <1>2, <2>1, <2>2, <2>6
<1> DEFINE Positive == {n \in Nat : Draft!Power(n) > 0}
<1>5. Nat \subseteq Positive
  <2>1. 0 \in Positive
    BY <1>3
  <2>2. ASSUME NEW n \in Nat, n \in Positive PROVE n + 1 \in Positive
    BY <1>4, <2>2, Widths
  <2> HIDE DEF Positive
  <2> QED
    BY <2>1, <2>2, EveryNumber
<1> QED
  BY <1>3, <1>4, <1>5

\* A number is its quotient times the divisor and the remainder.
LEMMA Division ==
  ASSUME NEW v \in Nat, NEW m \in Nat \ {0}
  PROVE  v \div m \in Nat /\ v % m \in 0..m - 1 /\ v = m * (v \div m) + (v % m)
OBVIOUS

\* Dividing by a product is dividing by one factor after the other.
LEMMA DivTwice ==
  ASSUME NEW v \in Nat, NEW a \in Nat \ {0}, NEW b \in Nat \ {0}
  PROVE  /\ v \div a \in Nat
         /\ v \div (a * b) = (v \div a) \div b
<1> DEFINE q == v \div a
           r == v % a
           s == q \div b
           t == q % b
<1>1. q \in Nat /\ r \in 0..a - 1 /\ v = a * q + r
  OBVIOUS
<1>2. s \in Nat /\ t \in 0..b - 1 /\ q = b * s + t
  BY <1>1
<1> HIDE DEF q, r, s, t
<1>3. v = (a * b) * s + (a * t + r)
  <2>1. a * q = a * (b * s) + a * t
    BY <1>1, <1>2
  <2>2. a * (b * s) = (a * b) * s
    BY <1>1, <1>2
  <2> QED
    BY <1>1, <1>2, <2>1, <2>2
<1>4. a * t + r \in 0..(a * b) - 1
  <2>1. PICK d \in Nat : b = t + 1 + d
    BY <1>2
  <2>2. a * b = a * t + a + a * d
    BY <1>2, <2>1
  <2>3. a * d \in Nat /\ a * t \in Nat
    BY <1>2, <2>1
  <2> QED
    BY <1>1, <2>2, <2>3
<1>5. a * b \in Nat \ {0}
  OBVIOUS
<1>6. v \div (a * b) = s
  <2> DEFINE m == a * b
             e == a * t + r
             x == v \div m
  <2>1. x \in Nat /\ v % m \in 0..m - 1 /\ v = m * x + (v % m)
    <3>1. m \in Nat \ {0}
      BY <1>5
    <3> HIDE DEF m
    <3> QED
      BY <3>1, Division
  <2>2. e \in 0..m - 1 /\ v = m * s + e
    BY <1>3, <1>4
  <2>3. m \in Nat \ {0}
    BY <1>5
  <2> SUFFICES x = s
    OBVIOUS
  <2> HIDE DEF m, e, x
  <2>4. CASE x < s
    <3>1. PICK d \in Nat : s = x + 1 + d
      BY <1>2, <2>1, <2>4
    <3>2. m * s = m * x + m + m * d /\ m * d \in Nat /\ m * x \in Nat
      BY <2>1, <2>3, <3>1
    <3> QED
      BY <2>1, <2>2, <2>3, <3>2
  <2>5. CASE s < x
    <3>1. PICK d \in Nat : x = s + 1 + d
      BY <1>2, <2>1, <2>5
    <3>2. m * x = m * s + m + m * d /\ m * d \in Nat /\ m * s \in Nat
      BY <1>2, <2>3, <3>1
    <3> QED
      BY <2>1, <2>2, <2>3, <3>2
  <2> QED
    BY <1>2, <2>1, <2>4, <2>5
<1> QED
  BY <1>1, <1>6 DEF q, s

\* The number that digits write, digit by digit.
LEMMA ValueTable ==
  ASSUME NEW ds \in Seq(Int)
  PROVE  \E g \in [0..Len(ds) -> Int] :
           /\ g[0] = 0
           /\ \A k \in 1..Len(ds) : g[k] = g[k - 1] * Base + ds[k]
           /\ Draft!Value(ds) = g[Len(ds)]
<1> DEFINE step == [k \in 1..Len(ds) |-> [n \in Int |-> n * Base + ds[k]]]
<1>1. Len(ds) \in Nat /\ 0 \in Int /\ step \in [1..Len(ds) -> [Int -> Int]]
  BY Widths
<1>2. Draft!Value(ds) = Draft!Loop(Len(ds), 0, step)
  BY DEF Draft!Value
<1> HIDE DEF step
<1>3. PICK g \in [0..Len(ds) -> Int] : /\ g[0] = 0
                                       /\ \A k \in 1..Len(ds) : g[k] = step[k][g[k - 1]]
                                       /\ Draft!Loop(Len(ds), 0, step) = g[Len(ds)]
  BY <1>1, LoopTable, ZenonT(60)
<1>4. ASSUME NEW k \in 1..Len(ds) PROVE g[k] = g[k - 1] * Base + ds[k]
  <2>1. g[k - 1] \in Int /\ g[k] = step[k][g[k - 1]]
    <3>1. k - 1 \in 0..Len(ds)
      BY <1>1
    <3> QED
      BY <1>3, <3>1, Zenon
  <2>2. step[k] = [n \in Int |-> n * Base + ds[k]]
    BY DEF step
  <2> QED
    BY <2>1, <2>2
<1> WITNESS g \in [0..Len(ds) -> Int]
<1> QED
  BY <1>2, <1>3, <1>4

\* The sum of amounts, amount by amount.
LEMMA SumTable ==
  ASSUME NEW s \in Seq(Int)
  PROVE  \E g \in [0..Len(s) -> Int] :
           /\ g[0] = 0
           /\ \A k \in 1..Len(s) : g[k] = g[k - 1] + s[k]
           /\ Draft!Sum(s) = g[Len(s)]
<1> DEFINE step == [k \in 1..Len(s) |-> [n \in Int |-> n + s[k]]]
<1>1. Len(s) \in Nat /\ 0 \in Int /\ step \in [1..Len(s) -> [Int -> Int]]
  OBVIOUS
<1>2. Draft!Sum(s) = Draft!Loop(Len(s), 0, step)
  BY DEF Draft!Sum
<1> HIDE DEF step
<1>3. PICK g \in [0..Len(s) -> Int] : /\ g[0] = 0
                                      /\ \A k \in 1..Len(s) : g[k] = step[k][g[k - 1]]
                                      /\ Draft!Loop(Len(s), 0, step) = g[Len(s)]
  BY <1>1, LoopTable, ZenonT(60)
<1>4. ASSUME NEW k \in 1..Len(s) PROVE g[k] = g[k - 1] + s[k]
  <2>1. g[k - 1] \in Int /\ g[k] = step[k][g[k - 1]]
    <3>1. k - 1 \in 0..Len(s)
      BY <1>1
    <3> QED
      BY <1>3, <3>1, Zenon
  <2>2. step[k] = [n \in Int |-> n + s[k]]
    BY DEF step
  <2> QED
    BY <2>1, <2>2
<1> WITNESS g \in [0..Len(s) -> Int]
<1> QED
  BY <1>2, <1>3, <1>4

-----------------------------------------------------------------------------
(* The conversions.                                                        *)

\* Padding a fraction multiplies it by a power of the base (parseUsdcAmount
\* pads the text, amountToStroops multiplies the number).
LEMMA PadScales ==
  ASSUME NEW f \in Seq(Int), Len(f) <= Decimals
  PROVE  /\ Draft!PadEnd(f) \in Seq(Int) /\ Len(Draft!PadEnd(f)) = Decimals
         /\ Draft!Value(Draft!PadEnd(f)) = Draft!Value(f) * Draft!Power(Decimals - Len(f))
<1> DEFINE p == Draft!PadEnd(f)
           L == Len(f)
<1>1. L \in Nat /\ L <= Decimals /\ Decimals \in Nat /\ Base \in Nat
  BY Widths
<1>2. /\ p \in Seq(Int) /\ Len(p) = Decimals
      /\ \A k \in 1..L : p[k] = f[k]
      /\ \A k \in L + 1..Decimals : p[k] = 0
  BY <1>1 DEF Draft!PadEnd
<1> HIDE DEF p, L
<1>3. PICK g \in [0..Decimals -> Int] : /\ g[0] = 0
                                        /\ \A k \in 1..Decimals : g[k] = g[k - 1] * Base + p[k]
                                        /\ Draft!Value(p) = g[Decimals]
  BY <1>2, ValueTable
<1>4. PICK h \in [0..L -> Int] : /\ h[0] = 0
                                 /\ \A k \in 1..L : h[k] = h[k - 1] * Base + f[k]
                                 /\ Draft!Value(f) = h[L]
  BY ValueTable DEF L
<1> DEFINE Same == {k \in 0..L : g[k] = h[k]}
           Scaled == {j \in Nat : L + j <= Decimals => g[L + j] = h[L] * Draft!Power(j)}
<1>5. 0..L \subseteq Same
  <2>1. 0 \in Same
    BY <1>1, <1>3, <1>4
  <2>2. ASSUME NEW k \in 1..L, k - 1 \in Same PROVE k \in Same
    <3>1. g[k] = g[k - 1] * Base + f[k]
      BY <1>1, <1>2, <1>3
    <3>2. h[k] = h[k - 1] * Base + f[k]
      BY <1>4
    <3> QED
      BY <2>2, <3>1, <3>2
  <2> HIDE DEF Same
  <2> QED
    BY <1>1, <2>1, <2>2, Rounds
<1>6. Nat \subseteq Scaled
  <2>1. 0 \in Scaled
    <3>1. g[L] = h[L] /\ h[L] \in Int
      BY <1>1, <1>5
    <3> QED
      BY <1>1, <3>1, PowerLaw
  <2>2. ASSUME NEW j \in Nat, j \in Scaled PROVE j + 1 \in Scaled
    <3> SUFFICES ASSUME L + (j + 1) <= Decimals
                 PROVE  g[L + (j + 1)] = h[L] * Draft!Power(j + 1)
      OBVIOUS
    <3>1. g[L + j] = h[L] * Draft!Power(j)
      BY <1>1, <2>2
    <3>2. /\ L + (j + 1) \in 1..Decimals /\ L + (j + 1) \in L + 1..Decimals
          /\ (L + (j + 1)) - 1 = L + j /\ L + j \in 0..Decimals
      BY <1>1
    <3>3. g[L + (j + 1)] = g[L + j] * Base + 0
      BY <1>2, <1>3, <3>2
    <3>4. Draft!Power(j + 1) = Draft!Power(j) * Base /\ Draft!Power(j) \in Nat
      BY PowerLaw
    <3>5. h[L] \in Int /\ g[L + j] \in Int
      BY <1>1, <3>2
    <3> DEFINE x == h[L]
               y == Draft!Power(j)
    <3>6. (x * y) * Base = x * (y * Base)
      <4>1. x \in Int /\ y \in Int /\ Base \in Int
        BY <1>1, <3>4, <3>5
      <4> HIDE DEF x, y
      <4> QED
        BY <4>1
    <3> QED
      BY <1>1, <3>1, <3>3, <3>4, <3>5, <3>6
  <2> HIDE DEF Scaled
  <2> QED
    BY <2>1, <2>2, EveryNumber
<1>7. Decimals - L \in Nat /\ L + (Decimals - L) = Decimals
  BY <1>1
<1>8. Draft!Value(p) = Draft!Value(f) * Draft!Power(Decimals - L)
  <2>1. g[L + (Decimals - L)] = h[L] * Draft!Power(Decimals - L)
    <3>1. Decimals - L \in Scaled
      BY <1>6, <1>7, Zenon
    <3>2. L + (Decimals - L) <= Decimals
      BY <1>1
    <3> QED
      BY <3>1, <3>2
  <2> QED
    BY <1>3, <1>4, <1>7, <2>1
<1> QED
  BY <1>2, <1>8 DEF p, L

\* The form's parser and core-go's agree on a text that fits the decimals.
LEMMA ParsersAgree ==
  ASSUME NEW text \in Draft!Texts, Len(text.frac) <= Decimals
  PROVE  Draft!Units(text) = Draft!AmountToStroops(text) /\ Draft!Units(text) \in Int
<1>1. text.whole \in Nat /\ text.frac \in Seq(Int)
  <2>1. text.whole \in Nat /\ text.frac \in Draft!Digits
    BY Widths DEF Draft!Texts
  <2>2. PICK n \in Nat : text.frac \in [1..n -> 0..(Base - 1)]
    BY <2>1, Widths DEF Draft!Digits
  <2>3. [1..n -> 0..(Base - 1)] \subseteq Seq(Int)
    BY Widths
  <2> QED
    BY <2>1, <2>2, <2>3
<1>2. Draft!Value(Draft!PadEnd(text.frac)) =
        Draft!Value(text.frac) * Draft!Power(Decimals - Len(text.frac))
  BY <1>1, PadScales
<1>3. Draft!Value(text.frac) \in Int
  <2>1. Len(text.frac) \in Nat
    BY <1>1
  <2> QED
    BY <1>1, <2>1, ValueTable
<1>4. Draft!Unit \in Nat /\ Draft!Power(Decimals - Len(text.frac)) \in Nat
  <2>1. Decimals \in Nat /\ Decimals - Len(text.frac) \in Nat
    BY <1>1, Widths
  <2> QED
    BY <2>1, PowerLaw DEF Draft!Unit
<1> QED
  BY <1>1, <1>2, <1>3, <1>4 DEF Draft!Units, Draft!AmountToStroops

\* The digits of the column's text write the fraction of the number.
LEMMA ColumnDigits ==
  ASSUME NEW v \in Nat
  PROVE  LET c == Draft!ColumnText(v)
         IN  /\ c.whole = v \div Draft!Unit /\ c.whole \in Nat
             /\ c.frac \in Seq(Int) /\ Len(c.frac) = Decimals
             /\ c.whole * Draft!Unit + Draft!Value(c.frac) = v
<1> DEFINE w == v \div Draft!Unit
           d == Draft!ColumnText(v).frac
<1>1. Decimals \in Nat /\ Base \in Nat \ {0}
  BY Widths
<1>2. Draft!Unit = Draft!Power(Decimals) /\ Draft!Unit \in Nat \ {0}
  BY <1>1, PowerLaw DEF Draft!Unit
<1>3. w \in Nat
  BY <1>2, Division
<1>4. \A i \in 1..Decimals : v \div Draft!Power(Decimals - i) \in Nat
  <2>1. \A i \in 1..Decimals : Draft!Power(Decimals - i) \in Nat \ {0}
    BY <1>1, PowerLaw
  <2> QED
    BY <2>1, Division
<1>5. /\ d \in Seq(Int) /\ Len(d) = Decimals
      /\ \A i \in 1..Decimals : d[i] = (v \div Draft!Power(Decimals - i)) % Base
  BY <1>1, <1>4 DEF Draft!ColumnText, Draft!StroopsToAmount
<1>6. PICK g \in [0..Decimals -> Int] : /\ g[0] = 0
                                        /\ \A k \in 1..Decimals : g[k] = g[k - 1] * Base + d[k]
                                        /\ Draft!Value(d) = g[Decimals]
  <2> HIDE DEF d
  <2> QED
    BY <1>5, ValueTable
<1>7. Draft!ColumnText(v).whole = w
  BY DEF Draft!ColumnText, Draft!StroopsToAmount
<1> HIDE DEF w, d
<1> DEFINE Track == {n \in 0..Decimals :
                       g[n] + w * Draft!Power(n) = v \div Draft!Power(Decimals - n)}
<1>8. 0..Decimals \subseteq Track
  <2>1. 0 \in Track
    BY <1>1, <1>2, <1>3, <1>6, PowerLaw DEF w
  <2>2. ASSUME NEW n \in 1..Decimals, n - 1 \in Track PROVE n \in Track
    <3> DEFINE a == Draft!Power(Decimals - n)
               b == Draft!Power(n - 1)
               q == v \div a
    <3>1. Decimals - n \in Nat /\ n - 1 \in Nat /\ n - 1 \in 0..Decimals
          /\ Decimals - (n - 1) = (Decimals - n) + 1 /\ (n - 1) + 1 = n
      BY <1>1
    <3>2. /\ a \in Nat \ {0} /\ b \in Nat
          /\ Draft!Power(Decimals - (n - 1)) = a * Base
          /\ Draft!Power(n) = b * Base
      BY <3>1, PowerLaw
    <3>3. g[n - 1] + w * b = v \div Draft!Power(Decimals - (n - 1))
      BY <2>2
    <3>4. g[n] = g[n - 1] * Base + (q % Base)
      BY <1>5, <1>6
    <3>5. g[n - 1] \in Int
      BY <3>1
    <3> HIDE DEF a, b, q
    <3>6. v \div (a * Base) = q \div Base /\ q \in Nat
      BY <1>1, <3>2, DivTwice DEF q
    <3>7. q = Base * (q \div Base) + (q % Base) /\ q \div Base \in Nat /\ q % Base \in Int
      <4>1. q \in Nat /\ Base \in Nat \ {0}
        BY <1>1, <3>6
      <4>2. q \div Base \in Nat /\ q % Base \in 0..Base - 1 /\ q = Base * (q \div Base) + (q % Base)
        BY <4>1, Division
      <4> QED
        BY <1>1, <4>2
    <3>8. g[n] + w * (b * Base) = (g[n - 1] + w * b) * Base + (q % Base)
      <4> DEFINE x == g[n - 1]
      <4>1. x \in Int /\ w * (b * Base) = (w * b) * Base
        BY <1>1, <1>3, <3>2, <3>5
      <4>2. w * b \in Int
        BY <1>3, <3>2
      <4>3. (x + w * b) * Base = x * Base + (w * b) * Base
        <5> HIDE DEF x
        <5> QED
          BY <1>1, <4>1, <4>2
      <4>4. x * Base \in Int /\ (w * b) * Base \in Int
        <5> HIDE DEF x
        <5> QED
          BY <1>1, <4>1, <4>2
      <4>5. g[n] = x * Base + (q % Base)
        BY <3>4
      <4> HIDE DEF x
      <4> QED
        BY <3>7, <4>1, <4>3, <4>4, <4>5 DEF x
    <3>9. g[n] + w * Draft!Power(n) = q
      <4> DEFINE y == q \div Base
      <4>1. g[n - 1] + w * b = y
        BY <3>2, <3>3, <3>6
      <4>2. y \in Nat /\ q = Base * y + (q % Base)
        BY <3>7
      <4> HIDE DEF y
      <4>3. Base * y = y * Base
        BY <1>1, <4>2
      <4> QED
        BY <3>2, <3>8, <4>1, <4>2, <4>3
    <3> QED
      BY <3>9 DEF q, a
  <2> HIDE DEF Track
  <2> QED
    BY <1>1, <2>1, <2>2, Rounds
<1>9. g[Decimals] + w * Draft!Unit = v
  <2>1. Decimals \in Track /\ Decimals - Decimals = 0
    BY <1>1, <1>8
  <2>2. v \div 1 = v
    OBVIOUS
  <2> QED
    BY <1>2, <2>1, <2>2, PowerLaw
<1>10. w * Draft!Unit \in Int /\ g[Decimals] \in Int
  BY <1>1, <1>2, <1>3
<1>11. w * Draft!Unit + Draft!Value(d) = v
  BY <1>6, <1>9, <1>10
<1> QED
  BY <1>3, <1>5, <1>7, <1>11 DEF w, d

\* AmountToStroops is the inverse of StroopsToAmount, as amount.go promises:
\* the text of an amount, all of its decimals written, is read back exactly.
THEOREM ConversionInverts ==
  ASSUME NEW v \in Nat
  PROVE  Draft!AmountToStroops(Draft!StroopsToAmount(v)) = v
<1> DEFINE c == Draft!StroopsToAmount(v)
<1>1. /\ c.frac \in Seq(Int) /\ Len(c.frac) = Decimals /\ Decimals \in Nat
      /\ c.whole * Draft!Unit + Draft!Value(c.frac) = v
  BY ColumnDigits, Widths DEF Draft!ColumnText
<1>2. Draft!Power(Decimals - Len(c.frac)) = 1
  BY <1>1, PowerLaw
<1>3. Draft!Value(c.frac) \in Int
  BY <1>1, ValueTable
<1> HIDE DEF c
<1>4. Draft!AmountToStroops(c) = v
  BY <1>1, <1>2, <1>3 DEF Draft!AmountToStroops
<1> QED
  BY <1>4 DEF c

\* core-go reads from the column what was stored.
LEMMA ColumnExact ==
  ASSUME NEW v \in Nat
  PROVE  Draft!AmountToStroops(Draft!ColumnText(v)) = v
BY ConversionInverts DEF Draft!ColumnText

\* A stored amount that the funding page can parse is read back exactly: the
\* zeros that decimal.js drops are those the parser pads.
LEMMA ShownExact ==
  ASSUME NEW v \in Nat, Draft!Shown(v) # None
  PROVE  Draft!Shown(v) = v
<1> DEFINE d == Draft!ColumnText(v).frac
           Ends(n) == /\ \A i \in n + 1..Decimals : d[i] = 0
                      /\ n = 0 \/ d[n] # 0
           last == CHOOSE n \in 0..Decimals : Ends(n)
           t == [whole |-> v \div Draft!Unit, frac |-> SubSeq(d, 1, last)]
<1>1. Decimals \in Nat
  BY Widths
<1>2. /\ d \in Seq(Int) /\ Len(d) = Decimals
      /\ (v \div Draft!Unit) * Draft!Unit + Draft!Value(d) = v
  BY ColumnDigits, Zenon
<1> HIDE DEF d
<1>3. \E n \in 0..Decimals : Ends(n)
  <2> DEFINE Zeros == {m \in Nat : m <= Decimals =>
                         \/ \E n \in 0..Decimals : Ends(n)
                         \/ \A i \in (Decimals - m) + 1..Decimals : d[i] = 0}
  <2>1. Nat \subseteq Zeros
    <3>1. 0 \in Zeros
      BY <1>1
    <3>2. ASSUME NEW m \in Nat, m \in Zeros PROVE m + 1 \in Zeros
      <4> SUFFICES ASSUME m + 1 <= Decimals, ~ \E n \in 0..Decimals : Ends(n)
                   PROVE  \A i \in (Decimals - (m + 1)) + 1..Decimals : d[i] = 0
        OBVIOUS
      <4>1. \A i \in (Decimals - m) + 1..Decimals : d[i] = 0
        BY <1>1, <3>2
      <4>2. Decimals - m \in 0..Decimals /\ ~ Ends(Decimals - m)
        BY <1>1
      <4>3. d[Decimals - m] = 0
        BY <4>1, <4>2
      <4> QED
        BY <1>1, <4>1, <4>3
    <3> HIDE DEF Zeros
    <3> QED
      BY <3>1, <3>2, EveryNumber
  <2>2. Decimals \in Zeros
    BY <1>1, <2>1
  <2>3. CASE \A i \in 1..Decimals : d[i] = 0
    <3>1. 0 \in 0..Decimals /\ Ends(0)
      BY <1>1, <2>3
    <3> QED
      BY <3>1
  <2> QED
    BY <1>1, <2>2, <2>3
<1>4. last \in 0..Decimals /\ Ends(last)
  BY <1>3
<1>9. last \in Nat /\ last <= Decimals
  BY <1>1, <1>4
<1> HIDE DEF last
<1>5. /\ SubSeq(d, 1, last) \in Seq(Int) /\ Len(SubSeq(d, 1, last)) = last
      /\ \A i \in 1..last : SubSeq(d, 1, last)[i] = d[i]
  BY <1>1, <1>2, <1>4
<1>6. Draft!PadEnd(t.frac) = d
  <2> DEFINE f == SubSeq(d, 1, last)
             z == [i \in 1..(Decimals - last) |-> 0]
  <2>1. f \in Seq(Int) /\ Len(f) = last /\ \A i \in 1..last : f[i] = d[i]
    BY <1>5
  <2>2. z \in Seq(Int) /\ Len(z) = Decimals - last
    BY <1>1, <1>4
  <2>3. Draft!PadEnd(t.frac) = f \o z
    BY <2>1 DEF Draft!PadEnd
  <2>4. \A i \in 1..(Decimals - last) : z[i] = 0
    OBVIOUS
  <2> HIDE DEF f, z
  <2> DEFINE n == Decimals - last
             j == f \o z
  <2>5. n \in Nat /\ last + n = Decimals
    BY <1>1, <1>9
  <2>8. /\ j \in Seq(Int) /\ Len(j) = last + n
        /\ \A i \in 1..last : j[i] = f[i]
        /\ \A i \in last + 1..last + n : i - last \in 1..n /\ j[i] = z[i - last]
    <3>1. /\ j \in Seq(Int) /\ Len(j) = Len(f) + Len(z)
          /\ \A i \in 1..Len(f) + Len(z) :
                j[i] = IF i <= Len(f) THEN f[i] ELSE z[i - Len(f)]
      BY <2>1, <2>2, ConcatProperties
    <3>2. Len(f) = last /\ Len(z) = n
      BY <2>1, <2>2
    <3> HIDE DEF n, j
    <3>3. ASSUME NEW i \in 1..last PROVE j[i] = f[i]
      BY <1>9, <2>5, <3>1, <3>2
    <3>4. ASSUME NEW i \in last + 1..last + n PROVE i - last \in 1..n /\ j[i] = z[i - last]
      BY <1>9, <2>5, <3>1, <3>2
    <3> QED
      BY <2>1, <3>1, <3>2, <3>3, <3>4
  <2> HIDE DEF j
  <2>6. ASSUME NEW i \in 1..Decimals PROVE j[i] = d[i]
    <3>1. CASE i \in 1..last
      BY <2>1, <2>8, <3>1
    <3>2. CASE i \in last + 1..Decimals
      <4>1. d[i] = 0
        BY <1>4, <3>2
      <4> QED
        BY <2>4, <2>5, <2>8, <3>2, <4>1
    <3> QED
      BY <1>1, <1>9, <3>1, <3>2
  <2>7. f \o z = d
    <3>1. Len(j) = Len(d) /\ \A i \in 1..Len(j) : j[i] = d[i]
      BY <1>2, <2>5, <2>6, <2>8
    <3> QED
      BY <1>2, <2>8, <3>1, SeqEqual DEF j
  <2> QED
    BY <2>3, <2>7
<1>7. Draft!Units(t) = v
  BY <1>2, <1>6 DEF Draft!Units
<1>8. v >= Base /\ Draft!DecimalToString(v) = t
  <2>1. CASE v < Base
    <3>1. Draft!DecimalToString(v) = None
      BY <2>1 DEF Draft!DecimalToString
    <3> QED
      BY <3>1 DEF Draft!Shown, Draft!parseUsdcAmount
  <2>2. CASE ~(v < Base)
    <3>1. Draft!DecimalToString(v) = t
      BY <2>2 DEF Draft!DecimalToString, d, last
    <3> QED
      BY <2>2, <3>1, Widths
  <2> QED
    BY <2>1, <2>2
<1> HIDE DEF t
<1> QED
  BY <1>7, <1>8 DEF Draft!Shown, Draft!parseUsdcAmount

-----------------------------------------------------------------------------
(* The sum of core-go.                                                     *)

\* The number of values of an int64.
Span == 2 * (IntMax + 1)

\* An int64 that wraps around changes by a multiple of the span.
LEMMA WrapSpan ==
  ASSUME NEW n \in Int
  PROVE  /\ Draft!Wrap(n) \in -(IntMax + 1)..IntMax
         /\ \E q \in Int : Draft!Wrap(n) = n + Span * q
<1> DEFINE h == IntMax + 1
           m == 2 * h
           x == n + IntMax + 1
           d == x \div m
<1>1. IntMax \in Nat
  BY Widths
<1>2. h \in Nat \ {0} /\ m \in Nat \ {0} /\ x \in Int /\ x = n + h
  BY <1>1
<1>3. Draft!Wrap(n) = (x % m) - h /\ Span = m
  BY DEF Draft!Wrap, Span
<1> HIDE DEF x
<1>4. m = 2 * h /\ h = IntMax + 1
  OBVIOUS
<1> HIDE DEF h, m
<1>5. d \in Int /\ x % m \in 0..(m - 1) /\ x = m * d + (x % m)
  BY <1>2
<1> HIDE DEF d
<1>6. m * d \in Int /\ m * (-d) = -(m * d) /\ -d \in Int
  BY <1>2, <1>5
<1>7. Draft!Wrap(n) = n + Span * (-d)
  BY <1>2, <1>3, <1>5, <1>6
<1>8. Draft!Wrap(n) \in -(IntMax + 1)..IntMax
  BY <1>1, <1>2, <1>3, <1>4, <1>5
<1> QED
  BY <1>6, <1>7, <1>8, Zenon

\* core-go's sum is an int64, and the exact one plus a multiple of the span.
LEMMA RewardWraps ==
  ASSUME prizes \in Seq(Nat)
  PROVE  /\ Draft!Reward \in -(IntMax + 1)..IntMax
         /\ \E q \in Int : Draft!Reward = Draft!Sum(prizes) + Span * q
<1> DEFINE N == Len(prizes)
           step == [k \in 1..Len(prizes) |-> [n \in Int |->
                      Draft!Wrap(n + Draft!AmountToStroops(Draft!ColumnText(prizes[k])))]]
<1>1. N \in Nat /\ prizes \in Seq(Int)
  OBVIOUS
<1>2. \A k \in 1..N : /\ prizes[k] \in Nat
                      /\ Draft!AmountToStroops(Draft!ColumnText(prizes[k])) = prizes[k]
  <2>1. \A k \in 1..N : prizes[k] \in Nat
    OBVIOUS
  <2> QED
    BY <2>1, ColumnExact, Zenon
<1>3. Draft!Reward = Draft!Loop(N, 0, step)
  BY DEF Draft!Reward
<1>4. \A k \in 1..N : step[k] = [n \in Int |-> Draft!Wrap(n + prizes[k])]
  BY <1>2
<1>5. step \in [1..N -> [Int -> Int]]
  <2>1. ASSUME NEW k \in 1..N PROVE step[k] \in [Int -> Int]
    <3> DEFINE a == prizes[k]
    <3>1. a \in Int
      BY <1>2
    <3>2. step[k] = [n \in Int |-> Draft!Wrap(n + a)]
      BY <1>4
    <3> HIDE DEF a
    <3>3. \A n \in Int : Draft!Wrap(n + a) \in Int
      <4>1. \A n \in Int : n + a \in Int
        BY <3>1
      <4>2. \A n \in Int : Draft!Wrap(n) \in Int
        BY WrapSpan
      <4> QED
        BY <4>1, <4>2, Zenon
    <3> QED
      BY <3>2, <3>3
  <2> HIDE DEF N
  <2>2. step = [k \in 1..N |-> step[k]]
    BY DEF N
  <2> HIDE DEF step
  <2> QED
    BY <2>1, <2>2
<1> HIDE DEF N, step
<1>6. 0 \in Int
  OBVIOUS
<1>7. PICK g \in [0..N -> Int] : /\ g[0] = 0
                                 /\ \A k \in 1..N : g[k] = step[k][g[k - 1]]
                                 /\ Draft!Loop(N, 0, step) = g[N]
  BY <1>1, <1>5, <1>6, LoopTable, ZenonT(60)
<1>8. PICK h \in [0..N -> Int] : /\ h[0] = 0
                                 /\ \A k \in 1..N : h[k] = h[k - 1] + prizes[k]
                                 /\ Draft!Sum(prizes) = h[N]
  BY <1>1, SumTable DEF N
<1> DEFINE Track == {k \in 0..N : /\ g[k] \in -(IntMax + 1)..IntMax
                                   /\ \E q \in Int : g[k] = h[k] + Span * q}
<1>9. 0..N \subseteq Track
  <2>1. 0 \in Track
    <3>1. g[0] = h[0] + Span * 0 /\ g[0] \in -(IntMax + 1)..IntMax
      BY <1>7, <1>8, Widths DEF Span
    <3>2. 0 \in Int /\ 0 \in 0..N
      BY <1>1
    <3> QED
      BY <3>1, <3>2, Zenon
  <2>2. ASSUME NEW k \in 1..N, k - 1 \in Track PROVE k \in Track
    <3>1. k - 1 \in 0..N /\ k \in 0..N
      BY <1>1
    <3>2. g[k] = step[k][g[k - 1]] /\ h[k] = h[k - 1] + prizes[k]
      BY <1>7, <1>8, Zenon
    <3> DEFINE a == g[k - 1]
               b == h[k - 1]
               c == prizes[k]
    <3>3. a \in Int /\ b \in Int /\ c \in Int
      BY <1>2, <3>1
    <3>4. step[k] = [n \in Int |-> Draft!Wrap(n + c)]
      BY <1>4
    <3>5. g[k] = step[k][a] /\ h[k] = b + c
      BY <3>2
    <3>6. PICK q \in Int : a = b + Span * q
      BY <2>2
    <3> HIDE DEF a, b, c
    <3>7. g[k] = Draft!Wrap(a + c)
      BY <3>3, <3>4, <3>5
    <3>8. a + c \in Int
      BY <3>3
    <3>9. PICK r \in Int : Draft!Wrap(a + c) = (a + c) + Span * r
      BY <3>8, WrapSpan, Zenon
    <3>10. Span \in Int
      BY Widths DEF Span
    <3>11. Span * (q + r) = Span * q + Span * r /\ q + r \in Int
      BY <3>10
    <3>12. Span * q \in Int /\ Span * r \in Int
      BY <3>10
    <3> DEFINE u == Span * q
               v == Span * r
               w == Span * (q + r)
    <3>13. h[k] = b + c /\ g[k] = (a + c) + v /\ a = b + u /\ w = u + v
      BY <3>5, <3>6, <3>7, <3>9, <3>11
    <3>15. u \in Int /\ v \in Int
      BY <3>12
    <3> HIDE DEF u, v, w
    <3>16. g[k] = h[k] + w
      BY <3>3, <3>13, <3>15
    <3>14. g[k] \in -(IntMax + 1)..IntMax
      BY <3>7, <3>8, WrapSpan
    <3> QED
      BY <3>1, <3>11, <3>14, <3>16, Zenon DEF w
  <2> HIDE DEF Track
  <2> QED
    BY <1>1, <2>1, <2>2, Rounds
<1>10. N \in 0..N
  BY <1>1
<1> QED
  BY <1>3, <1>7, <1>8, <1>9, <1>10

\* A sum that wrapped is off by more than a double is, so it never shows as the
\* exact one.
LEMMA RewardAsSummed ==
  ASSUME prizes \in Seq(Nat), Draft!Reward >= 0, Draft!Sum(prizes) \in Draft!JsNumbers(Draft!Reward)
  PROVE  Draft!Reward = Draft!Sum(prizes)
<1> DEFINE r == Draft!Reward
           t == Draft!Sum(prizes)
<1>1. r \in 0..IntMax /\ \E q \in Int : r = t + Span * q
  BY RewardWraps, Widths
<1>2. t = r \/ t \in 0..(2 * r)
  BY DEF Draft!JsNumbers
<1>3. t \in Int
  BY <1>1, <1>2, Widths
<1>4. Span = 2 * IntMax + 2 /\ IntMax \in Nat
  BY Widths DEF Span
<1> HIDE DEF r, t
<1>5. t - r < Span /\ r - t < Span
  BY <1>1, <1>2, <1>3, <1>4
<1>6. PICK q \in Int : r = t + Span * q
  BY <1>1
<1>7. q = 0
  <2>1. q >= 1 => Span * q >= Span
    BY <1>4
  <2>2. q <= -1 => Span * q <= -Span
    BY <1>4
  <2> QED
    BY <1>1, <1>3, <1>4, <1>5, <1>6, <2>1, <2>2
<1> QED
  BY <1>3, <1>4, <1>6, <1>7 DEF r, t

-----------------------------------------------------------------------------
(* The invariant.                                                          *)

\* What the next steps of an amount rely on: every stored prize is the value
\* of the text it was typed as, a sum that was shown is the sum of the prizes,
\* an answer belongs to the envelope it came with, and what was signed was
\* compared with the sum.
DraftInv ==
  /\ Draft!TypeOK
  /\ prizes # None =>
       /\ prizes \in Seq(Nat) /\ Len(typed) = Len(prizes)
       /\ \A i \in 1..Len(prizes) : /\ typed[i] \in Draft!Texts
                                    /\ Len(typed[i].frac) <= Decimals
                                    /\ prizes[i] = Draft!Units(typed[i])
  /\ required \notin {None, Draft!Failed} => required = Draft!Sum(prizes)
  /\ reward # None => /\ required \notin {None, Draft!Failed}
                      /\ envelope = Draft!Reward
                      /\ envelope >= 0 /\ reward \in Draft!JsNumbers(Draft!Reward)
  /\ reserved # None => prizes # None /\ reserved = Draft!Sum(prizes)

\* An accepted amount is positive and has at most Decimals places.
LEMMA ParsedAmount ==
  ASSUME NEW text \in Draft!Texts \cup {None}, Draft!parseUsdcAmount(text) # None
  PROVE  /\ text \in Draft!Texts /\ Len(text.frac) <= Decimals
         /\ Draft!parseUsdcAmount(text) = Draft!Units(text)
         /\ Draft!Units(text) \in Nat /\ Draft!Units(text) > 0
<1>1. text # None
  BY DEF Draft!parseUsdcAmount
<1>2. text \in Draft!Texts
  BY <1>1
<1>3. ~(Len(text.frac) > Decimals)
  BY <1>1 DEF Draft!parseUsdcAmount
<1>4. Len(text.frac) \in Nat
  <2>1. text.frac \in Draft!Digits
    BY <1>2 DEF Draft!Texts
  <2>2. PICK n \in Nat : text.frac \in [1..n -> 0..(Base - 1)]
    BY <2>1, Widths DEF Draft!Digits
  <2>3. [1..n -> 0..(Base - 1)] \subseteq Seq(Int)
    BY Widths
  <2> QED
    BY <2>2, <2>3
<1>5. Len(text.frac) <= Decimals
  BY <1>3, <1>4, Widths
<1>6. Draft!Units(text) \in Int
  BY <1>2, <1>5, ParsersAgree
<1>7. Draft!Units(text) > 0 /\ Draft!parseUsdcAmount(text) = Draft!Units(text)
  BY <1>1, <1>3 DEF Draft!parseUsdcAmount
<1> QED
  BY <1>2, <1>5, <1>6, <1>7

\* The initial state satisfies the invariant.
LEMMA DraftInit ==
  Draft!Init => DraftInv
<1> SUFFICES ASSUME Draft!Init PROVE DraftInv
  OBVIOUS
<1>1. rows \in Seq(Draft!Texts \cup {None}) /\ Len(rows) \in 1..MaxRows
  BY Widths DEF Draft!Init
<1> QED
  BY <1>1 DEF Draft!Init, DraftInv, Draft!TypeOK

\* Nothing about the stored prizes depends on the rows or on the message.
LEMMA EditKeeps ==
  ASSUME DraftInv, prizes = None, UNCHANGED <<typed, prizes, Draft!funding>>,
         rows' \in Seq(Draft!Texts \cup {None}), Len(rows') \in 1..MaxRows,
         error' \in Draft!FieldErrors \cup {"invalidPrize", "writeFailed", None}
  PROVE  DraftInv'
<1>1. UNCHANGED <<required, reward, envelope, reserved>>
  BY DEF Draft!funding
<1>2. required = None /\ reward = None /\ reserved = None
  BY DEF DraftInv, Draft!TypeOK
<1> QED
  BY <1>1, <1>2 DEF DraftInv, Draft!TypeOK

\* The rows of the form are edited.
LEMMA EditStep ==
  ASSUME DraftInv,
         \/ Draft!AddPrize
         \/ \E i \in DOMAIN rows : Draft!RemovePrize(i)
         \/ \E i \in DOMAIN rows : \E text \in Typeable : Draft!setPrize(i, text)
  PROVE  DraftInv'
<1> DEFINE T == Draft!Texts \cup {None}
<1>1. /\ rows \in Seq(T) /\ Len(rows) \in 1..MaxRows /\ MaxRows \in Nat
      /\ error \in Draft!FieldErrors \cup {"invalidPrize", "writeFailed", None}
  BY Widths DEF DraftInv, Draft!TypeOK
<1>2. None \in T /\ Typeable \subseteq T
  BY Widths
<1> HIDE DEF T
<1>3. prizes = None /\ UNCHANGED <<typed, prizes, error, Draft!funding>>
  BY DEF Draft!AddPrize, Draft!RemovePrize, Draft!setPrize
<1>4. rows' \in Seq(T) /\ Len(rows') \in 1..MaxRows
  <2>1. CASE Draft!AddPrize
    BY <1>1, <1>2, <2>1 DEF Draft!AddPrize
  <2>2. ASSUME NEW i \in DOMAIN rows, Draft!RemovePrize(i)
        PROVE  rows' \in Seq(T) /\ Len(rows') \in 1..MaxRows
    <3>1. i \in 1..Len(rows) /\ Len(rows) > 1
      BY <1>1, <2>2 DEF Draft!RemovePrize
    <3>2. rows' = SubSeq(rows, 1, i - 1) \o SubSeq(rows, i + 1, Len(rows))
      BY <2>2 DEF Draft!RemovePrize, Draft!RemoveAt
    <3>3. /\ SubSeq(rows, 1, i - 1) \in Seq(T) /\ Len(SubSeq(rows, 1, i - 1)) = i - 1
          /\ SubSeq(rows, i + 1, Len(rows)) \in Seq(T)
          /\ Len(SubSeq(rows, i + 1, Len(rows))) = Len(rows) - i
      BY <1>1, <3>1
    <3> DEFINE before == SubSeq(rows, 1, i - 1)
               after == SubSeq(rows, i + 1, Len(rows))
    <3> HIDE DEF before, after
    <3>4. rows' \in Seq(T) /\ Len(rows') = Len(before) + Len(after)
      BY <3>2, <3>3 DEF before, after
    <3>5. Len(before) + Len(after) = Len(rows) - 1
      BY <1>1, <3>1, <3>3 DEF before, after
    <3> QED
      BY <1>1, <3>1, <3>4, <3>5
  <2>3. ASSUME NEW i \in DOMAIN rows, NEW text \in Typeable, Draft!setPrize(i, text)
        PROVE  rows' \in Seq(T) /\ Len(rows') \in 1..MaxRows
    BY <1>1, <1>2, <2>3 DEF Draft!setPrize
  <2> QED
    BY <2>1, <2>2, <2>3
<1> QED
  BY <1>1, <1>3, <1>4, EditKeeps DEF T

\* The draft is written: the texts become units.
LEMMA CreateStep ==
  ASSUME DraftInv, NEW field \in Draft!FieldErrors \cup {None}, Draft!createDraftEvent(field)
  PROVE  DraftInv'
<1> DEFINE T == Draft!Texts \cup {None}
           parsed == [i \in DOMAIN rows |-> Draft!parseUsdcAmount(rows[i])]
           Kept == UNCHANGED <<typed, prizes>>
           Written == /\ \A i \in DOMAIN rows : parsed[i] # None /\ Draft!FitsColumn(parsed[i])
                      /\ prizes' = parsed /\ typed' = rows
<1>1. /\ rows \in Seq(T) /\ Len(rows) \in 1..MaxRows
      /\ required = None /\ reward = None /\ reserved = None
      /\ prizes = None /\ UNCHANGED <<rows, Draft!funding>>
  BY DEF DraftInv, Draft!TypeOK, Draft!createDraftEvent
<1>2. /\ error' \in Draft!FieldErrors \cup {"invalidPrize", "writeFailed", None}
      /\ Kept \/ Written
  <2>1. CASE field # None
    BY <2>1 DEF Draft!createDraftEvent
  <2>2. CASE field = None /\ \E i \in DOMAIN rows : parsed[i] = None
    BY <2>2 DEF Draft!createDraftEvent
  <2>3. CASE field = None /\ ~ \E i \in DOMAIN rows : parsed[i] = None
    BY <2>3 DEF Draft!createDraftEvent
  <2> QED
    BY <2>1, <2>2, <2>3
<1>3. CASE Kept
  BY <1>1, <1>2, <1>3, EditKeeps
<1>4. CASE Written
  <2> DEFINE Top == (WholeMax + 1) * Draft!Unit - 1
  <2>1. Len(rows) \in Nat /\ DOMAIN rows = 1..Len(rows)
    BY <1>1
  <2>2. ASSUME NEW i \in 1..Len(rows)
        PROVE  /\ rows[i] \in Draft!Texts /\ Len(rows[i].frac) <= Decimals
               /\ parsed[i] = Draft!Units(rows[i]) /\ parsed[i] \in Nat
               /\ parsed[i] \in 1..Top
    <3>1. rows[i] \in T /\ parsed[i] = Draft!parseUsdcAmount(rows[i])
      BY <1>1, <2>1
    <3>2. Draft!parseUsdcAmount(rows[i]) # None /\ Draft!FitsColumn(parsed[i])
      BY <1>4, <2>1, <3>1
    <3>3. /\ rows[i] \in Draft!Texts /\ Len(rows[i].frac) <= Decimals
          /\ parsed[i] = Draft!Units(rows[i]) /\ parsed[i] \in Nat /\ parsed[i] > 0
      BY <3>1, <3>2, ParsedAmount
    <3>4. Draft!Unit \in Nat
      BY PowerLaw, Widths DEF Draft!Unit
    <3>5. (WholeMax + 1) * Draft!Unit \in Int
      BY <3>4, Widths
    <3>6. parsed[i] < (WholeMax + 1) * Draft!Unit
      BY <3>2 DEF Draft!FitsColumn
    <3> QED
      BY <3>3, <3>5, <3>6
  <2>3. parsed \in Seq(Nat) /\ Len(parsed) = Len(rows) /\ DOMAIN parsed = 1..Len(rows)
    <3>1. parsed \in [1..Len(rows) -> Nat]
      BY <2>1, <2>2
    <3> HIDE DEF parsed
    <3> QED
      BY <2>1, <3>1
  <2> HIDE DEF parsed
  <2>4. UNCHANGED <<rows, required, reward, envelope, reserved>>
    BY <1>1 DEF Draft!funding
  <2> QED
    BY <1>1, <1>2, <1>4, <2>1, <2>2, <2>3, <2>4 DEF DraftInv, Draft!TypeOK
<1> QED
  BY <1>2, <1>3, <1>4

\* The funding page sums what it shows.
LEMMA OpenStep ==
  ASSUME DraftInv, Draft!OpenFunding
  PROVE  DraftInv'
<1>1. /\ prizes # None /\ prizes \in Seq(Nat)
      /\ reward' = None /\ UNCHANGED <<rows, typed, prizes, error, reserved>>
  BY DEF Draft!OpenFunding, DraftInv, Draft!draft
<1>2. required' \notin {None, Draft!Failed} => required' = Draft!Sum(prizes)
  <2> SUFFICES ASSUME required' \notin {None, Draft!Failed} PROVE required' = Draft!Sum(prizes)
    OBVIOUS
  <2> DEFINE shown == [i \in DOMAIN prizes |-> Draft!Shown(prizes[i])]
  <2>1. /\ \A i \in DOMAIN prizes : Draft!Shown(prizes[i]) # None
        /\ required' = Draft!Sum(shown)
    BY DEF Draft!OpenFunding
  <2>2. \A i \in DOMAIN prizes : prizes[i] \in Nat
    BY <1>1
  <2>3. \A i \in DOMAIN prizes : Draft!Shown(prizes[i]) = prizes[i]
    BY <2>1, <2>2, ShownExact, Zenon
  <2>4. shown = prizes
    <3>1. prizes = [i \in DOMAIN prizes |-> prizes[i]]
      BY <1>1
    <3> QED
      BY <2>3, <3>1
  <2> QED
    BY <2>1, <2>4
<1> QED
  BY <1>1, <1>2 DEF DraftInv, Draft!TypeOK

\* core-go sums, and the browser reads its answer.
LEMMA BuildStep ==
  ASSUME DraftInv, Draft!BuildCreate
  PROVE  DraftInv'
<1>1. /\ required \notin {None, Draft!Failed}
      /\ envelope' = Draft!Reward /\ Draft!Reward >= 0 /\ reward' \in Draft!JsNumbers(Draft!Reward)
      /\ UNCHANGED <<rows, typed, prizes, error, required, reserved>>
  BY DEF Draft!BuildCreate, Draft!draft
<1>2. Draft!Reward' = Draft!Reward
  BY <1>1 DEF Draft!Reward
<1> QED
  BY <1>1, <1>2 DEF DraftInv, Draft!TypeOK

\* The comparison before signing: only the exact sum passes it.
LEMMA SignStep ==
  ASSUME DraftInv, Draft!SignCreate
  PROVE  DraftInv'
<1>1. /\ reward # None /\ reward = required /\ reserved' = envelope
      /\ UNCHANGED <<rows, typed, prizes, error, required, reward, envelope>>
  BY DEF Draft!SignCreate, Draft!rewardMismatch, Draft!draft
<1>2. /\ required \notin {None, Draft!Failed} /\ prizes # None /\ prizes \in Seq(Nat)
      /\ required = Draft!Sum(prizes) /\ envelope = Draft!Reward
      /\ Draft!Reward >= 0 /\ reward \in Draft!JsNumbers(Draft!Reward)
  BY <1>1 DEF DraftInv, Draft!TypeOK
<1>3. Draft!Reward = Draft!Sum(prizes)
  BY <1>1, <1>2, RewardAsSummed
<1>4. Draft!Reward' = Draft!Reward
  BY <1>1 DEF Draft!Reward
<1> QED
  BY <1>1, <1>2, <1>3, <1>4 DEF DraftInv, Draft!TypeOK

\* The invariant is inductive.
LEMMA DraftNext ==
  DraftInv /\ [Draft!Next]_(Draft!vars) => DraftInv'
<1> SUFFICES ASSUME DraftInv, [Draft!Next]_(Draft!vars) PROVE DraftInv'
  OBVIOUS
<1>1. CASE UNCHANGED Draft!vars
  <2>1. UNCHANGED <<rows, typed, prizes, error, required, reward, envelope, reserved>>
    BY <1>1 DEF Draft!vars, Draft!draft, Draft!funding
  <2>2. Draft!Reward' = Draft!Reward
    BY <2>1 DEF Draft!Reward
  <2> QED
    BY <2>1, <2>2 DEF DraftInv, Draft!TypeOK
<1>2. CASE Draft!Next
  BY <1>2, EditStep, CreateStep, OpenStep, BuildStep, SignStep DEF Draft!Next
<1> QED
  BY <1>1, <1>2

\* Type correctness of the draft: the rows stay within their number, and every
\* stored prize is an amount the column holds.
THEOREM DraftTypes == Draft!Spec => []Draft!TypeOK
<1>1. DraftInv => Draft!TypeOK
  BY DEF DraftInv
<1> QED
  BY DraftInit, DraftNext, <1>1, PTL DEF Draft!Spec

\* core-go reads for every rank what was typed (amount.ts mirrors amount.go),
\* and what the organizer signs away is the exact sum: a sum that wrapped in
\* int64 is off by more than what a double changes, and fails the comparison of
\* the funding page.
THEOREM PrizesAreExact == Draft!Spec => []PrizesAddUp
<1>1. DraftInv => PrizesAddUp
  <2> SUFFICES ASSUME DraftInv, prizes # None
               PROVE  LET due == [i \in DOMAIN prizes |-> Draft!AmountToStroops(typed[i])]
                      IN  /\ \A i \in DOMAIN prizes :
                               Draft!AmountToStroops(Draft!ColumnText(prizes[i])) = due[i]
                          /\ reserved # None => reserved = Draft!Sum(due)
    BY DEF PrizesAddUp, Draft!PrizesAddUp
  <2> DEFINE due == [i \in DOMAIN prizes |-> Draft!AmountToStroops(typed[i])]
  <2>1. prizes \in Seq(Nat) /\ DOMAIN prizes = 1..Len(prizes)
    BY DEF DraftInv
  <2>2. \A i \in DOMAIN prizes : due[i] = prizes[i]
    BY <2>1, ParsersAgree DEF DraftInv
  <2>3. \A i \in DOMAIN prizes : Draft!AmountToStroops(Draft!ColumnText(prizes[i])) = prizes[i]
    <3>1. \A i \in DOMAIN prizes : prizes[i] \in Nat
      BY <2>1
    <3> QED
      BY <3>1, ColumnExact, Zenon
  <2>4. due = prizes
    <3>1. prizes = [i \in DOMAIN prizes |-> prizes[i]]
      BY <2>1
    <3> QED
      BY <2>2, <3>1
  <2> QED
    BY <2>3, <2>4 DEF DraftInv
<1> QED
  BY DraftInit, DraftNext, <1>1, PTL DEF Draft!Spec
=============================================================================
