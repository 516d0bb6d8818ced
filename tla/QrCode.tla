------------------------------- MODULE QrCode -------------------------------
(***************************************************************************)
(* The QR code of the event page (lib/qr.ts): encodeText chooses a version *)
(* and a level, packs and pads the codewords, adds Reed-Solomon blocks,    *)
(* draws the grid, tries the eight masks and keeps the cheapest.  A text   *)
(* is a sequence of code points, a grid the set of its dark modules.       *)
(***************************************************************************)
EXTENDS Integers, Sequences, FiniteSets, Bitwise, SequencesExt

CONSTANT Inputs         \* records [text, ecl]: the calls of encodeText

VARIABLES input, pc, version, ecl, data, rs, codewords, grid, try, best
vars == <<input, pc, version, ecl, data, rs, codewords, grid, try, best>>

Digit == 48..57
AlnumChars == <<48, 49, 50, 51, 52, 53, 54, 55, 56, 57, 65, 66, 67, 68, 69, 70,
    71, 72, 73, 74, 75, 76, 77, 78, 79, 80, 81, 82, 83, 84, 85, 86, 87, 88, 89,
    90, 32, 36, 37, 42, 43, 45, 46, 47, 58>>
AlnumIndex(c) == (CHOOSE i \in DOMAIN AlnumChars : AlnumChars[i] = c) - 1

EccPerBlock == <<
  <<7, 10, 15, 20, 26, 18, 20, 24, 30, 18, 20, 24, 26, 30, 22, 24, 28, 30, 28, 28,
    28, 28, 30, 30, 26, 28, 30, 30, 30, 30, 30, 30, 30, 30, 30, 30, 30, 30, 30, 30>>,
  <<10, 16, 26, 18, 24, 16, 18, 22, 22, 26, 30, 22, 22, 24, 24, 28, 28, 26, 26, 26,
    26, 28, 28, 28, 28, 28, 28, 28, 28, 28, 28, 28, 28, 28, 28, 28, 28, 28, 28, 28>>,
  <<13, 22, 18, 26, 18, 24, 18, 22, 20, 24, 28, 26, 24, 20, 30, 24, 28, 28, 26, 30,
    28, 30, 30, 30, 30, 28, 30, 30, 30, 30, 30, 30, 30, 30, 30, 30, 30, 30, 30, 30>>,
  <<17, 28, 22, 16, 22, 28, 26, 26, 24, 28, 24, 28, 22, 24, 24, 30, 28, 28, 26, 28,
    30, 24, 30, 30, 30, 30, 30, 30, 30, 30, 30, 30, 30, 30, 30, 30, 30, 30, 30, 30>> >>
NumBlocks == <<
  <<1, 1, 1, 1, 1, 2, 2, 2, 2, 4, 4, 4, 4, 4, 6, 6, 6, 6, 7, 8,
    8, 9, 9, 10, 12, 12, 12, 13, 14, 15, 16, 17, 18, 19, 19, 20, 21, 22, 24, 25>>,
  <<1, 1, 1, 2, 2, 4, 4, 4, 5, 5, 5, 8, 9, 9, 10, 10, 11, 13, 14, 16,
    17, 17, 18, 20, 21, 23, 25, 26, 28, 29, 31, 33, 35, 37, 38, 40, 43, 45, 47, 49>>,
  <<1, 1, 2, 2, 4, 4, 6, 6, 8, 8, 8, 10, 12, 16, 12, 17, 16, 18, 21, 20,
    23, 23, 25, 27, 29, 34, 34, 35, 38, 40, 43, 45, 48, 51, 53, 56, 59, 62, 65, 68>>,
  <<1, 1, 2, 4, 4, 4, 5, 6, 8, 8, 11, 11, 16, 16, 18, 16, 19, 21, 25, 25,
    25, 34, 30, 32, 35, 37, 40, 42, 45, 48, 51, 54, 57, 60, 63, 66, 70, 74, 77, 81>> >>

\* The levels LOW, MEDIUM, QUARTILE, HIGH are 0..3.
Levels == 0..3
FormatBits == <<1, 0, 3, 2>>

getBit(x, i) == (x \div 2^i) % 2
\* The len low-order bits of val, the highest first.
appendBits(val, len) == [i \in 1..len |-> getBit(val, len - i)]
Size(v) == 4 * v + 17
\* The concatenation of a sequence of sequences, by halves: they are long.
RECURSIVE Joined(_)
Joined(ss) ==
  LET half == Len(ss) \div 2 IN
  CASE ss = <<>> -> <<>>
    [] Len(ss) = 1 -> ss[1]
    [] OTHER -> Joined(SubSeq(ss, 1, half)) \o Joined(SubSeq(ss, half + 1, Len(ss)))

-----------------------------------------------------------------------------
\* Segments.

\* What encodeURI writes for one code point (it throws for a lone surrogate,
\* which is no code point).
Utf8(c) ==
  IF c < 128 THEN <<c>>
  ELSE IF c < 2048 THEN <<192 + c \div 64, 128 + (c % 64)>>
  ELSE IF c < 65536 THEN <<224 + c \div 4096, 128 + ((c \div 64) % 64), 128 + (c % 64)>>
  ELSE <<240 + c \div 262144, 128 + ((c \div 4096) % 64),
         128 + ((c \div 64) % 64), 128 + (c % 64)>>
toUtf8ByteArray(t) == Joined([i \in DOMAIN t |-> Utf8(t[i])])

makeNumeric(t) ==
  LET n(k) == IF Len(t) - 3 * (k - 1) < 3 THEN Len(t) - 3 * (k - 1) ELSE 3
      d(i) == t[i] - 48
      value(k) == LET i == 3 * (k - 1) IN
                  CASE n(k) = 1 -> d(i + 1)
                    [] n(k) = 2 -> 10 * d(i + 1) + d(i + 2)
                    [] n(k) = 3 -> 100 * d(i + 1) + 10 * d(i + 2) + d(i + 3)
  IN Joined([k \in 1..((Len(t) + 2) \div 3) |-> appendBits(value(k), 3 * n(k) + 1)])
makeAlphanumeric(t) ==
  Joined([k \in 1..((Len(t) + 1) \div 2) |->
    IF 2 * k <= Len(t)
    THEN appendBits(45 * AlnumIndex(t[2 * k - 1]) + AlnumIndex(t[2 * k]), 11)
    ELSE appendBits(AlnumIndex(t[2 * k - 1]), 6)])
makeBytes(bytes) == Joined([i \in DOMAIN bytes |-> appendBits(bytes[i], 8)])

Numeric == [modeBits |-> 1, countBits |-> <<10, 12, 14>>]
Alphanumeric == [modeBits |-> 2, countBits |-> <<9, 11, 13>>]
Byte == [modeBits |-> 4, countBits |-> <<8, 16, 16>>]
numCharCountBits(mode, v) == mode.countBits[(v + 7) \div 17 + 1]

Segment(mode, n, bits) == [mode |-> mode, numChars |-> n, bits |-> bits]
makeSegments(t) ==
  IF t = <<>> THEN <<>>
  ELSE IF Range(t) \subseteq Digit THEN <<Segment(Numeric, Len(t), makeNumeric(t))>>
  ELSE IF Range(t) \subseteq Range(AlnumChars)
    THEN <<Segment(Alphanumeric, Len(t), makeAlphanumeric(t))>>
  ELSE LET bytes == toUtf8ByteArray(t) IN <<Segment(Byte, Len(bytes), makeBytes(bytes))>>

-----------------------------------------------------------------------------
\* Capacity.

numAlign(v) == IF v = 1 THEN 0 ELSE v \div 7 + 2
\* Mutant: the version blocks are counted from version 8.
getNumRawDataModules_From8(v) ==
  (16 * v + 128) * v + 64
  - (IF v >= 2 THEN (25 * numAlign(v) - 10) * numAlign(v) - 55 ELSE 0)
  - (IF v > 7 THEN 36 ELSE 0)
getNumRawDataModules(v) ==
  (16 * v + 128) * v + 64
  - (IF v >= 2 THEN (25 * numAlign(v) - 10) * numAlign(v) - 55 ELSE 0)
  - (IF v >= 7 THEN 36 ELSE 0)
RawCodewords(v) == getNumRawDataModules(v) \div 8
getNumDataCodewords(v, e) ==
  RawCodewords(v) - EccPerBlock[e + 1][v] * NumBlocks[e + 1][v]

\* getTotalBits(segs, v) <= the data bits of (v, e); a character count that
\* does not fit its field makes the total infinite.
Fits(segs, v, e) ==
  \A s \in Range(segs) :
    /\ s.numChars < 2^numCharCountBits(s.mode, v)
    /\ 4 + numCharCountBits(s.mode, v) + Len(s.bits) <= 8 * getNumDataCodewords(v, e)

Terminator(used, capacity) == IF capacity - used < 4 THEN capacity - used ELSE 4

\* The data codewords: header and data, terminator, zeros up to a byte, then
\* 236 and 17 in turn.
DataCodewords(segs, v, e) ==
  LET capacity == 8 * getNumDataCodewords(v, e)
      bits == Joined([i \in DOMAIN segs |->
                appendBits(segs[i].mode.modeBits, 4)
                \o appendBits(segs[i].numChars, numCharCountBits(segs[i].mode, v))
                \o segs[i].bits])
      ended == bits \o appendBits(0, Terminator(Len(bits), capacity))
      whole == ended \o appendBits(0, (8 - (Len(ended) % 8)) % 8)
      byte(k) == LET b == 8 * (k - 1) IN
                 128 * whole[b + 1] + 64 * whole[b + 2] + 32 * whole[b + 3]
                 + 16 * whole[b + 4] + 8 * whole[b + 5] + 4 * whole[b + 6]
                 + 2 * whole[b + 7] + whole[b + 8]
      used == Len(whole) \div 8
      all == IF 8 * used > capacity THEN used ELSE capacity \div 8
  IN [k \in 1..all |-> IF k <= used THEN byte(k)
                       ELSE IF (k - used) % 2 = 1 THEN 236 ELSE 17]

-----------------------------------------------------------------------------
\* Error correction, in GF(2^8/0x11D).

reedSolomonMultiply(x, y) ==
  LET z[i \in 0..8] ==
        IF i = 0 THEN 0
        ELSE LET w == z[i - 1]
             IN ((2 * w) ^^ ((w \div 128) * 285)) ^^ (getBit(y, 8 - i) * x)
  IN IF x = 0 \/ y = 0 THEN 0 ELSE z[8]

Shifted(p) == Append(Tail(p), 0)
Plus(p, q) == [j \in DOMAIN p |-> p[j] ^^ q[j]]
Scaled(p, c) == [j \in DOMAIN p |-> reedSolomonMultiply(p[j], c)]
Zeros(n) == [j \in 1..n |-> 0]

ShortBlocks(v, e) == NumBlocks[e + 1][v] - (RawCodewords(v) % NumBlocks[e + 1][v])
\* The data bytes of a short block; a long one has one more.
ShortData(v, e) == RawCodewords(v) \div NumBlocks[e + 1][v] - EccPerBlock[e + 1][v]
MinOf(a, b) == IF a < b THEN a ELSE b
MaxOf(a, b) == IF a > b THEN a ELSE b

\* The i-th byte of every block for i = 1, 2, ...; the short blocks, which
\* come first, have no byte at place short + 1.
Interleaved(blocks, v, e) ==
  LET short == ShortData(v, e)
      padded(b) == IF b <= ShortBlocks(v, e)
                   THEN SubSeq(blocks[b], 1, short) \o <<0>>
                        \o SubSeq(blocks[b], short + 1, Len(blocks[b]))
                   ELSE blocks[b]
      column(i) == [b \in DOMAIN blocks |-> padded(b)[i]]
  IN Joined([i \in 1..Len(padded(1)) |->
       IF i # short + 1 THEN column(i)
       ELSE SubSeq(column(i), ShortBlocks(v, e) + 1, Len(blocks))])

\* The data bytes of block b; NextDivisor and NextByte add its check bytes.
BlockData(bytes, v, e, b) ==
  LET before(k) == (k - 1) * ShortData(v, e) + MaxOf(0, k - 1 - ShortBlocks(v, e))
  IN SubSeq(bytes, before(b) + 1, before(b + 1))

-----------------------------------------------------------------------------
\* The grid.  A layer is the modules it sets and those it sets dark; a later
\* layer overwrites an earlier one.

Modules(n) == (0..(n - 1)) \X (0..(n - 1))
Abs(i) == IF i < 0 THEN -i ELSE i
Dist(a, b) == MaxOf(Abs(a[1] - b[1]), Abs(a[2] - b[2]))
Over(a, b) == [cells |-> a.cells \cup b.cells, dark |-> (a.dark \ b.cells) \cup b.dark]

TimingPatterns(n) ==
  LET line == {<<6, i>> : i \in 0..(n - 1)} \cup {<<i, 6>> : i \in 0..(n - 1)}
  IN [cells |-> line,
      dark |-> {c \in line : IF c[1] = 6 THEN c[2] % 2 = 0 ELSE c[1] % 2 = 0}]
Square(n, c, r) == (MaxOf(0, c[1] - r)..MinOf(n - 1, c[1] + r))
                   \X (MaxOf(0, c[2] - r)..MinOf(n - 1, c[2] + r))
drawFinderPattern(n, c) ==
  [cells |-> Square(n, c, 4), dark |-> {m \in Square(n, c, 4) : Dist(m, c) \notin {2, 4}}]
drawAlignmentPattern(n, c) ==
  [cells |-> Square(n, c, 2), dark |-> {m \in Square(n, c, 2) : Dist(m, c) # 1}]

\* getAlignmentPatternPositions: 6, then back from the far edge in equal steps.
AlignmentPositions(v) ==
  IF v = 1 THEN {}
  ELSE LET step == 2 * ((v * 8 + numAlign(v) * 3 + 5) \div (numAlign(v) * 4 - 4))
       IN {6} \cup {Size(v) - 7 - k * step : k \in 0..(numAlign(v) - 2)}
AlignmentCentres(v) ==
  LET far == Size(v) - 7
  IN (AlignmentPositions(v) \X AlignmentPositions(v)) \ {<<6, 6>>, <<6, far>>, <<far, 6>>}

\* The remainder of data * x^len divided by the generator, appended to data.
WithChecksum(bits, len, generator) ==
  LET rem[i \in 0..len] ==
        IF i = 0 THEN bits
        ELSE LET r == rem[i - 1] IN (2 * r) ^^ ((r \div 2^(len - 1)) * generator)
  IN bits * 2^len + rem[len]

FormatFirst(i) == CASE i <= 5 -> <<8, i>>
                    [] i = 6 -> <<8, 7>>
                    [] i = 7 -> <<8, 8>>
                    [] i = 8 -> <<7, 8>>
                    [] i >= 9 -> <<14 - i, 8>>
FormatSecond(n, i) == IF i < 8 THEN <<n - 1 - i, 8>> ELSE <<8, n - 15 + i>>
drawFormatBits(n, e, mask) ==
  LET bits == WithChecksum(FormatBits[e + 1] * 8 + mask, 10, 1335) ^^ 21522
      both(i) == {FormatFirst(i), FormatSecond(n, i)}
      set == {i \in 0..14 : getBit(bits, i) = 1}
  IN [cells |-> UNION {both(i) : i \in 0..14} \cup {<<8, n - 8>>},
      dark |-> UNION {both(i) : i \in set} \cup {<<8, n - 8>>}]
drawVersion(v) ==
  LET bits == WithChecksum(v, 12, 7973)
      both(i) == LET a == Size(v) - 11 + (i % 3)
                     b == i \div 3
                 IN {<<a, b>>, <<b, a>>}
      all == IF v < 7 THEN {} ELSE 0..17
  IN [cells |-> UNION {both(i) : i \in all},
      dark |-> UNION {both(i) : i \in {k \in all : getBit(bits, k) = 1}}]

drawFunctionPatterns(v, e) ==
  LET n == Size(v)
      finders == {<<3, 3>>, <<n - 4, 3>>, <<3, n - 4>>}
      finder == [cells |-> UNION {drawFinderPattern(n, c).cells : c \in finders},
                 dark |-> UNION {drawFinderPattern(n, c).dark : c \in finders}]
      align == [cells |-> UNION {drawAlignmentPattern(n, c).cells : c \in AlignmentCentres(v)},
                dark |-> UNION {drawAlignmentPattern(n, c).dark : c \in AlignmentCentres(v)}]
  IN Over(Over(Over(Over(TimingPatterns(n), finder), align), drawFormatBits(n, e, 0)),
          drawVersion(v))

\* The zigzag scan of drawCodewords over the modules no pattern takes.
DataModules(v, e) ==
  LET n == Size(v)
      used == drawFunctionPatterns(v, e).cells
      right(k) == LET r == n - 1 - 2 * (k \div (2 * n)) IN IF r <= 6 THEN r - 1 ELSE r
      vert(k) == (k % (2 * n)) \div 2
      upward(k) == ((right(k) + 1) \div 2) % 2 = 0
      at(k) == <<right(k) - (k % 2), IF upward(k) THEN n - 1 - vert(k) ELSE vert(k)>>
      free(m) == m \notin used
  IN SelectSeq([k \in 1..(n * (n - 1)) |-> at(k - 1)], free)
drawCodewords(bytes, v, e) ==
  LET cells == DataModules(v, e)
  IN {cells[i] : i \in {k \in 1..(8 * Len(bytes)) :
        getBit(bytes[(k - 1) \div 8 + 1], 7 - ((k - 1) % 8)) = 1}}

Inverts(mask, x, y) ==
  CASE mask = 0 -> (x + y) % 2 = 0
    [] mask = 1 -> y % 2 = 0
    [] mask = 2 -> x % 3 = 0
    [] mask = 3 -> (x + y) % 3 = 0
    [] mask = 4 -> (x \div 3 + y \div 2) % 2 = 0
    [] mask = 5 -> ((x * y) % 2) + ((x * y) % 3) = 0
    [] mask = 6 -> (((x * y) % 2) + ((x * y) % 3)) % 2 = 0
    [] mask = 7 -> (((x + y) % 2) + ((x * y) % 3)) % 2 = 0
applyMask(g, v, e, mask) ==
  LET inverted == {m \in Range(DataModules(v, e)) : Inverts(mask, m[1], m[2])}
  IN (g \ inverted) \cup (inverted \ g)
Redrawn(g, n, e, mask) ==
  (g \ drawFormatBits(n, e, mask).cells) \cup drawFormatBits(n, e, mask).dark

\* A line is a row or a column, light outside the grid.
LinesOf(n) == {"row", "column"} \X (0..(n - 1))
DarkAt(g, l, i) == IF l[1] = "row" THEN <<i, l[2]>> \in g ELSE <<l[2], i>> \in g

\* Dark runs 1:1:3:1:1 between light ones with four units of light before or
\* after (once for each side).
finderPenaltyCountPatterns(g, n) ==
  LET is(c, l, from, len) ==
        \A j \in MaxOf(0, from)..MinOf(n - 1, from + len - 1) : DarkAt(g, l, j) = c
      core(l, i, u) ==
        /\ i + 7 * u <= n
        /\ is(TRUE, l, i, u) /\ is(FALSE, l, i + u, u) /\ is(TRUE, l, i + 2 * u, 3 * u)
        /\ is(FALSE, l, i + 5 * u, u) /\ is(TRUE, l, i + 6 * u, u)
        /\ is(FALSE, l, i - u, u) /\ is(FALSE, l, i + 7 * u, u)
      cores == {c \in (LinesOf(n) \X (0..(n - 1))) \X (1..(n \div 7)) :
                  core(c[1][1], c[1][2], c[2])}
      before == {c \in cores : is(FALSE, c[1][1], c[1][2] - 4 * c[2], 4 * c[2])}
      after == {c \in cores : is(FALSE, c[1][1], c[1][2] + 7 * c[2], 4 * c[2])}
  IN Cardinality(before) + Cardinality(after)

\* Runs of five or more in a line, 2*2 blocks, finder-like patterns, balance.
getPenaltyScore(g, n) ==
  LET same(l, i, k) == \A d \in 1..k : DarkAt(g, l, i - d) = DarkAt(g, l, i)
      runs == {p \in LinesOf(n) \X (4..(n - 1)) : same(p[1], p[2], 4)}
      starts == {p \in runs : p[2] = 4 \/ ~same(p[1], p[2], 5)}
      blocks == {m \in Modules(n - 1) :
                   \A d \in {<<1, 0>>, <<0, 1>>, <<1, 1>>} :
                     (<<m[1] + d[1], m[2] + d[2]>> \in g) = (m \in g)}
      k == (Abs(20 * Cardinality(g) - 10 * n * n) + n * n - 1) \div (n * n) - 1
  IN Cardinality(runs) + 2 * Cardinality(starts)
     + 40 * finderPenaltyCountPatterns(g, n)
     + 3 * Cardinality(blocks) + 10 * k

-----------------------------------------------------------------------------
\* Reed-Solomon work in progress: term of the divisor, its root and the
\* product so far; finished blocks, remainder and byte of the next one.
NoBlocks == [term |-> 0, root |-> 1, divisor |-> <<1>>, blocks |-> <<>>,
             rem |-> <<>>, byte |-> 0]
NoBest == [mask |-> -1, penalty |-> 1000000000]

Init ==
  /\ input \in Inputs
  /\ pc = "search"
  /\ version = 1
  /\ ecl = input.ecl
  /\ data = <<>>
  /\ rs = NoBlocks
  /\ codewords = <<>>
  /\ grid = {}
  /\ try = 0
  /\ best = NoBest

\* encodeSegments: the next version of the search, or "Data too long".
NextVersion ==
  /\ pc = "search"
  /\ ~Fits(makeSegments(input.text), version, ecl)
  /\ IF version = 40
     THEN pc' = "error" /\ UNCHANGED version
     ELSE version' = version + 1 /\ UNCHANGED pc
  /\ UNCHANGED <<input, ecl, data, rs, codewords, grid, try, best>>

\* encodeSegments, the rest: raise the level while the data fits, then pack.
Pack ==
  LET segs == makeSegments(input.text)
      fitting == {e \in Levels : e = ecl \/ (e > 0 /\ Fits(segs, version, e))}
  IN
  /\ pc = "search"
  /\ Fits(segs, version, ecl)
  /\ \E e \in fitting :
       /\ \A o \in fitting : o <= e
       /\ ecl' = e
       /\ data' = DataCodewords(segs, version, e)
       /\ rs' = [NoBlocks EXCEPT !.divisor = Append(Zeros(EccPerBlock[e + 1][version] - 1), 1),
                               !.rem = Zeros(EccPerBlock[e + 1][version])]
  /\ pc' = "ecc"
  /\ UNCHANGED <<input, version, codewords, grid, try, best>>

\* reedSolomonComputeDivisor: multiply by (x - 2^term), the next root.
NextDivisor ==
  /\ pc = "ecc"
  /\ rs.term < Len(rs.divisor)
  /\ rs' = [rs EXCEPT !.term = @ + 1, !.root = reedSolomonMultiply(@, 2),
                      !.divisor = Plus(Scaled(@, rs.root), Shifted(@))]
  /\ UNCHANGED <<input, pc, version, ecl, data, codewords, grid, try, best>>

\* reedSolomonComputeRemainder: divide one more data byte, or end the block.
NextByte ==
  LET dat == BlockData(data, version, ecl, Len(rs.blocks) + 1) IN
  /\ pc = "ecc"
  /\ rs.term = Len(rs.divisor)
  /\ Len(rs.blocks) < NumBlocks[ecl + 1][version]
  /\ rs' = IF rs.byte < Len(dat)
           THEN [rs EXCEPT !.byte = @ + 1,
                   !.rem = Plus(Shifted(@), Scaled(rs.divisor, dat[rs.byte + 1] ^^ @[1]))]
           ELSE [rs EXCEPT !.blocks = Append(@, dat \o rs.rem), !.byte = 0,
                           !.rem = Zeros(Len(@))]
  /\ UNCHANGED <<input, pc, version, ecl, data, codewords, grid, try, best>>

\* The constructor draws the patterns and the interleaved codewords.
Draw ==
  /\ pc = "ecc"
  /\ Len(rs.blocks) = NumBlocks[ecl + 1][version]
  /\ codewords' = Interleaved(rs.blocks, version, ecl)
  /\ grid' = drawFunctionPatterns(version, ecl).dark
             \cup drawCodewords(codewords', version, ecl)
  /\ pc' = "mask"
  /\ UNCHANGED <<input, version, ecl, data, rs, try, best>>

\* One mask: apply, score, undo.  The format bits stay those of the trial.
TryMask ==
  LET masked == Redrawn(applyMask(grid, version, ecl, try), Size(version), ecl, try)
      penalty == getPenaltyScore(masked, Size(version))
  IN
  /\ pc = "mask"
  /\ try < 8
  /\ best' = IF penalty < best.penalty THEN [mask |-> try, penalty |-> penalty] ELSE best
  /\ grid' = applyMask(masked, version, ecl, try)
  /\ try' = try + 1
  /\ UNCHANGED <<input, pc, version, ecl, data, rs, codewords>>

\* Mutant: the format bits of the last trial are left in place.
Final_KeepsFormat(g, v, e, mask) == applyMask(g, v, e, mask)
Final(g, v, e, mask) == Redrawn(applyMask(g, v, e, mask), Size(v), e, mask)

\* The final mask and its format bits; qrSvgPath draws the dark modules.
Finish ==
  /\ pc = "mask"
  /\ try = 8
  /\ grid' = Final(grid, version, ecl, best.mask)
  /\ pc' = "done"
  /\ UNCHANGED <<input, version, ecl, data, rs, codewords, try, best>>

Next == NextVersion \/ Pack \/ NextDivisor \/ NextByte \/ Draw \/ TryMask \/ Finish
Spec == Init /\ [][Next]_vars

-----------------------------------------------------------------------------
\* What a reader of the symbol does, from the dark modules alone.

ReadBits(cells, g) ==
  LET f[i \in 0..Len(cells)] ==
        IF i = 0 THEN 0 ELSE 2 * f[i - 1] + (IF cells[i] \in g THEN 1 ELSE 0)
  IN f[Len(cells)]

\* The text of the data codewords: mode, count, characters (<<-1>> when they
\* are none a reader could accept).
TextOf(bytes, v) ==
  LET end == 8 * Len(bytes)
      bit(i) == IF i < end THEN getBit(bytes[i \div 8 + 1], 7 - (i % 8)) ELSE 0
      num(from, len) == LET f[i \in 0..len] ==
                              IF i = 0 THEN 0 ELSE 2 * f[i - 1] + bit(from + i - 1)
                        IN f[len]
      mode == num(0, 4)
      kind == CASE mode = 1 -> Numeric [] mode = 2 -> Alphanumeric [] OTHER -> Byte
      body == 4 + numCharCountBits(kind, v)
      count == MinOf(end, num(4, numCharCountBits(kind, v)))
      digits(k) == MinOf(3, count - 3 * k)
      digit(i) == (num(body + 10 * (i \div 3), 3 * digits(i \div 3) + 1)
                   \div 10^(digits(i \div 3) - 1 - (i % 3))) % 10
      pair(i) == num(body + 11 * (i \div 2), IF i - (i % 2) + 1 < count THEN 11 ELSE 6)
      alnum(i) == IF i - (i % 2) + 1 = count THEN pair(i)
                  ELSE IF i % 2 = 0 THEN pair(i) \div 45 ELSE pair(i) % 45
      char(i) == CASE mode = 1 -> 48 + digit(i)
                   [] mode = 2 -> IF alnum(i) < 45 THEN AlnumChars[alnum(i) + 1] ELSE -1
                   [] mode = 4 -> num(body + 8 * i, 8)
  IN IF mode = 0 THEN <<>>
     ELSE IF mode \in {1, 2, 4} THEN [i \in 1..count |-> char(i - 1)] ELSE <<-1>>

\* The block and the place in it of the k-th codeword (from 0) of the symbol.
PlaceOf(k, v, e) ==
  LET blocks == NumBlocks[e + 1][v]
      short == ShortData(v, e)
      long == blocks - ShortBlocks(v, e)
  IN IF k < blocks * short THEN <<(k % blocks) + 1, k \div blocks + 1>>
     ELSE IF k < blocks * short + long
       THEN <<ShortBlocks(v, e) + 1 + (k - blocks * short), short + 1>>
     ELSE LET r == k - blocks * short - long
              b == (r % blocks) + 1
          IN <<b, r \div blocks + 1 + short + (IF b > ShortBlocks(v, e) THEN 1 ELSE 0)>>

\* The blocks of a symbol, each data and then error correction.
BlocksOf(words, v, e) ==
  LET place == [k \in DOMAIN words |-> PlaceOf(k - 1, v, e)]
      len(b) == ShortData(v, e) + EccPerBlock[e + 1][v]
                + (IF b > ShortBlocks(v, e) THEN 1 ELSE 0)
  IN [b \in 1..NumBlocks[e + 1][v] |-> [i \in 1..len(b) |->
        words[CHOOSE k \in DOMAIN words : place[k] = <<b, i>>]]]

\* Version from the size, level and mask from the format bits, then the scan.
Scanned(g, n) ==
  LET v == (n - 17) \div 4
      format == ReadBits([i \in 1..15 |-> FormatFirst(15 - i)], g) ^^ 21522
      e == CHOOSE l \in Levels : FormatBits[l + 1] = format \div 2^13
      mask == (format \div 2^10) % 8
      cells == DataModules(v, e)
      read(m) == IF Inverts(mask, m[1], m[2]) THEN m \notin g ELSE m \in g
      words == [k \in 1..RawCodewords(v) |->
        LET b(j) == IF read(cells[8 * (k - 1) + j]) THEN 2^(8 - j) ELSE 0
        IN b(1) + b(2) + b(3) + b(4) + b(5) + b(6) + b(7) + b(8)]
      blocks == BlocksOf(words, v, e)
      dataOf(b) == SubSeq(blocks[b], 1, Len(blocks[b]) - EccPerBlock[e + 1][v])
  IN TextOf(Joined([b \in DOMAIN blocks |-> dataOf(b)]), v)

-----------------------------------------------------------------------------
\* The variables keep their types; the packed data fills the version and
\* level exactly, which the constructor and addEccAndInterleave throw on
\* otherwise, and the drawn codewords are as many as drawCodewords expects.
TypeOK ==
  /\ pc \in {"search", "error", "ecc", "mask", "done"}
  /\ version \in 1..40
  /\ ecl \in Levels
  /\ pc \in {"ecc", "mask", "done"} => Len(data) = getNumDataCodewords(version, ecl)
  /\ Range(data) \subseteq 0..255
  /\ pc \in {"mask", "done"} => Len(codewords) = RawCodewords(version)
  /\ grid \subseteq Modules(Size(version))
  /\ try \in 0..8

\* A reader recovers from the finished symbol the text it was made of, as the
\* bytes of its UTF-8 form when it is neither numeric nor alphanumeric: a wrong
\* mask, format, block or pad loses it. It shares the tables and the set of data
\* modules with the encoder and does not use the error correction.
Decodes ==
  pc = "done" =>
    LET t == input.text
        plain == Range(t) \subseteq Range(AlnumChars)
    IN Scanned(grid, Size(version)) = IF plain THEN t ELSE toUtf8ByteArray(t)

\* The closed form of getNumRawDataModules is the number of modules that the
\* drawn patterns leave free, in every version the search visits, and every
\* level leaves room for data in each of its blocks.
CapacityIsExact ==
  /\ Cardinality(Modules(Size(version)) \ drawFunctionPatterns(version, ecl).cells)
       = getNumRawDataModules(version)
  /\ \A e \in Levels : ShortData(version, e) > 0

=============================================================================
