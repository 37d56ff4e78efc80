---------------------------- MODULE DecodingProofs ----------------------------
(***************************************************************************)
(* Proofs about LineTables, for any runs of instructions, any lines and    *)
(* any bytes of a table that is cut short: the code finds the line that    *)
(* the compiler has encoded, in each of the three formats.                 *)
(*                                                                         *)
(* A run's table is a sequence of steps, each of which counts instructions *)
(* and moves the line (Profile).  First come the compiler's numbers and    *)
(* entries and what the code reads from them, then the profiles of runs in *)
(* the three formats, then the places that the code gets to in the table   *)
(* of all runs (Reached), and the steps of the code.                       *)
(*                                                                         *)
(* Proofs about Numbers are next, for any width of a word: what the code   *)
(* writes it reads back.                                                   *)
(***************************************************************************)
EXTENDS MCFrames, Induction, SequenceTheorems, TLAPS

(* A sequence of S is one of what S is a part of. *)
LEMMA Widened ==
  ASSUME NEW S, NEW T, S \subseteq T, NEW s \in Seq(S)
  PROVE  s \in Seq(T)
  OBVIOUS

(* The first k parts of a size that fits make so much of n. *)
UpToPart(n, c, k) == IF k * c <= n THEN k * c ELSE n

PartsSay(P, n, c) ==
  /\ P \in Seq(1..c) /\ (Len(P) = 0 <=> n = 0)
  /\ UpToPart(n, c, 0) = 0 /\ UpToPart(n, c, Len(P)) = n
  /\ \A k \in 0..Len(P) : UpToPart(n, c, k) \in 0..n
  /\ \A k \in 1..Len(P) : P[k] = UpToPart(n, c, k) - UpToPart(n, c, k - 1)

(* A length in parts of a size that fits: the parts add up to it.          *)
LEMMA PartsAre ==
  ASSUME NEW n \in Nat, NEW c \in {8, 254, 255}
  PROVE  PartsSay(L!Parts(n, c), n, c)
<1> DEFINE P == L!Parts(n, c)
           m == (n + c - 1) \div c
           fits(k) == IF k * c <= n THEN c ELSE n % c
<1>1. /\ m \in Nat /\ (m = 0 <=> n = 0) /\ n <= m * c
      /\ n % c \in 0..(c - 1)
      /\ \A k \in 1..m : (k - 1) * c < n /\ (k * c > n => n % c = n - (k - 1) * c)
      /\ \A k \in 0..m : k * c \in Nat
      /\ \A k \in 1..m : (k - 1) * c = k * c - c
  <2>1. CASE c = 8
    BY <2>1
  <2>2. CASE c = 254
    BY <2>2
  <2>3. CASE c = 255
    BY <2>3
  <2> QED
    BY <2>1, <2>2, <2>3
<1>2. P = [k \in 1..m |-> fits(k)]
  BY DEF L!Parts
<1> HIDE DEF m
<1>3. ASSUME NEW k \in 1..m
      PROVE  fits(k) \in 1..c /\ fits(k) = UpToPart(n, c, k) - UpToPart(n, c, k - 1)
  <2>1. PICK x \in Nat : x = k * c /\ (k - 1) * c = x - c /\ x - c < n /\ x - c \in Int
                         /\ (x > n => n % c = n - (x - c))
    BY <1>1
  <2>2. UpToPart(n, c, k) = (IF x <= n THEN x ELSE n) /\ UpToPart(n, c, k - 1) = x - c
        /\ fits(k) = IF x <= n THEN c ELSE n % c
    BY <2>1 DEF UpToPart
  <2> HIDE DEF fits
  <2> QED
    BY <2>1, <2>2
<1> HIDE DEF fits
<1>4. P \in Seq(1..c) /\ Len(P) = m
  BY <1>1, <1>2, <1>3
<1>5. ASSUME NEW k \in 0..m PROVE UpToPart(n, c, k) \in 0..n
  BY <1>1 DEF UpToPart
<1>6. UpToPart(n, c, 0) = 0
  BY DEF UpToPart
<1>7. UpToPart(n, c, m) = n
  <2>1. PICK x \in Nat : x = m * c /\ n <= x
    BY <1>1
  <2> QED
    BY <2>1 DEF UpToPart
<1> QED
  BY <1>1, <1>2, <1>3, <1>4, <1>5, <1>6, <1>7 DEF PartsSay

(* The first j steps make so much of a difference. *)
UpToStride(d, j) ==
  IF j > Len(L!Strides(d)) THEN d ELSE IF d < 0 THEN -(127 * j) ELSE 127 * j

StridesSay(t, d) ==
  /\ t \in Seq(-127..127)
  /\ Len(t) = Len(L!Strides(d)) + 1
  /\ t[Len(t)] = L!LastStride(d)
  /\ \A j \in 1..(Len(t) - 1) : t[j] = L!Strides(d)[j]
  /\ UpToStride(d, 0) = 0 /\ UpToStride(d, Len(t)) = d
  /\ \A j \in 0..Len(t) : UpToStride(d, j) \in Int
  /\ \A j \in 1..Len(t) : t[j] = UpToStride(d, j) - UpToStride(d, j - 1)

(* A distant line in steps that fit a byte: the steps add up to it.        *)
LEMMA StridesAre ==
  ASSUME NEW d \in Int
  PROVE  /\ L!Strides(d) \in Seq(-127..127)
         /\ StridesSay(L!Strides(d) \o <<L!LastStride(d)>>, d)
<1> DEFINE a == IF d < 0 THEN -d ELSE d
           q == (a - 1) \div 127
           s == L!Strides(d)
           t == s \o <<L!LastStride(d)>>
<1>0. a \in Nat
  OBVIOUS
<1>1. /\ s = [k \in 1..q |-> IF d < 0 THEN -127 ELSE 127]
      /\ q \in Int /\ 127 * q <= a - 1 /\ a - 1 < 127 * q + 127
  <2>1. q \in Int /\ 127 * q <= a - 1 /\ a - 1 < 127 * q + 127
    BY <1>0
  <2> QED
    BY <2>1 DEF L!Strides
<1> HIDE DEF q
<1>2. PICK l \in Nat : l = IF q < 0 THEN 0 ELSE q
  BY <1>1
<1>3. s \in Seq(-127..127) /\ Len(s) = l /\ \A k \in 1..l : s[k] = IF d < 0 THEN -127 ELSE 127
  <2>1. 1..q = 1..l
    BY <1>1, <1>2
  <2>2. s = [k \in 1..l |-> IF d < 0 THEN -127 ELSE 127]
    BY <1>1, <2>1
  <2> HIDE DEF s
  <2> QED
    BY <2>2
<1>4. PICK x \in -127..127 : x = L!LastStride(d) /\ x = IF d < 0 THEN d + 127 * l ELSE d - 127 * l
  <2>1. L!LastStride(d) = IF d < 0 THEN d + 127 * l ELSE d - 127 * l
    BY <1>3 DEF L!LastStride
  <2>2. 127 * l <= a /\ a <= 127 * l + 127
    BY <1>0, <1>1, <1>2
  <2> QED
    BY <2>1, <2>2
<1> HIDE DEF s
<1>5. t \in Seq(-127..127) /\ Len(t) = l + 1 /\ t[l + 1] = x /\ \A k \in 1..l : t[k] = s[k]
  BY <1>3, <1>4
<1> HIDE DEF t
<1>6. \A j \in 0..(l + 1) : UpToStride(d, j) = IF j = l + 1 THEN d ELSE IF d < 0 THEN -(127 * j) ELSE 127 * j
  BY <1>3 DEF UpToStride, s
<1>7. UpToStride(d, 0) = 0 /\ UpToStride(d, l + 1) = d
  BY <1>2, <1>6
<1>8. ASSUME NEW j \in 0..(l + 1) PROVE UpToStride(d, j) \in Int
  BY <1>6
<1>9. ASSUME NEW j \in 1..(l + 1) PROVE t[j] = UpToStride(d, j) - UpToStride(d, j - 1)
  <2>1. j - 1 \in 0..(l + 1) /\ j - 1 # l + 1
    BY <1>2
  <2>2. UpToStride(d, j - 1) = IF d < 0 THEN -(127 * (j - 1)) ELSE 127 * (j - 1)
    BY <1>6, <2>1
  <2>3. CASE j = l + 1
    BY <1>4, <1>5, <1>7, <2>2, <2>3
  <2>4. CASE j # l + 1
    <3>1. t[j] = IF d < 0 THEN -127 ELSE 127
      BY <1>3, <1>5, <2>4
    <3>2. UpToStride(d, j) = IF d < 0 THEN -(127 * j) ELSE 127 * j
      BY <1>6, <2>4
    <3> QED
      BY <2>2, <3>1, <3>2
  <2> QED
    BY <2>3, <2>4
<1>10. (l + 1) - 1 = l
  BY <1>2
<1> QED
  BY <1>3, <1>4, <1>5, <1>7, <1>8, <1>9, <1>10 DEF StridesSay, s, t

(* A byte that stands for a number with a sign. *)
LEMMA SignedByte ==
  ASSUME NEW x \in -127..127
  PROVE  /\ L!Byte(x) \in 0..255 /\ L!Byte(x) # 128
         /\ L!Signed(L!Byte(x)) = x
  BY DEF L!Byte, L!Signed

(* The other bytes: -128, which 3.10 has for no line, and lengths.         *)
LEMMA OtherBytes ==
  /\ L!Byte(-128) = 128
  /\ \A x \in 0..255 : L!Byte(x) = x
<1>1. PICK y \in Int, q \in Int : y = -128 /\ y = 256 * q + 128
  <2>1. -128 \in Int /\ -1 \in Int /\ -128 = 256 * (-1) + 128
    OBVIOUS
  <2> QED
    BY <2>1
<1>2. y % 256 = 128
  <2>1. PICK m \in Nat : m = 256 /\ m > 0
    OBVIOUS
  <2>2. PICK s \in Int, r \in 0..(m - 1) : s = y \div m /\ r = y % m /\ y = m * s + r
    BY <2>1, Divided
  <2>3. r = 128
    BY <1>1, <2>1, <2>2
  <2> QED
    BY <2>1, <2>2, <2>3
<1>3. L!Byte(y) = 128
  BY <1>2 DEF L!Byte
<1>4. L!Byte(-128) = 128
  BY <1>1, <1>3
<1> QED
  BY <1>4 DEF L!Byte

(* The recursion of the compiler's varints, unfolded once.                 *)
LEMMA VarintIs ==
  ASSUME NEW n \in Nat
  PROVE  L!Varint[n] = IF n < 64 THEN <<n>> ELSE <<64 + (n % 64)>> \o L!Varint[n \div 64]
<1> DEFINE V == Seq(Nat)
           base == [k \in 0..63 |-> <<k>>]
           d == [k \in Nat |-> IF k < 64 THEN 0 ELSE k \div 64]
           F == [q \in Nat \X V |-> <<64 + (q[1] % 64)>> \o q[2]]
           Is(f) == f = [k \in Nat |-> IF k < 64 THEN <<k>>
                                       ELSE <<64 + (k % 64)>> \o f[k \div 64]]
<1>1. \A k \in Nat : k \in 0..63 => base[k] \in V
  <2>1. \A k \in Nat : <<k>> \in V
    OBVIOUS
  <2> QED
    BY <2>1
<1>2. ASSUME NEW k \in Nat
      PROVE  k % 64 \in Nat /\ (k >= 64 => k \div 64 \in Nat /\ k \div 64 < k)
  OBVIOUS
<1>3. Descends(d, 0..63)
  <2>1. ASSUME NEW k \in Nat, k \notin 0..63 PROVE d[k] \in Nat /\ d[k] < k
    <3>1. d[k] = k \div 64 /\ k >= 64
      BY <2>1
    <3> HIDE DEF d
    <3> QED
      BY <1>2, <3>1
  <2> QED
    BY <2>1 DEF Descends
<1>4. ASSUME NEW k \in Nat, NEW v \in V
      PROVE  F[<<k, v>>] \in V /\ F[<<k, v>>] = <<64 + (k % 64)>> \o v
  <2>1. PICK x \in Nat : x = 64 + (k % 64)
    BY <1>2
  <2>2. <<x>> \o v \in V
    BY <2>1
  <2>3. F[<<k, v>>] = <<64 + (k % 64)>> \o v
    OBVIOUS
  <2> HIDE DEF F, V
  <2> QED
    BY <2>1, <2>2, <2>3
<1> HIDE DEF V, F
<1>5. \A k \in Nat, v \in V : k \notin 0..63 => F[<<k, v>>] \in V
  BY <1>4
<1>6. PICK f \in [Nat -> V] : Recurses(f, Nat, 0..63, base, d, F)
  <2> HIDE DEF base, d
  <2> QED
    BY <1>1, <1>3, <1>5, RecursionExists
<1>7. Is(f)
  <2>1. ASSUME NEW k \in Nat
        PROVE  f[k] = IF k < 64 THEN <<k>> ELSE <<64 + (k % 64)>> \o f[k \div 64]
    <3>1. RecursesAt(f, k, 0..63, base, d, F)
      BY <1>6 DEF Recurses
    <3>2. CASE k < 64
      BY <3>1, <3>2 DEF RecursesAt
    <3>3. CASE k >= 64
      <4>1. d[k] = k \div 64 /\ k \notin 0..63 /\ ~(k < 64)
        BY <3>3
      <4>2. f[k] = F[<<k, f[d[k]]>>]
        BY <3>1, <4>1 DEF RecursesAt
      <4>3. f[k \div 64] \in V
        BY <1>2, <1>6, <3>3
      <4>4. F[<<k, f[k \div 64]>>] = <<64 + (k % 64)>> \o f[k \div 64]
        BY <1>4, <4>3
      <4> HIDE DEF d
      <4> QED
        BY <4>1, <4>2, <4>4
    <3> QED
      BY <3>2, <3>3
  <2> QED
    BY <1>6, <2>1
<1>8. L!Varint = CHOOSE g : Is(g)
  BY DEF L!Varint
<1>9. Is(L!Varint)
  <2> HIDE DEF Is
  <2> QED
    BY <1>7, <1>8
<1> QED
  BY <1>9

(* The bytes s of n: all but the last say that there are more. *)
VarintSays(s, n) ==
  /\ s \in Seq(0..127) /\ Len(s) \in Nat \ {0}
  /\ s[Len(s)] < 64 /\ \A j \in 1..(Len(s) - 1) : s[j] >= 64
  /\ Positions(64, s, 0) = n

(* No digits stand for what is above them.                                 *)
LEMMA NoPositions ==
  ASSUME NEW m \in Nat, m > 0, NEW v \in Nat
  PROVE  Positions(m, <<>>, v) = v
<1>1. <<>> \in Seq(Nat)
  OBVIOUS
<1> QED
  BY <1>1, PositionsLast

(* A number below 64 is one byte that says there are no more.              *)
LEMMA OneByte ==
  ASSUME NEW n \in 0..63
  PROVE  VarintSays(<<n>>, n)
<1>1. <<n>> \in Seq(0..127) /\ Len(<<n>>) = 1 /\ <<n>>[1] = n
  OBVIOUS
<1>2. Positions(64, <<n>>, 0) = n
  <2>1. PICK e \in Seq(Nat) : e = <<>>
    <3>1. <<>> \in Seq(Nat)
      OBVIOUS
    <3> QED
      BY <3>1
  <2>2. Lowered(64, n, e, 0) /\ Positions(64, e, 0) = 0
    <3>1. PICK m \in Nat, v \in Nat, x \in Nat : m = 64 /\ m > 0 /\ v = 0 /\ x = n
      OBVIOUS
    <3>2. Lowered(m, x, e, v)
      BY <3>1, PositionsFirst
    <3>3. Positions(m, e, v) = v
      BY <2>1, <3>1, NoPositions
    <3> QED
      BY <3>1, <3>2, <3>3
  <2>3. <<n>> \o e = <<n>>
    BY <2>1
  <2>4. (n % 64) + 64 * 0 = n
    OBVIOUS
  <2> QED
    BY <2>2, <2>3, <2>4 DEF Lowered
<1> QED
  BY <1>1, <1>2 DEF VarintSays

(* A number from 64 on is its lowest six bits, with the bit that says      *)
(* there are more, and the bytes of the rest.                              *)
LEMMA MoreBytes ==
  ASSUME NEW n \in Nat, n >= 64, NEW s, VarintSays(s, n \div 64)
  PROVE  VarintSays(<<64 + (n % 64)>> \o s, n)
<1>1. PICK q \in Nat, r \in 0..63 : q = n \div 64 /\ r = n % 64 /\ n = 64 * q + r
  OBVIOUS
<1>2. PICK l \in Nat \ {0} : l = Len(s)
  BY DEF VarintSays
<1> DEFINE x == 64 + r
           t == <<x>> \o s
<1>3. s \in Seq(0..127) /\ s[l] < 64 /\ (\A j \in 1..(l - 1) : s[j] >= 64)
      /\ Positions(64, s, 0) = q
  BY <1>1, <1>2 DEF VarintSays
<1>4. t \in Seq(0..127) /\ Len(t) = l + 1 /\ t[1] = x /\ \A j \in 1..l : t[j + 1] = s[j]
  BY <1>2, <1>3
<1>5. x % 64 = r /\ x \in 64..127
  OBVIOUS
<1> HIDE DEF t
<1>6. Positions(64, t, 0) = n
  <2>1. s \in Seq(Nat)
    <3>1. 0..127 \subseteq Nat
      OBVIOUS
    <3> QED
      BY <1>3, <3>1, Widened
  <2>2. Lowered(64, x, s, 0)
    <3>1. PICK m \in Nat, v \in Nat, y \in Nat : m = 64 /\ m > 0 /\ v = 0 /\ y = x
      BY <1>5
    <3>2. Lowered(m, y, s, v)
      BY <2>1, <3>1, PositionsFirst
    <3> QED
      BY <3>1, <3>2
  <2>3. Positions(64, t, 0) = r + 64 * q
    BY <1>3, <1>5, <2>2 DEF Lowered, t
  <2> QED
    BY <1>1, <2>3
<1>7. t[l + 1] < 64
  BY <1>2, <1>3, <1>4
<1>8. ASSUME NEW j \in 1..l PROVE t[j] >= 64
  <2>1. CASE j = 1
    BY <1>4, <1>5, <2>1
  <2>2. CASE j # 1
    <3>1. PICK k \in 1..(l - 1) : j = k + 1 /\ k \in 1..l
      <4>1. j - 1 \in 1..(l - 1) /\ j = (j - 1) + 1 /\ j - 1 \in 1..l
        BY <1>2, <2>2
      <4> QED
        BY <4>1
    <3> QED
      BY <1>3, <1>4, <3>1
  <2> QED
    BY <2>1, <2>2
<1>9. VarintSays(t, n)
  <2>1. Len(t) \in Nat \ {0} /\ Len(t) - 1 = l
    BY <1>2, <1>4
  <2> QED
    BY <1>4, <1>6, <1>7, <1>8, <2>1 DEF VarintSays
<1> QED
  BY <1>1, <1>9 DEF t

(* So every number has such bytes.                                         *)
LEMMA VarintAre ==
  ASSUME NEW n \in Nat
  PROVE  VarintSays(L!Varint[n], n)
<1> DEFINE E == {k \in Nat : VarintSays(L!Varint[k], k)}
<1>1. ASSUME NEW k \in Nat, \A m \in Nat : m < k => m \in E PROVE k \in E
  <2>1. CASE k < 64
    <3> HIDE DEF E
    <3>1. L!Varint[k] = <<k>> /\ k \in 0..63
      <4>1. L!Varint[k] = <<k>>
        BY <2>1, VarintIs
      <4>2. k \in 0..63
        BY <2>1
      <4> QED
        BY <4>1, <4>2
    <3>2. VarintSays(<<k>>, k)
      BY <3>1, OneByte, Zenon
    <3>3. VarintSays(L!Varint[k], k)
      BY <3>1, <3>2
    <3> QED
      BY <3>3 DEF E
  <2>2. CASE k >= 64
    <3>1. k \div 64 \in Nat /\ k \div 64 < k
      BY <2>2
    <3>2. VarintSays(L!Varint[k \div 64], k \div 64)
      BY <1>1, <3>1
    <3>3. L!Varint[k] = <<64 + (k % 64)>> \o L!Varint[k \div 64]
      <4>1. ~(k < 64)
        BY <2>2
      <4> QED
        BY <4>1, VarintIs
    <3> HIDE DEF E
    <3>4. VarintSays(L!Varint[k], k)
      BY <2>2, <3>2, <3>3, MoreBytes
    <3> QED
      BY <3>4 DEF E
  <2> QED
    BY <2>1, <2>2
<1> HIDE DEF E
<1>2. Nat \subseteq E
  BY <1>1, StrongInduction
<1> QED
  BY <1>2 DEF E

(* Where _read_varint stops.                                               *)
StopsAt(k, l) ==
  /\ l \in (k + 1)..(Len(table) - 1)
  /\ \A j \in (k + 1)..(l - 1) : L!Continues(j)
  /\ ~L!Continues(l) \/ l = Len(table) - 1

(* The byte that it stops at, and those that it has read.                  *)
LastRead(k) ==
  CHOOSE l \in (k + 1)..(Len(table) - 1) :
    /\ \A j \in (k + 1)..(l - 1) : L!Continues(j)
    /\ ~L!Continues(l) \/ l = Len(table) - 1

ReadFrom(k, l) == [j \in 1..(l - k) |-> table[k + j + 1]]

(* _read_varint (frame.cc:8-23): the value of the bytes from the one after *)
(* k to the one where it stops.                                            *)
LEMMA ReadVarintIs ==
  ASSUME NEW k
  PROVE  L!ReadVarint(k) =
           IF k >= Len(table) - 1 THEN [value |-> 0, at |-> k]
           ELSE [value |-> Positions(64, ReadFrom(k, LastRead(k)), 0), at |-> LastRead(k)]
<1>1. \A s : L!FoldRight(LAMBDA x, v : (x % 64) + 64 * v, s, 0) = Positions(64, s, 0)
  BY DEF L!FoldRight, L!MapThenFoldSet, L!Min, Positions, FoldRight, MapThenFoldSet, Min
<1>2. \A l : [j \in 1..(l - k) |-> L!At(k + j)] = ReadFrom(k, l)
  BY DEF L!At, ReadFrom
<1> QED
  BY <1>1, <1>2 DEF L!ReadVarint, L!len, LastRead, ReadFrom

(* It stops at a byte without the bit, or at the last one of the table.    *)
LEMMA StopsSomewhere ==
  ASSUME NEW k \in Nat, table \in Seq(0..255), k < Len(table) - 1
  PROVE  StopsAt(k, LastRead(k))
<1> DEFINE A == {l \in Nat : l >= k + 1 /\ l < Len(table)
                              /\ (~L!Continues(l) \/ l = Len(table) - 1)}
<1>0. PICK n \in Nat : n = Len(table) /\ k < n - 1
  OBVIOUS
<1>1. n - 1 \in A
  BY <1>0
<1>2. PICK l \in A : \A m \in A : l <= m
  <2>1. A \in SUBSET Nat /\ A # {}
    BY <1>1
  <2> HIDE DEF A
  <2> QED
    BY <2>1, Least
<1>3. ASSUME NEW j \in (k + 1)..(l - 1) PROVE L!Continues(j)
  <2>1. j \notin A
    <3>1. l \in Nat
      OBVIOUS
    <3>2. j < l
      BY <3>1
    <3> HIDE DEF A
    <3> QED
      BY <1>2, <3>1, <3>2
  <2>2. j \in Nat /\ j >= k + 1 /\ j < n
    BY <1>0
  <2> QED
    BY <1>0, <2>1, <2>2
<1>4. StopsAt(k, l)
  <2>1. l \in (k + 1)..(n - 1)
    BY <1>0
  <2>2. ~L!Continues(l) \/ l = n - 1
    BY <1>0
  <2> HIDE DEF A
  <2> QED
    BY <1>0, <1>3, <2>1, <2>2 DEF StopsAt
<1> QED
  BY <1>4 DEF LastRead, StopsAt

(* A function on the first numbers is a sequence.                          *)
LEMMA IsSequence ==
  ASSUME NEW S, NEW w \in Nat, NEW h \in [1..w -> S]
  PROVE  h \in Seq(S) /\ Len(h) = w
  OBVIOUS

(* What is in a sequence.                                                  *)
LEMMA ElementsOf ==
  ASSUME NEW S, NEW s \in Seq(S)
  PROVE  \A j \in 1..Len(s) : s[j] \in S
  OBVIOUS

(* Bytes are numbers.                                                      *)
LEMMA BytesAreNumbers ==
  ASSUME NEW t \in Seq(0..255)
  PROVE  t \in Seq(Nat) /\ \A j \in 1..Len(t) : t[j] \in Nat
<1>1. \A x : x \in 0..255 => x \in Nat
  OBVIOUS
<1>2. 0..255 \subseteq Nat
  BY <1>1
<1>3. t \in Seq(Nat)
  BY ZenonT(60), <1>2, Widened
<1> QED
  BY <1>3, ElementsOf

(* _read_varint gives a number, and leaves i in the table, whatever the    *)
(* bytes are.                                                              *)
LEMMA ReadVarintTyping ==
  ASSUME NEW k \in Nat, table \in Seq(0..255), k < Len(table)
  PROVE  L!ReadVarint(k).value \in Nat /\ L!ReadVarint(k).at \in k..(Len(table) - 1)
<1>1. CASE k >= Len(table) - 1
  BY <1>1, ReadVarintIs
<1>2. CASE ~(k >= Len(table) - 1)
  <2>0. PICK n \in Nat : n = Len(table) /\ k < n - 1
    BY <1>2
  <2>1. PICK l \in Nat : l = LastRead(k) /\ l >= k + 1 /\ l < n
    <3>1. LastRead(k) \in (k + 1)..(n - 1)
      BY <2>0, StopsSomewhere DEF StopsAt
    <3> QED
      BY <2>0, <3>1
  <2>2. ReadFrom(k, l) \in Seq(Nat)
    <3>1. PICK w \in Nat : w = l - k /\ k + w + 1 <= n
      <4>1. l - k \in Nat /\ k + (l - k) + 1 <= n
        BY <2>0, <2>1
      <4> QED
        BY <4>1
    <3>2. \A j \in 1..w : k + j + 1 \in 1..n
      <4>1. k + w + 1 <= n
        BY <3>1
      <4>2. n \in Nat
        BY <2>0
      <4> QED
        BY <4>1, <4>2
    <3>3. \A j \in 1..n : table[j] \in Nat
      BY <2>0, BytesAreNumbers
    <3>4. \A j \in 1..w : table[k + j + 1] \in Nat
      BY <3>2, <3>3
    <3>5. \A j \in 1..(l - k) : table[k + j + 1] \in Nat
      BY <3>1, <3>4, Zenon
    <3>6. ReadFrom(k, l) \in [1..(l - k) -> Nat]
      BY <3>5, Zenon DEF ReadFrom
    <3>7. ReadFrom(k, l) \in [1..w -> Nat]
      BY <3>1, <3>6, Zenon
    <3> QED
      BY <3>1, <3>7, IsSequence, Zenon
  <2>3. Positions(64, ReadFrom(k, l), 0) \in Nat
    <3>1. PICK m \in Nat, v \in Nat : m = 64 /\ m > 0 /\ v = 0
      OBVIOUS
    <3>2. Positions(m, ReadFrom(k, l), v) \in Nat
      BY <2>2, <3>1, PositionsLast, Zenon
    <3> QED
      BY <3>1, <3>2, Zenon
  <2> QED
    BY <1>2, <2>0, <2>1, <2>3, ReadVarintIs
<1> QED
  BY <1>1, <1>2

(* s is in the table from its k-th byte on, the first being the 0th.       *)
Holds(k, s) ==
  /\ k + Len(s) <= Len(table)
  /\ \A m \in 1..Len(s) : table[k + m] = s[m]

(* Where the bytes of n are, _read_varint reads n and goes behind them.    *)
LEMMA VarintIsRead ==
  ASSUME NEW k \in Nat, table \in Seq(0..255), NEW s, NEW n \in Nat, VarintSays(s, n),
         Holds(k + 1, s)
  PROVE  L!ReadVarint(k) = [value |-> n, at |-> k + Len(s)]
<1>1. PICK len \in Nat, c \in Nat : len = Len(table) /\ c = Len(s)
  BY DEF VarintSays
<1>a. c > 0 /\ k + 1 + c <= len
  BY <1>1 DEF VarintSays, Holds
<1>b. \A m \in 1..c : table[k + 1 + m] = s[m]
  BY <1>1 DEF Holds
<1>2. \A m \in 1..c : s[m] \in 0..127
  BY <1>1 DEF VarintSays
<1>3. s[c] < 64 /\ \A m \in 1..(c - 1) : s[m] >= 64
  BY <1>1 DEF VarintSays
<1>4. ASSUME NEW m \in 1..c PROVE L!Continues(k + m) <=> m < c
  <2>1. L!At(k + m) = s[m]
    <3>1. k + m + 1 = k + 1 + m
      OBVIOUS
    <3>2. table[k + 1 + m] = s[m]
      BY <1>b
    <3> QED
      BY <3>1, <3>2 DEF L!At
  <2>2. ASSUME NEW x \in 0..127 PROVE (x \div 64) % 2 = 1 <=> x >= 64
    <3>1. CASE x < 64
      <4>1. x \div 64 = 0
        BY <3>1
      <4> QED
        BY <3>1, <4>1
    <3>2. CASE x >= 64
      <4>1. x \div 64 = 1
        BY <3>2
      <4> QED
        BY <3>2, <4>1
    <3> QED
      BY <3>1, <3>2
  <2>3. PICK x \in 0..127 : x = s[m]
    BY <1>2
  <2>4. x >= 64 <=> m < c
    <3>1. CASE m = c
      BY <1>3, <2>3, <3>1
    <3>2. CASE m # c
      <4>1. m \in 1..(c - 1) /\ m < c
        BY <3>2
      <4>2. s[m] >= 64
        BY <1>3, <4>1
      <4> QED
        BY <2>3, <4>1, <4>2
    <3> QED
      BY <3>1, <3>2
  <2> QED
    BY <2>1, <2>2, <2>3, <2>4 DEF L!Continues
<1>5. PICK l \in Nat : l = LastRead(k) /\ StopsAt(k, l)
  <2>1. k < Len(table) - 1
    BY <1>1, <1>a
  <2>2. StopsAt(k, LastRead(k))
    BY <2>1, StopsSomewhere
  <2>3. LastRead(k) \in (k + 1)..(len - 1)
    BY <1>1, <2>2 DEF StopsAt
  <2> QED
    BY <2>2, <2>3
<1>c. /\ l >= k + 1 /\ l <= len - 1
      /\ \A j \in (k + 1)..(l - 1) : L!Continues(j)
      /\ L!Continues(l) => l = len - 1
  BY <1>1, <1>5 DEF StopsAt
<1>6. l = k + c
  <2>1. ASSUME l < k + c PROVE FALSE
    <3>1. PICK m \in 1..c : m = l - k
      <4>1. l - k \in 1..c
        BY <1>c, <2>1
      <4> QED
        BY <4>1
    <3>2. l = k + m /\ m < c
      BY <2>1, <3>1
    <3>3. L!Continues(k + m)
      BY <1>4, <3>2
    <3>4. l = len - 1
      BY <1>c, <3>2, <3>3
    <3> QED
      BY <1>a, <2>1, <3>4
  <2>2. ASSUME l > k + c PROVE FALSE
    <3>1. k + c \in (k + 1)..(l - 1)
      BY <1>a, <2>2
    <3>2. L!Continues(k + c)
      BY <1>c, <3>1
    <3>3. c \in 1..c /\ ~(c < c)
      BY <1>a
    <3> QED
      BY <1>4, <3>2, <3>3
  <2>3. l < k + c \/ l > k + c \/ l = k + c
    OBVIOUS
  <2> QED
    BY <2>1, <2>2, <2>3
<1>7. ReadFrom(k, l) = s
  <2>1. l - k = c
    BY <1>6
  <2>2. s \in Seq(0..127)
    BY DEF VarintSays
  <2>3. s = [j \in 1..c |-> s[j]]
    BY <1>1, <2>2
  <2>4. ASSUME NEW j \in 1..c PROVE table[k + j + 1] = s[j]
    <3>1. k + j + 1 = k + 1 + j
      OBVIOUS
    <3> QED
      BY <1>b, <3>1
  <2>5. ReadFrom(k, l) = [j \in 1..c |-> table[k + j + 1]]
    BY <2>1 DEF ReadFrom
  <2> QED
    BY <2>3, <2>4, <2>5
<1>8. ~(k >= Len(table) - 1)
  BY <1>1, <1>a
<1>9. Positions(64, s, 0) = n
  BY DEF VarintSays
<1> QED
  BY <1>1, <1>5, <1>6, <1>7, <1>8, <1>9, ReadVarintIs

(* Elements of two sequences, one after the other.                         *)
LEMMA ConcatAt ==
  ASSUME NEW S, NEW s \in Seq(S), NEW t \in Seq(S)
  PROVE  /\ Len(s) \in Nat /\ Len(t) \in Nat /\ Len(s \o t) = Len(s) + Len(t)
         /\ \A m \in 1..Len(s) : (s \o t)[m] = s[m]
         /\ \A m \in 1..Len(t) : (s \o t)[Len(s) + m] = t[m]
  OBVIOUS

(* Sequences of at most two elements.                                      *)
LEMMA FewOf ==
  ASSUME NEW S, NEW x \in S, NEW y \in S
  PROVE  <<>> \in Seq(S) /\ <<x>> \in Seq(S) /\ <<x, y>> \in Seq(S) /\ <<x>> \o <<y>> = <<x, y>>
         /\ Len(<<x>>) = 1 /\ Len(<<x, y>>) = 2
<1>1. <<>> \in Seq(S) /\ <<x>> \in Seq(S) /\ <<y>> \in Seq(S) /\ <<x, y>> \in Seq(S)
      /\ Len(<<x>>) = 1 /\ Len(<<x, y>>) = 2
  OBVIOUS
<1>2. <<x>> \o <<y>> = <<x, y>>
  <2> DEFINE t == <<x>> \o <<y>>
             u == <<x, y>>
  <2>1. t \in Seq(S) /\ Len(t) = 2 /\ t[1] = x /\ t[2] = y
    OBVIOUS
  <2>2. u \in Seq(S) /\ Len(u) = 2 /\ u[1] = x /\ u[2] = y
    OBVIOUS
  <2> HIDE DEF t, u
  <2>3. t = u
    <3>1. \A i \in 1..2 : t[i] = u[i]
      BY <2>1, <2>2
    <3> QED
      BY <2>1, <2>2, <3>1
  <2> QED
    BY <2>3 DEF t, u
<1> QED
  BY <1>1, <1>2

(* What the table has of two sequences, it has of each.                    *)
LEMMA HoldsConcat ==
  ASSUME NEW k \in Nat, NEW S, NEW s \in Seq(S), NEW t \in Seq(S), Len(table) \in Nat,
         Holds(k, s \o t)
  PROVE  Holds(k, s) /\ Holds(k + Len(s), t)
<1>1. PICK a \in Nat, b \in Nat, n \in Nat : a = Len(s) /\ b = Len(t) /\ n = Len(table)
  OBVIOUS
<1>2. /\ Len(s \o t) = a + b
      /\ \A m \in 1..a : (s \o t)[m] = s[m]
      /\ \A m \in 1..b : (s \o t)[a + m] = t[m]
  BY <1>1, ConcatAt
<1>3. k + (a + b) <= n /\ \A m \in 1..(a + b) : table[k + m] = (s \o t)[m]
  BY <1>1, <1>2 DEF Holds
<1> HIDE DEF Holds
<1>4. Holds(k, s)
  <2>1. k + a <= n
    BY <1>3
  <2>2. ASSUME NEW m \in 1..a PROVE table[k + m] = s[m]
    <3>1. m \in 1..(a + b)
      OBVIOUS
    <3> QED
      BY <1>2, <1>3, <3>1
  <2> QED
    BY <1>1, <2>1, <2>2 DEF Holds
<1>5. Holds(k + a, t)
  <2>1. (k + a) + b <= n
    BY <1>3
  <2>2. ASSUME NEW m \in 1..b PROVE table[(k + a) + m] = t[m]
    <3>1. a + m \in 1..(a + b) /\ (k + a) + m = k + (a + m)
      OBVIOUS
    <3> QED
      BY <1>2, <1>3, <3>1
  <2> QED
    BY <1>1, <2>1, <2>2 DEF Holds
<1> QED
  BY <1>1, <1>4, <1>5

(* The line of the entry goes with its code. *)
Coded(d, c) ==
  \/ c = 15
  \/ c \in 13..14 /\ d \in Int
  \/ c \in 10..12 /\ d = c - 10
  \/ c \in 0..9 /\ d = 0

(* What an entry adds to the line.                                         *)
Gain(d, c) == IF c = 15 THEN 0 ELSE d

(* A number with its sign in the lowest bit.                               *)
Zigzag(d) == IF d < 0 THEN 2 * (-d) + 1 ELSE 2 * d

(* A number with a sign is the varint of its size and its lowest bit;      *)
(* _read_signed_varint gets it back.                                       *)
LEMMA SignedAre ==
  ASSUME NEW d \in Int
  PROVE  /\ VarintSays(L!SignedVarint(d), Zigzag(d))
         /\ Zigzag(d) \in Nat
         /\ L!OfSigned(Zigzag(d)) = d
<1>1. Zigzag(d) \in Nat /\ L!SignedVarint(d) = L!Varint[Zigzag(d)]
  BY DEF Zigzag, L!SignedVarint
<1>2. VarintSays(L!SignedVarint(d), Zigzag(d))
  BY <1>1, VarintAre
<1>3. L!OfSigned(Zigzag(d)) = d
  BY DEF L!OfSigned, Zigzag
<1> QED
  BY <1>1, <1>2, <1>3

(* The columns that the long form has here.                                *)
LEMMA ColumnsAre ==
  /\ VarintSays(<<1>>, 1) /\ VarintSays(<<5>>, 5)
  /\ VarintSays(<<70, 1>>, 70)
<1>1. VarintSays(<<1>>, 1) /\ VarintSays(<<5>>, 5)
  BY OneByte
<1>2. PICK n \in Nat : n = 70 /\ n >= 64 /\ n \div 64 = 1 /\ 64 + (n % 64) = 70
  OBVIOUS
<1>3. VarintSays(<<64 + (n % 64)>> \o <<1>>, n)
  BY <1>1, <1>2, MoreBytes
<1>4. <<70>> \o <<1>> = <<70, 1>>
  <2>1. 70 \in Nat /\ 1 \in Nat
    OBVIOUS
  <2> QED
    BY <2>1, FewOf
<1> QED
  BY ZenonT(60), <1>1, <1>2, <1>3, <1>4

(* What follows the first byte of an entry.                                *)
Rest(d, c) ==
  CASE c = 15 -> <<>>
    [] c = 14 -> L!SignedVarint(d) \o <<1, 70, 1, 5>>
    [] c = 13 -> L!SignedVarint(d)
    [] c \in 10..12 -> <<200, 255>>
    [] c <= 9 -> <<255>>

(* An entry is one byte, and what its code asks for.                       *)
LEMMA EntryIs ==
  ASSUME NEW u \in 1..8, NEW c \in 0..15, NEW d, Coded(d, c)
  PROVE  /\ L!Entry(u, d, c) = <<128 + 8 * c + u - 1>> \o Rest(d, c)
         /\ Rest(d, c) \in Seq(0..255)
         /\ L!Entry(u, d, c) \in Seq(0..255) /\ Len(L!Entry(u, d, c)) = 1 + Len(Rest(d, c))
<1>1. L!Entry(u, d, c) = <<128 + 8 * c + u - 1>> \o Rest(d, c)
  BY DEF L!Entry, Rest
<1>2. 128 + 8 * c + u - 1 \in 0..255
  OBVIOUS
<1>3. c \in 13..14 => d \in Int /\ L!SignedVarint(d) \in Seq(0..255)
  <2> SUFFICES ASSUME c \in 13..14 PROVE d \in Int /\ L!SignedVarint(d) \in Seq(0..255)
    OBVIOUS
  <2>1. d \in Int
    BY DEF Coded
  <2>2. L!SignedVarint(d) \in Seq(0..127)
    BY <2>1, SignedAre DEF VarintSays
  <2>3. \A x : x \in 0..127 => x \in 0..255
    OBVIOUS
  <2> QED
    BY <2>1, <2>2, <2>3, Widened
<1>4. Rest(d, c) \in Seq(0..255)
  <2>1. CASE c = 15
    BY <2>1 DEF Rest
  <2>2. CASE c = 14
    <3>1. PICK s \in Seq(0..255) : s = L!SignedVarint(d)
      BY <1>3, <2>2
    <3>2. s \o <<1, 70, 1, 5>> \in Seq(0..255)
      <4>1. <<1, 70, 1, 5>> \in Seq(0..255)
        OBVIOUS
      <4>2. \A S : \A a, b \in Seq(S) : a \o b \in Seq(S)
        OBVIOUS
      <4> QED
        BY <4>1, <4>2
    <3> QED
      BY <2>2, <3>1, <3>2 DEF Rest
  <2>3. CASE c = 13
    BY <1>3, <2>3 DEF Rest
  <2>4. CASE c \in 10..12
    <3>1. Rest(d, c) = <<200, 255>>
      BY <2>4 DEF Rest
    <3>2. 200 \in 0..255 /\ 255 \in 0..255
      OBVIOUS
    <3> QED
      BY <3>1, <3>2, FewOf
  <2>5. CASE c \in 0..9
    <3>1. Rest(d, c) = <<255>>
      BY <2>5 DEF Rest
    <3>2. 255 \in 0..255
      OBVIOUS
    <3> QED
      BY <3>1, <3>2, FewOf
  <2> QED
    BY <2>1, <2>2, <2>3, <2>4, <2>5
<1>5. \A S : \A x \in S, t \in Seq(S) : <<x>> \o t \in Seq(S) /\ Len(<<x>> \o t) = 1 + Len(t)
  OBVIOUS
<1> QED
  BY <1>1, <1>2, <1>4, <1>5

(* The first byte of an entry.                                             *)
HeadOf(u, c) == 128 + 8 * c + u - 1

(* The first byte has the code and the length.                             *)
LEMMA HeadIs ==
  ASSUME NEW u \in 1..8, NEW c \in 0..15
  PROVE  /\ HeadOf(u, c) \in 0..255
         /\ (HeadOf(u, c) \div 8) % 16 = c /\ (HeadOf(u, c) % 8) + 1 = u
<1>1. HeadOf(u, c) \in 0..255
  BY DEF HeadOf
<1>2. PICK h \in Nat : h = HeadOf(u, c) /\ h = 8 * (16 + c) + (u - 1)
  BY <1>1 DEF HeadOf
<1>3. h \div 8 = 16 + c /\ h % 8 = u - 1
  BY <1>2
<1>4. (16 + c) % 16 = c
  OBVIOUS
<1> QED
  BY <1>1, <1>2, <1>3, <1>4

(* The decoding of an entry that is in the table, from the k-th byte on.   *)
LongFormIs(k, d, z) ==
  /\ L!ReadVarint(k) = [value |-> Zigzag(d), at |-> k + Len(z)]
  /\ L!ReadVarint(k + Len(z)) = [value |-> 1, at |-> k + Len(z) + 1]
  /\ L!ReadVarint(k + Len(z) + 1) = [value |-> 70, at |-> k + Len(z) + 3]
  /\ L!ReadVarint(k + Len(z) + 3) = [value |-> 5, at |-> k + Len(z) + 4]

(* One byte of the table.                                                  *)
LEMMA HoldsOne ==
  ASSUME NEW p \in Nat, NEW x, p + 1 <= Len(table), table[p + 1] = x
  PROVE  Holds(p, <<x>>)
  BY DEF Holds

(* Two bytes of the table.                                                 *)
LEMMA HoldsTwo ==
  ASSUME NEW p \in Nat, NEW x, NEW y, p + 2 <= Len(table),
         table[p + 1] = x, table[p + 2] = y
  PROVE  Holds(p, <<x, y>>)
  BY DEF Holds

(* A sequence of four elements.                                            *)
LEMMA FourOf ==
  ASSUME NEW S, NEW x \in S, NEW y \in S, NEW u \in S, NEW v \in S
  PROVE  LET t == <<x, y, u, v>>
         IN t \in Seq(S) /\ Len(t) = 4 /\ t[1] = x /\ t[2] = y /\ t[3] = u /\ t[4] = v
  OBVIOUS

(* One byte is one byte long,                                              *)
LEMMA SingleIs == Len(<<1>>) = 1 /\ Len(<<5>>) = 1
  OBVIOUS

(* and two are two.                                                        *)
LEMMA DoubleIs == Len(<<70, 1>>) = 2
  OBVIOUS

(* The four varints of the long form are read one behind the other.        *)
LEMMA LongFormRead ==
  ASSUME NEW k \in Nat, table \in Seq(0..255), NEW d \in Int,
         Holds(k + 1, L!SignedVarint(d) \o <<1, 70, 1, 5>>)
  PROVE  LongFormIs(k, d, L!SignedVarint(d))
<1>1. PICK z \in Seq(0..127), l \in Nat, n \in Nat :
        z = L!SignedVarint(d) /\ l = Len(z) /\ n = Len(table)
  <2>1. L!SignedVarint(d) \in Seq(0..127)
    BY SignedAre DEF VarintSays
  <2>2. Len(table) \in Nat
    OBVIOUS
  <2>3. \A S : \A s \in Seq(S) : Len(s) \in Nat
    OBVIOUS
  <2> QED
    BY <2>1, <2>2, <2>3
<1> DEFINE tail == <<1, 70, 1, 5>>
<1>2. tail \in Seq(0..127) /\ Len(tail) = 4
      /\ tail[1] = 1 /\ tail[2] = 70 /\ tail[3] = 1 /\ tail[4] = 5
  <2>1. 1 \in 0..127 /\ 70 \in 0..127 /\ 5 \in 0..127
    OBVIOUS
  <2> QED
    BY <2>1, FourOf
<1> HIDE DEF tail
<1>3. Holds(k + 1, z) /\ Holds(k + 1 + l, tail)
  <2>1. PICK p \in Nat : p = k + 1
    OBVIOUS
  <2>2. PICK S : S = 0..127 /\ z \in Seq(S) /\ tail \in Seq(S)
    BY <1>2
  <2>3. Holds(p, z \o tail)
    BY <1>1, <2>1 DEF tail
  <2>4. Len(table) \in Nat
    BY <1>1
  <2>5. Holds(p, z) /\ Holds(p + Len(z), tail)
    BY <2>2, <2>3, <2>4, HoldsConcat, ZenonT(60)
  <2> QED
    BY <1>1, <2>1, <2>5
<1>4. /\ k + l + 5 <= n
      /\ table[k + l + 2] = 1 /\ table[k + l + 3] = 70
      /\ table[k + l + 4] = 1 /\ table[k + l + 5] = 5
  <2>1. k + 1 + l + 4 <= n /\ \A m \in 1..4 : table[k + 1 + l + m] = tail[m]
    BY <1>1, <1>2, <1>3 DEF Holds
  <2>2. k + 1 + l + 1 = k + l + 2 /\ k + 1 + l + 2 = k + l + 3
        /\ k + 1 + l + 3 = k + l + 4 /\ k + 1 + l + 4 = k + l + 5
    OBVIOUS
  <2>3. 1 \in 1..4 /\ 2 \in 1..4 /\ 3 \in 1..4 /\ 4 \in 1..4
    OBVIOUS
  <2> QED
    BY <1>2, <2>1, <2>2, <2>3
<1>5. L!ReadVarint(k) = [value |-> Zigzag(d), at |-> k + l]
  BY ZenonT(60), <1>1, <1>3, SignedAre, VarintIsRead
<1>6. L!ReadVarint(k + l) = [value |-> 1, at |-> k + l + 1]
  <2>1. PICK p \in Nat, q \in Nat, e \in Nat, v \in Nat :
          /\ p = k + l /\ q = p + 1 /\ e = p + 1 /\ q + 1 <= n /\ q + 1 = k + l + 2
          /\ v = 1 /\ e = k + l + 1
    BY <1>4
  <2>2. Holds(q, <<1>>)
    BY <1>1, <1>4, <2>1, HoldsOne
  <2>3. PICK s : s = <<1>> /\ VarintSays(s, v) /\ Holds(q, s) /\ e = p + Len(s)
    BY <2>1, <2>2, ColumnsAre, SingleIs
  <2>4. q = p + 1 /\ p \in Nat /\ v \in Nat
    BY <2>1
  <2>5. L!ReadVarint(p) = [value |-> v, at |-> p + Len(s)]
    <3>1. Holds(p + 1, s) /\ VarintSays(s, v)
      BY <2>3, <2>4
    <3> QED
      BY <2>4, <3>1, VarintIsRead
  <2> QED
    BY <2>1, <2>3, <2>5
<1>7. L!ReadVarint(k + l + 1) = [value |-> 70, at |-> k + l + 3]
  <2>1. PICK p \in Nat, q \in Nat, e \in Nat, v \in Nat :
          /\ p = k + l + 1 /\ q = p + 1 /\ e = p + 2 /\ q + 2 <= n /\ q + 1 = k + l + 3
          /\ q + 2 = k + l + 4 /\ v = 70 /\ e = k + l + 3
    BY <1>4
  <2>2. Holds(q, <<70, 1>>)
    BY SMTT(30), <1>1, <1>4, <2>1, HoldsTwo
  <2>3. PICK s : s = <<70, 1>> /\ VarintSays(s, v) /\ Holds(q, s) /\ e = p + Len(s)
    BY <2>1, <2>2, ColumnsAre, DoubleIs
  <2>4. q = p + 1 /\ p \in Nat /\ v \in Nat
    BY <2>1
  <2>5. L!ReadVarint(p) = [value |-> v, at |-> p + Len(s)]
    <3>1. Holds(p + 1, s) /\ VarintSays(s, v)
      BY <2>3, <2>4
    <3> QED
      BY <2>4, <3>1, VarintIsRead
  <2> QED
    BY <2>1, <2>3, <2>5
<1>8. L!ReadVarint(k + l + 3) = [value |-> 5, at |-> k + l + 4]
  <2>1. PICK p \in Nat, q \in Nat, e \in Nat, v \in Nat :
          /\ p = k + l + 3 /\ q = p + 1 /\ e = p + 1 /\ q + 1 <= n /\ q + 1 = k + l + 5
          /\ v = 5 /\ e = k + l + 4
    BY <1>4
  <2>2. Holds(q, <<5>>)
    BY <1>1, <1>4, <2>1, HoldsOne
  <2>3. PICK s : s = <<5>> /\ VarintSays(s, v) /\ Holds(q, s) /\ e = p + Len(s)
    BY <2>1, <2>2, ColumnsAre, SingleIs
  <2>4. q = p + 1 /\ p \in Nat /\ v \in Nat
    BY <2>1
  <2>5. L!ReadVarint(p) = [value |-> v, at |-> p + Len(s)]
    <3>1. Holds(p + 1, s) /\ VarintSays(s, v)
      BY <2>3, <2>4
    <3> QED
      BY <2>4, <3>1, VarintIsRead
  <2> QED
    BY <2>1, <2>3, <2>5
<1> QED
  BY <1>1, <1>5, <1>6, <1>7, <1>8 DEF LongFormIs

(* The entry is read, up to its last byte and no further.                  *)
EntryRead(u, d, c) ==
  /\ at < Len(table) /\ (L!At(at) % 8) + 1 = u
  /\ ~L!CutShort
  /\ L!Decoded = [delta |-> Gain(d, c), at |-> at + Len(Rest(d, c))]

(* What a code says of the line.                                           *)
LEMMA CodedIs ==
  ASSUME NEW c \in 0..15, NEW d, Coded(d, c)
  PROVE  /\ c = 15 => Gain(d, c) = 0
         /\ c \in 13..14 => d \in Int /\ Gain(d, c) = d
         /\ c \in 10..12 => Gain(d, c) = c - 10
         /\ c \in 0..9 => Gain(d, c) = 0
<1>1. c = 15 => Gain(d, c) = 0
  BY DEF Gain
<1>2. c # 15 => Gain(d, c) = d
  BY DEF Gain
<1>3. c \in 13..14 => c # 15 /\ c \notin 10..12 /\ c \notin 0..9
  OBVIOUS
<1>4. c \in 10..12 => c # 15 /\ c \notin 13..14 /\ c \notin 0..9
  OBVIOUS
<1>5. c \in 0..9 => c # 15 /\ c \notin 13..14 /\ c \notin 10..12
  OBVIOUS
<1> QED
  BY <1>1, <1>2, <1>3, <1>4, <1>5 DEF Coded

(* What a code asks for.                                                   *)
LEMMA RestIs ==
  ASSUME NEW c \in 0..15, NEW d
  PROVE  /\ c = 15 => Rest(d, c) = <<>>
         /\ c = 14 => Rest(d, c) = L!SignedVarint(d) \o <<1, 70, 1, 5>>
         /\ c = 13 => Rest(d, c) = L!SignedVarint(d)
         /\ c \in 10..12 => Rest(d, c) = <<200, 255>>
         /\ c \in 0..9 => Rest(d, c) = <<255>>
<1>1. CASE c = 15
  BY <1>1 DEF Rest
<1>2. CASE c = 14
  BY <1>2 DEF Rest
<1>3. CASE c = 13
  BY <1>3 DEF Rest
<1>4. CASE c \in 10..12
  <2>1. c # 15 /\ c # 14 /\ c # 13 /\ ~(c <= 9) /\ c \notin 0..9
    BY <1>4
  <2> QED
    BY <1>4, <2>1 DEF Rest
<1>5. CASE c \in 0..9
  <2>1. c # 15 /\ c # 14 /\ c # 13 /\ c \notin 10..12 /\ c <= 9
    BY <1>5
  <2> QED
    BY <1>5, <2>1 DEF Rest
<1> QED
  BY <1>1, <1>2, <1>3, <1>4, <1>5

(* A code has four bits.                                                   *)
LEMMA CodeTyping ==
  ASSUME NEW x \in 0..255
  PROVE  (x \div 8) % 16 \in 0..15
  OBVIOUS

(* The long form, without the names of its parts.                          *)
LEMMA LongFormParts ==
  L!LongForm =
    [delta |-> L!OfSigned(L!ReadVarint(at).value),
     at |-> L!ReadVarint(L!ReadVarint(L!ReadVarint(L!ReadVarint(at).at).at).at).at]
  BY DEF L!LongForm

(* An entry of the compiler is decoded as it was encoded, and left at its  *)
(* last byte (frame.cc:141-199).                                           *)
LEMMA EntryDecoded ==
  ASSUME table \in Seq(0..255), at \in Nat, NEW u \in 1..8, NEW c \in 0..15, NEW d,
         Coded(d, c), Holds(at, L!Entry(u, d, c))
  PROVE  EntryRead(u, d, c)
<1>1. /\ HeadOf(u, c) \in 0..255 /\ Rest(d, c) \in Seq(0..255)
      /\ Len(table) \in Nat /\ Len(Rest(d, c)) \in Nat
  <2>1. HeadOf(u, c) \in 0..255 /\ Rest(d, c) \in Seq(0..255)
    BY ZenonT(60), HeadIs, EntryIs
  <2>2. \A S : \A s \in Seq(S) : Len(s) \in Nat
    OBVIOUS
  <2> QED
    BY SMTT(30), <2>1, <2>2
<1>a. PICK b \in 0..255, r \in Seq(0..255) : b = HeadOf(u, c) /\ r = Rest(d, c)
  BY <1>1
<1>b. PICK n \in Nat, l \in Nat : n = Len(table) /\ l = Len(r)
  BY <1>1, <1>a
<1>c. PICK one \in Seq(0..255) : one = <<b>> /\ Len(one) = 1 /\ one[1] = b
  <2>1. <<b>> \in Seq(0..255) /\ Len(<<b>>) = 1 /\ <<b>>[1] = b
    BY FewOf
  <2> QED
    BY <2>1
<1>2. Holds(at, one \o r)
  <2>1. L!Entry(u, d, c) = one \o r
    BY ZenonT(60), <1>a, <1>b, <1>c, EntryIs DEF HeadOf
  <2> QED
    BY SMTT(30), <2>1
<1>3. Holds(at, one) /\ Holds(at + 1, r)
  <2>1. PICK S : S = 0..255 /\ one \in Seq(S) /\ r \in Seq(S)
    BY <1>1
  <2>2. Len(table) \in Nat
    BY <1>1
  <2>3. Holds(at, one) /\ Holds(at + Len(one), r)
    BY <1>2, <2>1, <2>2, HoldsConcat, Zenon
  <2> QED
    BY <1>a, <1>b, <1>c, <2>3
<1>4. at + 1 <= n /\ L!At(at) = b
  <2>1. at + 1 <= n /\ table[at + 1] = one[1]
    BY <1>a, <1>b, <1>c, <1>3 DEF Holds
  <2> QED
    BY <1>a, <1>b, <1>c, <2>1 DEF L!At
<1>5. L!code = c /\ (L!At(at) % 8) + 1 = u
  <2>1. (b \div 8) % 16 = c /\ (b % 8) + 1 = u
    BY <1>a, HeadIs
  <2> QED
    BY <1>4, <2>1, Zenon DEF L!code
<1>6. at + 1 + l <= n /\ \A m \in 1..l : table[at + 1 + m] = r[m]
  BY <1>a, <1>b, <1>c, <1>3 DEF Holds
<1>7. at < Len(table)
  BY <1>a, <1>b, <1>c, <1>4
<1>8. CASE c = 15
  <2>1. r = <<>> /\ l = 0 /\ Gain(d, c) = 0
    <3>1. Len(<<>>) = 0
      OBVIOUS
    <3> QED
      BY <1>a, <1>b, <1>8, <3>1, RestIs, CodedIs
  <2>2. L!Decoded = [delta |-> 0, at |-> at]
    BY <1>5, <1>8 DEF L!Decoded
  <2>3. ~L!CutShort
    BY <1>5, <1>8 DEF L!CutShort
  <2> QED
    BY <1>a, <1>b, <1>c, <1>5, <1>7, <2>1, <2>2, <2>3 DEF EntryRead
<1>9. CASE c = 14
  <2>1. d \in Int /\ Gain(d, c) = d
    BY <1>9, CodedIs
  <2>2. PICK z \in Seq(0..255) : z = L!SignedVarint(d) /\ r = z \o <<1, 70, 1, 5>>
    <3>1. L!SignedVarint(d) \in Seq(0..127)
      BY <2>1, SignedAre DEF VarintSays
    <3>2. \A x : x \in 0..127 => x \in 0..255
      OBVIOUS
    <3>3. L!SignedVarint(d) \in Seq(0..255)
      BY SMTT(30), <3>1, <3>2, Widened
    <3> QED
      BY ZenonT(60), <1>a, <1>9, <3>3, RestIs
  <2>3. LongFormIs(at, d, z)
    BY <1>3, <2>1, <2>2, LongFormRead
  <2>4. L!Decoded = L!LongForm
    BY <1>5, <1>9 DEF L!Decoded
  <2>5. L!LongForm = [delta |-> d, at |-> at + Len(z) + 4]
    <3>1. /\ L!ReadVarint(at).value = Zigzag(d) /\ L!ReadVarint(at).at = at + Len(z)
          /\ L!ReadVarint(at + Len(z)).at = at + Len(z) + 1
          /\ L!ReadVarint(at + Len(z) + 1).at = at + Len(z) + 3
          /\ L!ReadVarint(at + Len(z) + 3).at = at + Len(z) + 4
      <4>2. /\ L!ReadVarint(at) = [value |-> Zigzag(d), at |-> at + Len(z)]
            /\ L!ReadVarint(at + Len(z)) = [value |-> 1, at |-> at + Len(z) + 1]
            /\ L!ReadVarint(at + Len(z) + 1) = [value |-> 70, at |-> at + Len(z) + 3]
            /\ L!ReadVarint(at + Len(z) + 3) = [value |-> 5, at |-> at + Len(z) + 4]
        BY <2>3, Zenon DEF LongFormIs
      <4>3. L!ReadVarint(at).value = Zigzag(d) /\ L!ReadVarint(at).at = at + Len(z)
        BY <4>2
      <4>4. L!ReadVarint(at + Len(z)).at = at + Len(z) + 1
        BY <4>2
      <4>5. L!ReadVarint(at + Len(z) + 1).at = at + Len(z) + 3
        BY <4>2
      <4>6. L!ReadVarint(at + Len(z) + 3).at = at + Len(z) + 4
        BY <4>2
      <4> QED
        BY <4>3, <4>4, <4>5, <4>6, Zenon
    <3>2. /\ L!LongForm.delta = L!OfSigned(Zigzag(d)) /\ L!LongForm.at = at + Len(z) + 4
          /\ L!LongForm = [delta |-> L!LongForm.delta, at |-> L!LongForm.at]
      BY <3>1, LongFormParts
    <3>3. L!OfSigned(Zigzag(d)) = d
      BY <2>1, SignedAre
    <3> QED
      BY <3>2, <3>3
  <2>6. l = Len(z) + 4 /\ Len(z) \in Nat
    <3>1. PICK S : S = 0..255 /\ z \in Seq(S) /\ <<1, 70, 1, 5>> \in Seq(S)
      <4>1. 1 \in 0..255 /\ 70 \in 0..255 /\ 5 \in 0..255
        OBVIOUS
      <4>2. <<1, 70, 1, 5>> \in Seq(0..255)
        BY <4>1, FourOf
      <4> QED
        BY <2>2, <4>2
    <3>2. Len(<<1, 70, 1, 5>>) = 4
      OBVIOUS
    <3>3. Len(z \o <<1, 70, 1, 5>>) = Len(z) + 4 /\ Len(z) \in Nat
      BY <3>1, <3>2, ConcatAt
    <3> QED
      BY <1>a, <1>b, <1>c, <2>2, <3>3
  <2>7. at + Len(z) + 4 = at + l
    BY <2>6
  <2>8. ~L!CutShort
    BY <1>5, <1>9 DEF L!CutShort
  <2> QED
    BY <1>a, <1>b, <1>c, <1>5, <1>7, <2>1, <2>4, <2>5, <2>7, <2>8 DEF EntryRead
<1>10. CASE c = 13
  <2>1. d \in Int /\ Gain(d, c) = d
    BY <1>10, CodedIs
  <2>2. r = L!SignedVarint(d)
    BY <1>a, <1>10, RestIs
  <2>3. L!ReadVarint(at) = [value |-> Zigzag(d), at |-> at + l]
    BY <1>a, <1>b, <1>c, <1>3, <2>1, <2>2, SignedAre, VarintIsRead
  <2>4. L!Decoded = [delta |-> L!OfSigned(L!ReadVarint(at).value), at |-> L!ReadVarint(at).at]
    BY <1>5, <1>10 DEF L!Decoded
  <2>5. L!Decoded = [delta |-> d, at |-> at + l]
    BY <2>1, <2>3, <2>4, SignedAre
  <2>6. ~L!CutShort
    BY <1>5, <1>10 DEF L!CutShort
  <2> QED
    BY <1>a, <1>b, <1>c, <1>5, <1>7, <2>1, <2>5, <2>6 DEF EntryRead
<1>11. CASE c \in 10..12
  <2>1. Gain(d, c) = c - 10
    BY <1>11, CodedIs
  <2>2. r = <<200, 255>> /\ l = 2
    <3>1. Len(<<200, 255>>) = 2
      OBVIOUS
    <3> QED
      BY <1>a, <1>b, <1>11, <3>1, RestIs
  <2>3. L!Decoded = [delta |-> c - 10, at |-> at + 2]
    BY <1>5, <1>11 DEF L!Decoded
  <2>4. ~L!CutShort
    BY <1>a, <1>b, <1>c, <1>5, <1>6, <1>11, <2>2 DEF L!CutShort, L!len
  <2> QED
    BY <1>a, <1>b, <1>c, <1>5, <1>7, <2>1, <2>2, <2>3, <2>4 DEF EntryRead
<1>12. CASE c \in 0..9
  <2>1. Gain(d, c) = 0
    BY <1>12, CodedIs
  <2>2. r = <<255>> /\ l = 1
    <3>1. Len(<<255>>) = 1
      OBVIOUS
    <3> QED
      BY <1>a, <1>b, <1>12, <3>1, RestIs
  <2>3. L!Decoded = [delta |-> 0, at |-> at + 1]
    <3>1. c # 15 /\ c # 14 /\ c # 13 /\ c \notin 10..12 /\ c <= 9
      BY <1>12
    <3> QED
      BY <1>5, <3>1 DEF L!Decoded
  <2>4. ~L!CutShort
    BY <1>a, <1>b, <1>c, <1>5, <1>6, <1>12, <2>2 DEF L!CutShort, L!len
  <2> QED
    BY <1>a, <1>b, <1>c, <1>5, <1>7, <2>1, <2>2, <2>3, <2>4 DEF EntryRead
<1> QED
  BY <1>8, <1>9, <1>10, <1>11, <1>12

(* Whatever the bytes are, an entry ends in the table, or the code says    *)
(* that it is cut short.                                                   *)
LEMMA EntryBounded ==
  ASSUME table \in Seq(0..255), at \in Nat, at < Len(table), ~L!CutShort
  PROVE  L!Decoded.delta \in Int /\ L!Decoded.at \in at..(Len(table) - 1)
<1>1. PICK n \in Nat, b \in 0..255 : n = Len(table) /\ b = L!At(at)
  <2>1. at + 1 \in 1..Len(table)
    OBVIOUS
  <2>2. table[at + 1] \in 0..255
    BY <2>1, ElementsOf
  <2> QED
    BY <2>2 DEF L!At
<1>2. L!code \in 0..15
  BY <1>1, CodeTyping, Zenon DEF L!code
<1>3. \A k \in Nat : k < n => /\ L!ReadVarint(k).value \in Nat
                              /\ L!ReadVarint(k).at \in Nat
                              /\ L!ReadVarint(k).at >= k /\ L!ReadVarint(k).at < n
  <2> SUFFICES ASSUME NEW k \in Nat, k < n
               PROVE  /\ L!ReadVarint(k).value \in Nat
                      /\ L!ReadVarint(k).at \in Nat
                      /\ L!ReadVarint(k).at >= k /\ L!ReadVarint(k).at < n
    OBVIOUS
  <2>1. L!ReadVarint(k).value \in Nat /\ L!ReadVarint(k).at \in k..(n - 1)
    BY <1>1, ReadVarintTyping
  <2> QED
    BY <2>1
<1>4. \A v \in Nat : L!OfSigned(v) \in Int
  BY DEF L!OfSigned
<1>5. CASE L!code = 15
  BY <1>1, <1>5 DEF L!Decoded
<1>6. CASE L!code = 14
  <2>1. L!Decoded = L!LongForm
    BY <1>6 DEF L!Decoded
  <2>2. PICK p \in Nat, q \in Nat, r \in Nat, s \in Nat :
          /\ p = L!ReadVarint(at).at /\ q = L!ReadVarint(p).at
          /\ r = L!ReadVarint(q).at /\ s = L!ReadVarint(r).at
          /\ at <= p /\ p <= q /\ q <= r /\ r <= s /\ s < n
    <3>1. PICK p \in Nat : p = L!ReadVarint(at).at /\ at <= p /\ p < n
      BY <1>1, <1>3
    <3>2. PICK q \in Nat : q = L!ReadVarint(p).at /\ p <= q /\ q < n
      BY <1>3, <3>1
    <3>3. PICK r \in Nat : r = L!ReadVarint(q).at /\ q <= r /\ r < n
      BY <1>3, <3>2
    <3>4. PICK s \in Nat : s = L!ReadVarint(r).at /\ r <= s /\ s < n
      BY <1>3, <3>3
    <3> QED
      BY <3>1, <3>2, <3>3, <3>4
  <2>3. L!LongForm.delta = L!OfSigned(L!ReadVarint(at).value) /\ L!LongForm.at = s
    BY <2>2, LongFormParts
  <2>4. L!OfSigned(L!ReadVarint(at).value) \in Int
    BY <1>1, <1>3, <1>4
  <2>5. s \in at..(n - 1)
    BY <2>2
  <2> QED
    BY <1>1, <2>1, <2>3, <2>4, <2>5
<1>7. CASE L!code = 13
  <2>1. L!Decoded = [delta |-> L!OfSigned(L!ReadVarint(at).value), at |-> L!ReadVarint(at).at]
    BY <1>7 DEF L!Decoded
  <2> QED
    BY <1>1, <1>3, <1>4, <2>1
<1>8. CASE L!code \in 10..12
  <2>1. L!Decoded = [delta |-> L!code - 10, at |-> at + 2]
    BY <1>8 DEF L!Decoded
  <2>2. ~(at >= n - 2)
    BY <1>1, <1>8 DEF L!CutShort, L!len
  <2> QED
    BY <1>1, <1>8, <2>1, <2>2
<1>9. CASE L!code \in 0..9
  <2>1. L!Decoded = [delta |-> 0, at |-> at + 1]
    BY SMTT(30), <1>9 DEF L!Decoded
  <2>2. ~(at >= n - 1)
    BY <1>1, <1>9 DEF L!CutShort, L!len
  <2> QED
    BY <1>1, <2>1, <2>2
<1> QED
  BY <1>2, <1>5, <1>6, <1>7, <1>8, <1>9

(* Pairs of bytes, one after the other.                                    *)
PairsSay(P, s) ==
  /\ P \in Seq(0..255) /\ Len(P) = 2 * Len(s)
  /\ \A k \in 1..Len(s) : P[2 * k - 1] = L!Byte(s[k][1]) /\ P[2 * k] = L!Byte(s[k][2])

(* A byte is a byte.                                                       *)
LEMMA ByteTyping ==
  ASSUME NEW x \in Int
  PROVE  L!Byte(x) \in 0..255
  BY DEF L!Byte

(* The sequence that the model puts together is that of the community      *)
(* modules.                                                                *)
LEMMA Flat == \A r : L!FlattenSeq(r) = FlattenSeq(r)
  BY DEF L!FlattenSeq, FlattenSeq

(* A sequence of two elements.                                             *)
LEMMA PairOf ==
  ASSUME NEW S, NEW x \in S, NEW y \in S, NEW t, t = <<x, y>>
  PROVE  t \in Seq(S) /\ Len(t) = 2 /\ t[1] = x /\ t[2] = y
  OBVIOUS

(* The bytes of pairs.                                                     *)
LEMMA PairsAre ==
  ASSUME NEW s \in Seq(Int \X Int)
  PROVE  PairsSay(L!Pairs(s), s)
<1> DEFINE ss == [k \in DOMAIN s |-> <<L!Byte(s[k][1]), L!Byte(s[k][2])>>]
           S == 0..255
<1>1. PICK n \in Nat : n = Len(s) /\ DOMAIN s = 1..n
  OBVIOUS
<1>2. ASSUME NEW k \in 1..n PROVE L!Byte(s[k][1]) \in S /\ L!Byte(s[k][2]) \in S
  <2>1. s[k] \in Int \X Int
    BY <1>1, ElementsOf
  <2> QED
    BY <2>1, ByteTyping
<1> HIDE DEF S
<1>3. ss \in [1..n -> Seq(S)]
  <2>1. \A k \in 1..n : <<L!Byte(s[k][1]), L!Byte(s[k][2])>> \in Seq(S)
    BY <1>2, PairOf
  <2> QED
    BY <1>1, <2>1, Zenon
<1>4. ss \in Seq(Seq(S)) /\ Len(ss) = n
  <2> HIDE DEF ss
  <2> QED
    BY <1>3, IsSequence
<1>5. \A k \in 1..n : Len(ss[k]) = 2 /\ ss[k][1] = L!Byte(s[k][1]) /\ ss[k][2] = L!Byte(s[k][2])
  <2>1. \A k \in 1..n : ss[k] = <<L!Byte(s[k][1]), L!Byte(s[k][2])>>
    BY <1>1
  <2> HIDE DEF ss
  <2> SUFFICES ASSUME NEW k \in 1..n
               PROVE  Len(ss[k]) = 2 /\ ss[k][1] = L!Byte(s[k][1]) /\ ss[k][2] = L!Byte(s[k][2])
    OBVIOUS
  <2>2. PICK x \in S, y \in S : x = L!Byte(s[k][1]) /\ y = L!Byte(s[k][2])
    BY <1>2
  <2>3. ss[k] = <<x, y>>
    BY <2>1, <2>2
  <2>4. Len(ss[k]) = 2 /\ ss[k][1] = x /\ ss[k][2] = y
    BY <2>3, PairOf
  <2> QED
    BY <2>2, <2>4
<1> HIDE DEF ss
<1>6. L!Pairs(s) = FlattenSeq(ss)
  BY Flat DEF L!Pairs, ss
<1>7. PICK t, off : t \in Seq(S) /\ t = FlattenSeq(ss) /\ Laid(ss, t, off)
  BY <1>4, FlattenLaid
<1>8. /\ off \in [0..n -> Nat] /\ off[0] = 0 /\ off[n] = Len(t)
      /\ \A k \in 1..n : LaidAt(ss, t, off, k)
  BY <1>4, <1>7 DEF Laid
<1> DEFINE E == {k \in Nat : k <= n => off[k] = 2 * k}
<1>9. 0 \in E
  BY <1>8
<1>10. ASSUME NEW k \in Nat, k \in E PROVE k + 1 \in E
  <2> SUFFICES ASSUME k + 1 <= n PROVE off[k + 1] = 2 * (k + 1)
    OBVIOUS
  <2>1. k + 1 \in 1..n /\ (k + 1) - 1 = k
    BY <1>1
  <2>2. off[k + 1] = off[k] + 2
    BY <1>5, <1>8, <2>1 DEF LaidAt
  <2>3. off[k] = 2 * k
    BY <1>10, <2>1
  <2> QED
    BY <2>2, <2>3
<1> HIDE DEF E
<1>11. Nat \subseteq E
  BY <1>9, <1>10, SetInduction
<1>12. \A k \in 0..n : off[k] = 2 * k
  BY <1>1, <1>11 DEF E
<1>13. Len(t) = 2 * n
  <2>1. n \in 0..n
    BY <1>1
  <2>2. off[n] = 2 * n
    BY <1>12, <2>1
  <2> QED
    BY <1>8, <2>2
<1>14. ASSUME NEW k \in 1..n
       PROVE  t[2 * k - 1] = L!Byte(s[k][1]) /\ t[2 * k] = L!Byte(s[k][2])
  <2>1. off[k - 1] + 1 = 2 * k - 1 /\ off[k - 1] + 2 = 2 * k
    <3>1. k - 1 \in 0..n
      BY <1>1
    <3>2. off[k - 1] = 2 * (k - 1)
      BY <1>12, <3>1
    <3> QED
      BY <3>2
  <2>2. 1 \in 1..2 /\ 2 \in 1..2
    OBVIOUS
  <2>3. t[off[k - 1] + 1] = ss[k][1] /\ t[off[k - 1] + 2] = ss[k][2]
    <3>1. \A m \in 1..Len(ss[k]) : t[off[k - 1] + m] = ss[k][m]
      BY <1>8 DEF LaidAt
    <3> QED
      BY <1>5, <2>2, <3>1
  <2> QED
    BY <1>5, <2>1, <2>3
<1> QED
  BY <1>1, <1>6, <1>7, <1>13, <1>14 DEF PairsSay, S

-----------------------------------------------------------------------------
(* What the steps of the code make of the table of a run: they end at the  *)
(* bytes g, when they have added B to the instructions and A to the line.  *)

(* Bytes p to q, which add b and d. *)
EntryAt(t, p, q, b, d, c, e) ==
  /\ b \in 1..8 /\ c \in 0..15 /\ Coded(e, c) /\ Gain(e, c) = d
  /\ q = p + Len(L!Entry(b, e, c))
  /\ \A m \in 1..Len(L!Entry(b, e, c)) : t[p + m] = L!Entry(b, e, c)[m]

(* Bytes p to q of t are a step of the code that adds b to the             *)
(* instructions and d to the line.                                         *)
RecordAt(v, t, p, q, b, d) ==
  /\ q <= Len(t)
  /\ v = 9 => /\ q = p + 2 /\ t[p + 1] = b
              /\ L!Signed(t[p + 2]) = d
  /\ v = 10 => /\ q = p + 2 /\ t[p + 1] = b /\ b # 255
               /\ (IF t[p + 2] = 128 THEN 0 ELSE L!Signed(t[p + 2])) = d
  /\ v = 11 => \E c, e : EntryAt(t, p, q, b, d, c, e)

(* On versions up to 3.9 a run is reached before its line is, and later    *)
(* its line is known before the first instruction is.                      *)
Ordered(v, W, B, A) ==
  IF v = 9 THEN \A j \in 1..W : B[j] > B[j - 1] => A[j - 1] = 0
  ELSE \A j \in 1..W : B[j] > 0 => A[j] = A[W]

(* The steps of the code through a table: g is where they end, B and A     *)
(* what they have counted.                                                 *)
Profile(v, t, W, g, B, A) ==
  /\ W \in Nat \ {0}
  /\ g \in [0..W -> Nat] /\ B \in [0..W -> Nat] /\ A \in [0..W -> Int]
  /\ g[0] = 0 /\ B[0] = 0 /\ A[0] = 0 /\ g[W] = Len(t)
  /\ \A j \in 1..W : RecordAt(v, t, g[j - 1], g[j], B[j] - B[j - 1], A[j] - A[j - 1])
  /\ \A j \in 0..W : B[j] <= B[W]
  /\ Ordered(v, W, B, A)

(* There are such steps, that add n and d when all are done. *)
Profiled(v, t, n, d) ==
  \E W, g, B, A : Profile(v, t, W, g, B, A) /\ B[W] = n /\ A[W] = d

Total10(d) == IF d = nullptr THEN 0 ELSE d

(* The line that a byte of the compiler stands for. *)
Means(x, d) ==
  /\ x \in Int /\ L!Byte(x) \in 0..255
  /\ (IF L!Byte(x) = 128 THEN 0 ELSE L!Signed(L!Byte(x))) = d

(* Which lines bytes of 3.10 stand for.                                    *)
LEMMA MeansIs ==
  /\ \A x \in -127..127 : Means(x, x)
  /\ Means(-128, 0) /\ Means(0, 0)
<1>1. ASSUME NEW x \in -127..127 PROVE Means(x, x)
  <2>1. x \in Int
    BY SMTT(30)
  <2>2. L!Byte(x) \in 0..255 /\ (IF L!Byte(x) = 128 THEN 0 ELSE L!Signed(L!Byte(x))) = x
    BY SignedByte
  <2> QED
    BY <2>1, <2>2 DEF Means
<1>2. Means(-128, 0)
  <2>1. L!Byte(-128) = 128 /\ 128 \in 0..255 /\ -128 \in Int
    BY OtherBytes
  <2> QED
    BY <2>1 DEF Means
<1>3. Means(0, 0)
  <2>1. 0 \in -127..127
    OBVIOUS
  <2> QED
    BY <1>1, <2>1
<1> QED
  BY <1>1, <1>2, <1>3

(* The bytes that an entry of 3.10 has for the line of its run.            *)
StridesOf(d) == IF d = nullptr THEN <<>> ELSE L!Strides(d)
FirstOf(d) == IF d = nullptr THEN -128 ELSE L!LastStride(d)
StaysOf(d) == IF d = nullptr THEN -128 ELSE 0

Steps10(d, U) ==
  LET n == Len(StridesOf(d))
  IN /\ StridesOf(d) \in Seq(Int) /\ U \in [0..n -> Int] /\ U[0] = 0
     /\ \A j \in 1..n : Means(StridesOf(d)[j], U[j] - U[j - 1])
     /\ Means(FirstOf(d), Total10(d) - U[n])
     /\ Means(StaysOf(d), 0)

(* The steps of a run of 3.10 to its line.                                 *)
LEMMA StepsOf10 ==
  ASSUME NEW d, d = nullptr \/ d \in Int
  PROVE  Total10(d) \in Int /\ \E U : Steps10(d, U)
<1>1. CASE d = nullptr
  <2>1. StridesOf(d) = <<>> /\ FirstOf(d) = -128 /\ StaysOf(d) = -128 /\ Total10(d) = 0
    BY <1>1 DEF StridesOf, FirstOf, StaysOf, Total10
  <2> DEFINE U == [j \in 0..0 |-> 0]
  <2>2. U \in [0..0 -> Int] /\ U[0] = 0 /\ <<>> \in Seq(Int) /\ Len(<<>>) = 0
    OBVIOUS
  <2>3. \A j \in 1..0 : FALSE
    OBVIOUS
  <2>4. 0 - 0 = 0
    OBVIOUS
  <2> HIDE DEF U
  <2>5. Steps10(d, U)
    BY <2>1, <2>2, <2>3, <2>4, MeansIs DEF Steps10
  <2> QED
    BY <2>1, <2>5
<1>2. CASE d # nullptr
  <2>1. d \in Int /\ StridesOf(d) = L!Strides(d) /\ FirstOf(d) = L!LastStride(d)
        /\ StaysOf(d) = 0 /\ Total10(d) = d
    BY <1>2 DEF StridesOf, FirstOf, StaysOf, Total10
  <2>2. PICK t : t = L!Strides(d) \o <<L!LastStride(d)>> /\ StridesSay(t, d)
    BY <2>1, StridesAre
  <2>3. PICK n \in Nat : n = Len(L!Strides(d)) /\ L!Strides(d) \in Seq(Int)
    <3>1. L!Strides(d) \in Seq(-127..127)
      BY <2>1, StridesAre
    <3>2. -127..127 \subseteq Int
      OBVIOUS
    <3>3. L!Strides(d) \in Seq(Int)
      BY ZenonT(60), <3>1, <3>2, Widened
    <3> QED
      BY <3>3
  <2> DEFINE U == [j \in 0..n |-> UpToStride(d, j)]
  <2>4. /\ Len(t) = n + 1 /\ t[n + 1] = L!LastStride(d)
        /\ \A j \in 1..n : t[j] = L!Strides(d)[j]
        /\ \A j \in 1..(n + 1) : t[j] \in -127..127
        /\ \A j \in 1..(n + 1) : t[j] = UpToStride(d, j) - UpToStride(d, j - 1)
        /\ UpToStride(d, 0) = 0 /\ UpToStride(d, n + 1) = d
        /\ \A j \in 0..(n + 1) : UpToStride(d, j) \in Int
    <3>1. Len(t) = n + 1 /\ (n + 1) - 1 = n /\ t \in Seq(-127..127)
      BY <2>2, <2>3 DEF StridesSay
    <3>2. \A j \in 1..Len(t) : t[j] \in -127..127
      BY <3>1, ElementsOf
    <3> QED
      BY ZenonT(60), <2>2, <3>1, <3>2 DEF StridesSay
  <2>5. U \in [0..n -> Int] /\ U[0] = 0
    <3>1. \A j \in 0..n : UpToStride(d, j) \in Int
      BY <2>4
    <3>2. 0 \in 0..n
      OBVIOUS
    <3> QED
      BY <2>4, <3>1, <3>2
  <2>6. ASSUME NEW j \in 1..n PROVE Means(L!Strides(d)[j], U[j] - U[j - 1])
    <3>1. j \in 1..(n + 1) /\ j \in 0..n /\ j - 1 \in 0..n
      OBVIOUS
    <3>2. U[j] - U[j - 1] = t[j] /\ t[j] = L!Strides(d)[j] /\ t[j] \in -127..127
      BY <2>4, <3>1
    <3> HIDE DEF U
    <3> QED
      BY <3>2, MeansIs
  <2>7. Means(L!LastStride(d), d - U[n])
    <3>1. n + 1 \in 1..(n + 1) /\ (n + 1) - 1 = n /\ n \in 0..n
      OBVIOUS
    <3>2. d - U[n] = t[n + 1] /\ t[n + 1] \in -127..127
      BY <2>4, <3>1
    <3> HIDE DEF U
    <3> QED
      BY <2>4, <3>2, MeansIs
  <2> HIDE DEF U
  <2>8. Steps10(d, U)
    BY ZenonT(60), <2>1, <2>3, <2>5, <2>6, <2>7, MeansIs DEF Steps10
  <2> QED
    BY <2>1, <2>8
<1> QED
  BY <1>1, <1>2

(* The pairs of a run in 3.10. *)
Pairs10(u, d) ==
  [k \in DOMAIN StridesOf(d) |-> <<0, StridesOf(d)[k]>>]
    \o [k \in DOMAIN L!Parts(2 * u, 254) |->
          <<L!Parts(2 * u, 254)[k], IF k = 1 THEN FirstOf(d) ELSE StaysOf(d)>>]

(* The pairs s of a run of 3.10: to its line with a, then its parts p.     *)
PairsTo(s, a, p, f, y) ==
  /\ s \in Seq(Int \X Int) /\ Len(s) = Len(a) + Len(p)
  /\ \A k \in 1..Len(a) : s[k] = <<0, a[k]>>
  /\ \A k \in 1..Len(p) : s[Len(a) + k] = <<p[k], IF k = 1 THEN f ELSE y>>

(* s is b and then c.                                                      *)
Concat(S, n, m, b, c, s) ==
  /\ s \in Seq(S) /\ Len(s) = n + m
  /\ \A k \in 1..n : s[k] = b[k]
  /\ \A k \in 1..m : s[n + k] = c[k]

(* Two tables of pairs, one after the other,                               *)
LEMMA ConcatLaid ==
  ASSUME NEW S, NEW n \in Nat, NEW m \in Nat, NEW b \in [1..n -> S], NEW c \in [1..m -> S]
  PROVE  Concat(S, n, m, b, c, b \o c)
<1>1. b \in Seq(S) /\ Len(b) = n /\ c \in Seq(S) /\ Len(c) = m
  BY IsSequence
<1> QED
  BY <1>1 DEF Concat

(* are those of a run of 3.10.                                             *)
LEMMA PairsConcat ==
  ASSUME NEW a \in Seq(Int), NEW p \in Seq(Int), NEW f \in Int, NEW y \in Int
  PROVE  PairsTo([k \in DOMAIN a |-> <<0, a[k]>>]
                   \o [k \in DOMAIN p |-> <<p[k], IF k = 1 THEN f ELSE y>>], a, p, f, y)
<1> DEFINE b == [k \in DOMAIN a |-> <<0, a[k]>>]
           c == [k \in DOMAIN p |-> <<p[k], IF k = 1 THEN f ELSE y>>]
           S == Int \X Int
<1>1. PICK n \in Nat, m \in Nat : n = Len(a) /\ DOMAIN a = 1..n /\ m = Len(p) /\ DOMAIN p = 1..m
  OBVIOUS
<1>2. b \in [1..n -> S] /\ \A k \in 1..n : b[k] = <<0, a[k]>>
  BY <1>1
<1>3. c \in [1..m -> S] /\ \A k \in 1..m : c[k] = <<p[k], IF k = 1 THEN f ELSE y>>
  BY <1>1
<1> HIDE DEF b, c, S
<1>4. Concat(S, n, m, b, c, b \o c)
  <2>1. b \in [1..n -> S] /\ c \in [1..m -> S]
    BY <1>2, <1>3
  <2> QED
    BY <2>1, ConcatLaid, Zenon
<1>5. /\ b \o c \in Seq(S) /\ Len(b \o c) = n + m
      /\ \A k \in 1..n : (b \o c)[k] = b[k]
      /\ \A k \in 1..m : (b \o c)[n + k] = c[k]
  BY <1>4 DEF Concat
<1> QED
  BY <1>1, <1>2, <1>3, <1>5 DEF PairsTo, b, c, S

(* A pair that adds b to the instructions and d to the line. *)
PairFor(v, x, y, b, d) ==
  /\ x = b /\ x \in 0..255 /\ y \in Int
  /\ v = 9 => y \in -127..127 /\ y = d
  /\ v = 10 => x # 255 /\ Means(y, d)

(* A length that fits a byte is that byte.                                 *)
LEMMA ByteIs ==
  ASSUME NEW x \in 0..255
  PROVE  L!Byte(x) = x
  BY OtherBytes, Zenon

(* A pair is a step of the code.                                           *)
LEMMA PairRecord ==
  ASSUME NEW v \in 9..10, NEW s \in Seq(Int \X Int), NEW t, PairsSay(t, s),
         NEW j \in 1..Len(s), NEW x, NEW y, s[j] = <<x, y>>,
         NEW b, NEW d, PairFor(v, x, y, b, d)
  PROVE  RecordAt(v, t, 2 * (j - 1), 2 * j, b, d)
<1>1. s[j][1] = x /\ s[j][2] = y
  OBVIOUS
<1>2. Len(s) \in Nat /\ j \in Int /\ 1 <= j /\ j <= Len(s)
  OBVIOUS
<1>3. PICK p \in Int : p = 2 * (j - 1) /\ p + 1 = 2 * j - 1 /\ p + 2 = 2 * j
  BY <1>2
<1>4. t[p + 1] = L!Byte(x) /\ t[p + 2] = L!Byte(y) /\ Len(t) = 2 * Len(s)
  <2>1. t[2 * j - 1] = L!Byte(s[j][1]) /\ t[2 * j] = L!Byte(s[j][2]) /\ Len(t) = 2 * Len(s)
    BY DEF PairsSay
  <2>2. t[p + 1] = t[2 * j - 1] /\ t[p + 2] = t[2 * j]
    BY <1>3, Zenon
  <2> QED
    BY <1>1, <2>1, <2>2, Zenon
<1>5. 2 * j <= Len(t)
  BY <1>2, <1>4
<1>6. L!Byte(x) = b
  <2>1. x \in 0..255 /\ x = b
    BY DEF PairFor
  <2>2. L!Byte(x) = x
    BY ZenonT(60), <2>1, ByteIs
  <2> QED
    BY <2>1, <2>2
<1>7. CASE v = 9
  <2>1. L!Signed(L!Byte(y)) = d
    BY Zenon, <1>7, SignedByte DEF PairFor
  <2> QED
    BY <1>3, <1>4, <1>5, <1>6, <1>7, <2>1 DEF RecordAt
<1>8. CASE v = 10
  <2>1. b # 255 /\ (IF L!Byte(y) = 128 THEN 0 ELSE L!Signed(L!Byte(y))) = d
    BY <1>8 DEF PairFor, Means
  <2> QED
    BY <1>3, <1>4, <1>5, <1>6, <1>8, <2>1 DEF RecordAt
<1> QED
  BY <1>7, <1>8

(* Pairs that step by step count to B[W] and A[W].                         *)
LEMMA PairProfile ==
  ASSUME NEW v \in 9..10, NEW s \in Seq(Int \X Int), NEW t, PairsSay(t, s),
         NEW W \in Nat \ {0}, W = Len(s), NEW B \in [0..W -> Nat], NEW A \in [0..W -> Int],
         B[0] = 0, A[0] = 0,
         \A j \in 1..W : \E x, y :
           s[j] = <<x, y>> /\ PairFor(v, x, y, B[j] - B[j - 1], A[j] - A[j - 1]),
         \A j \in 0..W : B[j] <= B[W],
         Ordered(v, W, B, A)
  PROVE  Profiled(v, t, B[W], A[W])
<1> DEFINE g == [j \in 0..W |-> 2 * j]
<1>1. g \in [0..W -> Nat] /\ g[0] = 0 /\ g[W] = Len(t)
  BY DEF PairsSay
<1>2. ASSUME NEW j \in 1..W
      PROVE  RecordAt(v, t, g[j - 1], g[j], B[j] - B[j - 1], A[j] - A[j - 1])
  <2>1. g[j - 1] = 2 * (j - 1) /\ g[j] = 2 * j
    OBVIOUS
  <2>2. PICK x, y : s[j] = <<x, y>> /\ PairFor(v, x, y, B[j] - B[j - 1], A[j] - A[j - 1])
    OBVIOUS
  <2> HIDE DEF g
  <2>3. PICK b, d : b = B[j] - B[j - 1] /\ d = A[j] - A[j - 1]
    OBVIOUS
  <2>4. PairFor(v, x, y, b, d) /\ j \in 1..Len(s) /\ s[j] = <<x, y>>
    BY <2>2, <2>3
  <2>5. RecordAt(v, t, 2 * (j - 1), 2 * j, b, d)
    BY <2>4, PairRecord
  <2> QED
    BY <2>1, <2>3, <2>5, Zenon
<1> HIDE DEF g
<1>3. Profile(v, t, W, g, B, A)
  BY <1>1, <1>2 DEF Profile
<1> QED
  BY <1>3 DEF Profiled

-----------------------------------------------------------------------------
(* The table of a run of 3.10 is that of its pairs.                        *)
LEMMA LinetableIs ==
  ASSUME NEW u, NEW d
  PROVE  L!Linetable(u, d) = L!Pairs(Pairs10(u, d))
  BY DEF L!Linetable, Pairs10, StridesOf, FirstOf, StaysOf

(* The table of a run of 3.10: steps to its line that count no             *)
(* instructions, then its parts.                                           *)
LEMMA LinetableProfiled ==
  ASSUME NEW u \in Nat \ {0}, NEW d, d = nullptr \/ d \in Int
  PROVE  /\ L!Linetable(u, d) \in Seq(0..255)
         /\ Profiled(10, L!Linetable(u, d), 2 * u, Total10(d))
<1>1. PICK U : Total10(d) \in Int /\ Steps10(d, U)
  BY StepsOf10
<1>2. PICK w \in Nat : w = 2 * u /\ w # 0
  OBVIOUS
<1>3. PICK p : p = L!Parts(w, 254) /\ PartsSay(p, w, 254)
  BY PartsAre
<1>4. PICK a : a = StridesOf(d) /\ a \in Seq(Int)
  BY <1>1 DEF Steps10
<1>5. PICK f \in Int, y \in Int : f = FirstOf(d) /\ y = StaysOf(d)
  BY <1>1 DEF Steps10, Means
<1>6. p \in Seq(Int) /\ p \in Seq(1..254)
  <2>1. 1..254 \subseteq Int
    OBVIOUS
  <2>2. p \in Seq(1..254)
    BY <1>3 DEF PartsSay
  <2> QED
    BY ZenonT(60), <2>1, <2>2, Widened
<1>7. PICK s : s = Pairs10(u, d) /\ PairsTo(s, a, p, f, y)
  <2>1. Pairs10(u, d) = [k \in DOMAIN a |-> <<0, a[k]>>]
                          \o [k \in DOMAIN p |-> <<p[k], IF k = 1 THEN f ELSE y>>]
    BY <1>2, <1>3, <1>4, <1>5 DEF Pairs10
  <2> QED
    BY <1>4, <1>5, <1>6, <2>1, PairsConcat
<1>8. PICK n \in Nat, m \in Nat : n = Len(a) /\ m = Len(p)
  BY <1>4, <1>6
<1>9. s \in Seq(Int \X Int) /\ Len(s) = n + m
      /\ (\A k \in 1..n : s[k] = <<0, a[k]>>)
      /\ (\A k \in 1..m : s[n + k] = <<p[k], IF k = 1 THEN f ELSE y>>)
  BY <1>7, <1>8 DEF PairsTo
<1>10. PICK W \in Nat \ {0} : W = n + m /\ n < W
  <2>1. m # 0
    BY <1>2, <1>3, <1>8 DEF PartsSay
  <2> QED
    BY <1>8, <2>1
<1> DEFINE B == [j \in 0..W |-> IF j <= n THEN 0 ELSE UpToPart(w, 254, j - n)]
           A == [j \in 0..W |-> IF j <= n THEN U[j] ELSE Total10(d)]
<1>11. /\ UpToPart(w, 254, 0) = 0 /\ UpToPart(w, 254, m) = w
       /\ \A k \in 0..m : UpToPart(w, 254, k) \in 0..w
       /\ \A k \in 1..m : p[k] = UpToPart(w, 254, k) - UpToPart(w, 254, k - 1)
  BY <1>3, <1>8 DEF PartsSay
<1>12. /\ U \in [0..n -> Int] /\ U[0] = 0
       /\ \A j \in 1..n : Means(a[j], U[j] - U[j - 1])
       /\ Means(f, Total10(d) - U[n]) /\ Means(y, 0)
  BY <1>1, <1>4, <1>5, <1>8 DEF Steps10
<1>13. B \in [0..W -> Nat] /\ B[0] = 0 /\ B[W] = w /\ \A j \in 0..W : B[j] <= w
  <2>1. \A j \in 0..W : j <= n \/ (j - n \in 0..m)
    BY <1>8, <1>10
  <2>2. \A j \in 0..W : (IF j <= n THEN 0 ELSE UpToPart(w, 254, j - n)) \in 0..w
    <3> SUFFICES ASSUME NEW j \in 0..W PROVE (IF j <= n THEN 0 ELSE UpToPart(w, 254, j - n)) \in 0..w
      OBVIOUS
    <3>1. CASE j <= n
      BY <3>1, <1>2
    <3>2. CASE ~(j <= n)
      BY <3>2, <2>1, <1>11
    <3> QED
      BY <3>1, <3>2
  <2>3. B[0] = 0 /\ B[W] = w
    <3>1. 0 \in 0..W /\ W \in 0..W /\ 0 <= n /\ ~(W <= n) /\ W - n = m
      BY <1>8, <1>10
    <3> QED
      BY <3>1, <1>11
  <2>4. \A j \in 0..W : B[j] \in 0..w
    BY <2>2
  <2> HIDE DEF B
  <2>5. \A j \in 0..W : B[j] \in Nat /\ B[j] <= w
    BY <2>4
  <2>6. B = [j \in 0..W |-> B[j]]
    BY DEF B
  <2> QED
    BY <2>3, <2>5, <2>6
<1>14. A \in [0..W -> Int] /\ A[0] = 0 /\ A[W] = Total10(d)
  <2>1. \A j \in 0..W : (IF j <= n THEN U[j] ELSE Total10(d)) \in Int
    BY <1>1, <1>8, <1>12
  <2>2. 0 \in 0..W /\ W \in 0..W /\ 0 <= n /\ ~(W <= n)
    BY <1>8, <1>10
  <2> QED
    BY <1>12, <2>1, <2>2
<1>15. Ordered(10, W, B, A)
  <2>1. \A j \in 1..W : B[j] > 0 => ~(j <= n)
    <3> SUFFICES ASSUME NEW j \in 1..W, j <= n PROVE ~(B[j] > 0)
      OBVIOUS
    <3>1. B[j] = 0
      OBVIOUS
    <3> QED
      BY <3>1
  <2>2. \A j \in 1..W : ~(j <= n) => A[j] = Total10(d)
    OBVIOUS
  <2> HIDE DEF B, A
  <2> QED
    BY <1>14, <2>1, <2>2 DEF Ordered
<1>16. ASSUME NEW j \in 1..W
       PROVE  \E x, z : s[j] = <<x, z>> /\ PairFor(10, x, z, B[j] - B[j - 1], A[j] - A[j - 1])
  <2>1. j \in 0..W /\ j - 1 \in 0..W
    BY <1>10
  <2>2. CASE j <= n
    <3>1. j \in 1..n /\ j - 1 <= n
      BY <2>2
    <3>2. B[j] - B[j - 1] = 0 /\ A[j] - A[j - 1] = U[j] - U[j - 1]
      BY <2>1, <2>2, <3>1
    <3> HIDE DEF B, A
    <3>3. s[j] = <<0, a[j]>> /\ Means(a[j], U[j] - U[j - 1])
      BY <1>9, <1>12, <3>1
    <3>4. PairFor(10, 0, a[j], 0, U[j] - U[j - 1])
      <4>1. 0 \in 0..255 /\ 0 # 255 /\ 10 # 9
        OBVIOUS
      <4> QED
        BY <3>3, <4>1 DEF PairFor, Means
    <3>5. PairFor(10, 0, a[j], B[j] - B[j - 1], A[j] - A[j - 1])
      BY <3>2, <3>4, Zenon
    <3>6. PICK x, z : x = 0 /\ z = a[j]
      OBVIOUS
    <3>7. s[j] = <<x, z>> /\ PairFor(10, x, z, B[j] - B[j - 1], A[j] - A[j - 1])
      BY <3>3, <3>5, <3>6, Zenon
    <3> QED
      BY <3>7, Zenon
  <2>3. CASE ~(j <= n)
    <3>1. PICK k \in 1..m : k = j - n /\ j = n + k
      <4>1. j - n \in 1..m /\ j = n + (j - n)
        BY <1>8, <1>10, <2>3
      <4> HIDE DEF B, A
      <4> QED
        BY <4>1
    <3>2. s[j] = <<p[k], IF k = 1 THEN f ELSE y>>
      BY <1>9, <3>1
    <3>3. p[k] \in 0..255 /\ p[k] # 255
      <4>1. p[k] \in 1..254
        BY <1>6, <1>8, ElementsOf
      <4> QED
        BY <4>1
    <3>4. B[j] - B[j - 1] = p[k]
      <4>1. B[j] = UpToPart(w, 254, k)
        BY <2>1, <2>3, <3>1
      <4>2. B[j - 1] = UpToPart(w, 254, k - 1)
        <5>1. CASE k = 1
          <6>1. j - 1 <= n /\ k - 1 = 0
            BY <5>1, <3>1
          <6> QED
            BY <6>1, <2>1, <1>11
        <5>2. CASE k # 1
          <6>1. ~(j - 1 <= n) /\ (j - 1) - n = k - 1
            BY <5>2, <3>1, <1>8
          <6> QED
            BY <6>1, <2>1
        <5> QED
          BY <5>1, <5>2
      <4> HIDE DEF B
      <4> QED
        BY <4>1, <4>2, <1>11
    <3>5. Means(IF k = 1 THEN f ELSE y, A[j] - A[j - 1])
      <4>1. A[j] = Total10(d)
        BY <2>1, <2>3
      <4>2. CASE k = 1
        <5>1. j - 1 <= n /\ j - 1 = n
          BY <4>2, <3>1, <1>8
        <5>2. A[j - 1] = U[n]
          BY <2>1, <5>1
        <5> HIDE DEF A
        <5> QED
          BY <1>12, <4>1, <4>2, <5>2
      <4>3. CASE k # 1
        <5>1. ~(j - 1 <= n)
          BY <4>3, <3>1, <1>8
        <5>2. A[j - 1] = Total10(d)
          BY <2>1, <5>1
        <5> HIDE DEF A
        <5>3. A[j] - A[j - 1] = 0
          BY <1>1, <4>1, <5>2
        <5> QED
          BY <1>12, <4>3, <5>3
      <4> QED
        BY <4>2, <4>3
    <3> HIDE DEF B, A
    <3>6. PICK z : z = IF k = 1 THEN f ELSE y
      OBVIOUS
    <3>7. z \in Int /\ 10 # 9
      BY <1>5, <3>6
    <3>8. Means(z, A[j] - A[j - 1]) /\ s[j] = <<p[k], z>>
      BY <3>2, <3>5, <3>6, Zenon
    <3>9. PairFor(10, p[k], z, B[j] - B[j - 1], A[j] - A[j - 1])
      BY <3>3, <3>4, <3>7, <3>8 DEF PairFor
    <3> QED
      BY <3>8, <3>9, Zenon
  <2> QED
    BY <2>2, <2>3
<1> HIDE DEF B, A
<1>17. PICK t : t = L!Linetable(u, d) /\ PairsSay(t, s) /\ t \in Seq(0..255)
  <2>1. PairsSay(L!Pairs(s), s)
    BY <1>9, PairsAre
  <2> QED
    BY <1>7, <2>1, LinetableIs DEF PairsSay
<1>18. Profiled(10, t, B[W], A[W])
  <2>1. W = Len(s) /\ 10 \in 9..10
    BY <1>9, <1>10
  <2>2. \A j \in 0..W : B[j] <= B[W]
    BY <1>13
  <2> QED
    BY <1>9, <1>13, <1>14, <1>15, <1>16, <1>17, <2>1, <2>2, PairProfile
<1> QED
  BY <1>2, <1>13, <1>14, <1>17, <1>18

(* The pairs of a run in 3.9. *)
There(far) == IF far = <<>> THEN 0 ELSE L!Last(far)
Pairs9(far, t) ==
  [k \in 1..(Len(far) - 1) |-> <<far[k], 0>>]
    \o [k \in DOMAIN t |-> <<IF k = 1 THEN There(far) ELSE 0, t[k]>>]

(* The table of a run of 3.9 is that of its pairs.                         *)
LEMMA LnotabIs ==
  ASSUME NEW n, NEW d
  PROVE  L!Lnotab(n, d) =
           L!Pairs(Pairs9(L!Parts(n, 255), L!Strides(d) \o <<L!LastStride(d)>>))
  BY DEF L!Lnotab, Pairs9, There

(* The same of 3.9.                                                        *)
PairsTo9(s, far, t, n, z) ==
  /\ s \in Seq(Int \X Int) /\ Len(s) = n + Len(t)
  /\ \A k \in 1..n : s[k] = <<far[k], 0>>
  /\ \A k \in 1..Len(t) : s[n + k] = <<IF k = 1 THEN z ELSE 0, t[k]>>

(* The pairs of a run of 3.9: to its first instruction, then to its line.  *)
LEMMA PairsConcat9 ==
  ASSUME NEW far \in Seq(Int), NEW t \in Seq(Int), NEW n \in Nat,
         1..(Len(far) - 1) = 1..n, n <= Len(far), There(far) \in Int
  PROVE  PairsTo9(Pairs9(far, t), far, t, n, There(far))
<1> DEFINE b == [k \in 1..n |-> <<far[k], 0>>]
           c == [k \in DOMAIN t |-> <<IF k = 1 THEN There(far) ELSE 0, t[k]>>]
           S == Int \X Int
<1>1. PICK m \in Nat : m = Len(t) /\ DOMAIN t = 1..m
  OBVIOUS
<1>2. b \in [1..n -> S] /\ \A k \in 1..n : b[k] = <<far[k], 0>>
  <2>1. \A k \in 1..n : far[k] \in Int
    <3>1. \A k \in 1..Len(far) : far[k] \in Int
      BY ElementsOf
    <3> QED
      BY <3>1
  <2> QED
    BY SMTT(30), <2>1
<1>3. c \in [1..m -> S] /\ \A k \in 1..m : c[k] = <<IF k = 1 THEN There(far) ELSE 0, t[k]>>
  <2>1. \A k \in 1..m : t[k] \in Int
    BY <1>1, ElementsOf
  <2> QED
    BY <1>1, <2>1
<1> HIDE DEF b, c, S
<1>4. Concat(S, n, m, b, c, b \o c)
  <2>1. b \in [1..n -> S] /\ c \in [1..m -> S]
    BY <1>2, <1>3
  <2> QED
    BY <2>1, ConcatLaid, Zenon
<1>5. /\ b \o c \in Seq(S) /\ Len(b \o c) = n + m
      /\ \A k \in 1..n : (b \o c)[k] = b[k]
      /\ \A k \in 1..m : (b \o c)[n + k] = c[k]
  BY <1>4 DEF Concat
<1>6. Pairs9(far, t) = b \o c
  BY DEF Pairs9, b, c
<1> QED
  BY <1>1, <1>2, <1>3, <1>5, <1>6 DEF PairsTo9, S

(* The table of a run of 3.9: the line changes when all the instructions   *)
(* of the run before are counted.                                          *)
LEMMA LnotabProfiled ==
  ASSUME NEW w \in Nat, NEW d \in Int
  PROVE  /\ L!Lnotab(w, d) \in Seq(0..255)
         /\ Profiled(9, L!Lnotab(w, d), w, d)
<1>1. PICK far : far = L!Parts(w, 255) /\ PartsSay(far, w, 255)
  BY PartsAre
<1>2. PICK t : t = L!Strides(d) \o <<L!LastStride(d)>> /\ StridesSay(t, d)
  BY StridesAre
<1>3. far \in Seq(Int) /\ far \in Seq(1..255) /\ Len(far) \in Nat
  <2>1. 1..255 \subseteq Int
    OBVIOUS
  <2>2. far \in Seq(1..255)
    BY <1>1 DEF PartsSay
  <2>3. far \in Seq(Int)
    BY <2>1, <2>2, Widened, Zenon
  <2> QED
    BY <2>2, <2>3
<1>4. t \in Seq(Int) /\ t \in Seq(-127..127)
  <2>1. -127..127 \subseteq Int
    OBVIOUS
  <2>2. t \in Seq(-127..127)
    BY <1>2 DEF StridesSay
  <2> QED
    BY <2>1, <2>2, Widened
<1>5. PICK m \in Nat \ {0} : m = Len(t)
  <2>1. Len(t) = Len(L!Strides(d)) + 1 /\ Len(t) \in Nat /\ Len(L!Strides(d)) \in Nat
    <3>1. L!Strides(d) \in Seq(-127..127)
      BY StridesAre
    <3>2. Len(L!Strides(d)) \in Nat
      BY <3>1
    <3> QED
      BY <1>2, <1>4, <3>2 DEF StridesSay
  <2> QED
    BY <2>1
<1>6. PICK n \in Nat : n = IF Len(far) = 0 THEN 0 ELSE Len(far) - 1
  <2>1. (IF Len(far) = 0 THEN 0 ELSE Len(far) - 1) \in Nat
    BY <1>3
  <2> QED
    BY <2>1, Zenon
<1>7. 1..(Len(far) - 1) = 1..n /\ n <= Len(far)
  BY <1>3, <1>6
<1>8. /\ UpToPart(w, 255, 0) = 0 /\ UpToPart(w, 255, Len(far)) = w
      /\ (Len(far) = 0 <=> w = 0)
      /\ \A k \in 0..Len(far) : UpToPart(w, 255, k) \in 0..w
      /\ \A k \in 1..Len(far) : far[k] = UpToPart(w, 255, k) - UpToPart(w, 255, k - 1)
  BY <1>1 DEF PartsSay
<1>9. There(far) \in 0..255 /\ There(far) = w - UpToPart(w, 255, n)
  <2>1. CASE far = <<>>
    <3>1. Len(far) = 0 /\ n = 0 /\ w = 0 /\ There(far) = 0
      BY <2>1, <1>6, <1>8 DEF There
    <3> QED
      BY <1>8, <3>1
  <2>2. CASE far # <<>>
    <3>1. Len(far) # 0
      BY <2>2, <1>3
    <3>2. Len(far) \in 1..Len(far) /\ Len(far) - 1 = n
      BY <3>1, <1>3, <1>6
    <3>3. There(far) = far[Len(far)]
      BY <2>2 DEF There, L!Last
    <3>4. far[Len(far)] \in 1..255
      BY <1>3, <3>2, ElementsOf
    <3>5. far[Len(far)] = w - UpToPart(w, 255, n)
      BY <1>8, <3>2
    <3> QED
      BY <3>3, <3>4, <3>5
  <2> QED
    BY <2>1, <2>2
<1>10. /\ UpToStride(d, 0) = 0 /\ UpToStride(d, m) = d
       /\ \A j \in 0..m : UpToStride(d, j) \in Int
       /\ \A j \in 1..m : t[j] = UpToStride(d, j) - UpToStride(d, j - 1)
  BY <1>2, <1>5 DEF StridesSay
<1>11. PICK s : s = Pairs9(far, t) /\ PairsTo9(s, far, t, n, There(far))
  <2>1. There(far) \in Int
    BY <1>9
  <2> QED
    BY <1>3, <1>4, <1>7, <2>1, PairsConcat9, Zenon
<1>12. s \in Seq(Int \X Int) /\ Len(s) = n + m
       /\ (\A k \in 1..n : s[k] = <<far[k], 0>>)
       /\ (\A k \in 1..m : s[n + k] = <<IF k = 1 THEN There(far) ELSE 0, t[k]>>)
  BY <1>11, <1>5 DEF PairsTo9
<1>13. PICK W \in Nat \ {0} : W = n + m /\ n < W
  BY <1>5
<1> DEFINE B == [j \in 0..W |-> IF j <= n THEN UpToPart(w, 255, j) ELSE w]
           A == [j \in 0..W |-> IF j <= n THEN 0 ELSE UpToStride(d, j - n)]
<1>14. B \in [0..W -> Nat] /\ B[0] = 0 /\ B[W] = w /\ \A j \in 0..W : B[j] <= w
  <2>1. \A j \in 0..W : B[j] \in 0..w
    <3> SUFFICES ASSUME NEW j \in 0..W PROVE B[j] \in 0..w
      OBVIOUS
    <3>1. CASE j <= n
      <4>1. j \in 0..Len(far)
        BY <3>1, <1>3, <1>7
      <4> QED
        BY <3>1, <4>1, <1>8
    <3>2. CASE ~(j <= n)
      BY <3>2
    <3> QED
      BY <3>1, <3>2
  <2>2. B[0] = 0 /\ B[W] = w
    <3>1. 0 \in 0..W /\ W \in 0..W /\ 0 <= n /\ ~(W <= n)
      BY <1>13
    <3> QED
      BY <3>1, <1>8
  <2>3. B = [j \in 0..W |-> B[j]]
    OBVIOUS
  <2> HIDE DEF B
  <2>4. \A j \in 0..W : B[j] \in Nat /\ B[j] <= w
    BY <2>1
  <2> QED
    BY <2>2, <2>3, <2>4
<1>15. A \in [0..W -> Int] /\ A[0] = 0 /\ A[W] = d
  <2>1. \A j \in 0..W : ~(j <= n) => j - n \in 0..m
    BY <1>5, <1>13
  <2>2. \A j \in 0..W : (IF j <= n THEN 0 ELSE UpToStride(d, j - n)) \in Int
    BY <1>10, <2>1
  <2>3. 0 \in 0..W /\ W \in 0..W /\ 0 <= n /\ ~(W <= n) /\ W - n = m
    BY <1>5, <1>13
  <2> QED
    BY <1>10, <2>2, <2>3
<1>16. Ordered(9, W, B, A)
  <2>1. ASSUME NEW j \in 1..W, B[j] > B[j - 1] PROVE A[j - 1] = 0
    <3>1. j \in 0..W /\ j - 1 \in 0..W
      BY <1>13
    <3>2. CASE j - 1 <= n
      BY <3>1, <3>2
    <3>3. CASE ~(j - 1 <= n)
      <4>1. ~(j <= n)
        BY <3>3
      <4>2. B[j] = w /\ B[j - 1] = w
        BY <3>1, <3>3, <4>1
      <4> HIDE DEF B
      <4>3. FALSE
        BY <4>2, <2>1
      <4> QED
        BY <4>3
    <3> QED
      BY <3>2, <3>3
  <2> HIDE DEF B, A
  <2> QED
    BY <2>1 DEF Ordered
<1>17. ASSUME NEW j \in 1..W
       PROVE  \E x, z : s[j] = <<x, z>> /\ PairFor(9, x, z, B[j] - B[j - 1], A[j] - A[j - 1])
  <2>1. j \in 0..W /\ j - 1 \in 0..W
    BY <1>13
  <2>2. CASE j <= n
    <3>1. j \in 1..n /\ j - 1 <= n /\ j \in 1..Len(far)
      BY <2>2, <1>3, <1>7
    <3>2. B[j] - B[j - 1] = far[j] /\ A[j] - A[j - 1] = 0
      <4>1. B[j] = UpToPart(w, 255, j) /\ B[j - 1] = UpToPart(w, 255, j - 1)
        BY <2>1, <2>2, <3>1
      <4>2. A[j] = 0 /\ A[j - 1] = 0
        BY <2>1, <2>2, <3>1
      <4> HIDE DEF B, A
      <4> QED
        BY <4>1, <4>2, <3>1, <1>8
    <3> HIDE DEF B, A
    <3>3. PICK x, z : x = far[j] /\ z = 0
      OBVIOUS
    <3>4. x \in 0..255 /\ z \in Int /\ z \in -127..127 /\ 9 # 10
      <4>1. far[j] \in 1..255
        BY <1>3, <3>1, ElementsOf
      <4> QED
        BY <3>3, <4>1
    <3>5. x = B[j] - B[j - 1] /\ z = A[j] - A[j - 1]
      BY <3>2, <3>3
    <3>6. PairFor(9, x, z, B[j] - B[j - 1], A[j] - A[j - 1])
      BY <3>4, <3>5 DEF PairFor
    <3>7. s[j] = <<x, z>>
      BY <1>12, <3>1, <3>3
    <3> QED
      BY <3>6, <3>7, Zenon
  <2>3. CASE ~(j <= n)
    <3>1. PICK k \in 1..m : k = j - n /\ j = n + k
      <4>1. j - n \in 1..m /\ j = n + (j - n)
        BY <1>5, <1>13, <2>3
      <4> HIDE DEF B, A
      <4> QED
        BY <4>1
    <3>2. s[j] = <<IF k = 1 THEN There(far) ELSE 0, t[k]>>
      BY <1>12, <3>1
    <3>3. B[j] - B[j - 1] = IF k = 1 THEN There(far) ELSE 0
      <4>1. B[j] = w
        BY <2>1, <2>3
      <4>2. CASE k = 1
        <5>1. j - 1 <= n /\ j - 1 = n
          BY <4>2, <3>1, <1>6
        <5>2. B[j - 1] = UpToPart(w, 255, n)
          BY <2>1, <5>1
        <5> HIDE DEF B
        <5> QED
          BY <1>9, <4>1, <4>2, <5>2
      <4>3. CASE k # 1
        <5>1. ~(j - 1 <= n)
          BY <4>3, <3>1, <1>6
        <5>2. B[j - 1] = w
          BY <2>1, <5>1
        <5> HIDE DEF B
        <5> QED
          BY <4>1, <4>3, <5>2
      <4> QED
        BY <4>2, <4>3
    <3>4. A[j] - A[j - 1] = t[k]
      <4>1. A[j] = UpToStride(d, k)
        BY <2>1, <2>3, <3>1
      <4>2. A[j - 1] = UpToStride(d, k - 1)
        <5>1. CASE k = 1
          <6>1. j - 1 <= n /\ k - 1 = 0
            BY <5>1, <3>1, <1>6
          <6> QED
            BY <6>1, <2>1, <1>10
        <5>2. CASE k # 1
          <6>1. ~(j - 1 <= n) /\ (j - 1) - n = k - 1
            BY <5>2, <3>1, <1>6
          <6> QED
            BY <6>1, <2>1
        <5> QED
          BY <5>1, <5>2
      <4> HIDE DEF A
      <4> QED
        BY <4>1, <4>2, <1>10
    <3> HIDE DEF B, A
    <3>5. PICK x, z : x = (IF k = 1 THEN There(far) ELSE 0) /\ z = t[k]
      OBVIOUS
    <3>6. x \in 0..255 /\ z \in Int /\ z \in -127..127 /\ 9 # 10
      <4>1. t[k] \in -127..127
        BY <1>4, <1>5, <3>1, ElementsOf
      <4>2. x \in 0..255
        BY <1>9, <3>5
      <4> QED
        BY <3>5, <4>1, <4>2
    <3>7. x = B[j] - B[j - 1] /\ z = A[j] - A[j - 1]
      BY <3>3, <3>4, <3>5
    <3>8. PairFor(9, x, z, B[j] - B[j - 1], A[j] - A[j - 1])
      BY <3>6, <3>7 DEF PairFor
    <3>9. s[j] = <<x, z>>
      BY <3>2, <3>5, Zenon
    <3> QED
      BY <3>8, <3>9, Zenon
  <2> QED
    BY <2>2, <2>3
<1> HIDE DEF B, A
<1>18. PICK q : q = L!Lnotab(w, d) /\ PairsSay(q, s) /\ q \in Seq(0..255)
  <2>1. PairsSay(L!Pairs(s), s)
    BY <1>12, PairsAre
  <2>2. L!Lnotab(w, d) = L!Pairs(s)
    BY <1>1, <1>2, <1>11, LnotabIs
  <2> QED
    BY <2>1, <2>2 DEF PairsSay
<1>19. Profiled(9, q, B[W], A[W])
  <2>1. W = Len(s) /\ 9 \in 9..10
    BY <1>12, <1>13
  <2>2. \A j \in 0..W : B[j] <= B[W]
    BY <1>14
  <2> QED
    BY <1>12, <1>14, <1>15, <1>16, <1>17, <1>18, <2>1, <2>2, PairProfile
<1> QED
  BY <1>14, <1>15, <1>18, <1>19

(* What is known of a run. *)
RunSays(v, run) ==
  /\ run.units \in Nat \ {0}
  /\ run.delta = nullptr \/ run.delta \in Int
  /\ v = 9 => run.delta \in Int
  /\ v = 11 => /\ run.code \in 0..15 /\ Coded(run.delta, run.code)
               /\ run.code = 15 <=> run.delta = nullptr

(* A code that the compiler may choose goes with the line.                 *)
LEMMA CodesSay ==
  ASSUME NEW d, d = nullptr \/ d \in Int, NEW c \in L!Codes(d)
  PROVE  c \in 0..15 /\ Coded(d, c) /\ (c = 15 <=> d = nullptr)
<1>1. CASE d = nullptr
  <2>1. L!Codes(d) = {15}
    <3>1. d # 0 /\ d \notin 1..2
      BY <1>1, LinesAssumption
    <3> QED
      BY <1>1, <3>1 DEF L!Codes
  <2> QED
    BY <1>1, <2>1 DEF Coded
<1>2. CASE d # nullptr /\ d = 0
  <2>1. L!Codes(d) = {0, 9, 10, 13, 14}
    BY <1>2 DEF L!Codes
  <2> QED
    BY <1>2, <2>1 DEF Coded
<1>3. CASE d # nullptr /\ d \in 1..2
  <2>1. L!Codes(d) = {10 + d, 13, 14}
    BY <1>3 DEF L!Codes
  <2> QED
    BY <1>3, <2>1 DEF Coded
<1>4. CASE d # nullptr /\ d # 0 /\ d \notin 1..2
  <2>1. L!Codes(d) = {13, 14}
    BY <1>4 DEF L!Codes
  <2> QED
    BY <1>4, <2>1 DEF Coded
<1> QED
  BY <1>1, <1>2, <1>3, <1>4

(* A run of the compiler is such a run.                                    *)
LEMMA RunIs ==
  ASSUME NEW v \in 9..11, NEW run \in L!Run(v)
  PROVE  RunSays(v, run)
<1>1. PICK d \in IF v = 9 THEN Deltas ELSE Deltas \cup {nullptr} :
        run \in [units : Units[v], delta : {d},
                 code : IF v = 11 THEN L!Codes(d) ELSE {15}]
  BY DEF L!Run
<1>2. run.units \in Nat \ {0} /\ run.delta = d
  BY <1>1, LinesAssumption
<1>3. (d = nullptr \/ d \in Int) /\ (v = 9 => d \in Int)
  BY <1>1, LinesAssumption
<1>4. CASE v = 11
  <2>1. run.code \in L!Codes(d)
    BY <1>1, <1>4
  <2>2. run.code \in 0..15 /\ Coded(d, run.code) /\ (run.code = 15 <=> d = nullptr)
    BY <1>3, <2>1, CodesSay
  <2>3. v # 9
    BY <1>4
  <2> QED
    BY <1>2, <1>3, <2>2, <2>3 DEF RunSays
<1>5. CASE v # 11
  BY <1>2, <1>3, <1>5 DEF RunSays
<1> QED
  BY <1>4, <1>5

-----------------------------------------------------------------------------
(* The entries of a run in 3.11. *)
LineAt(run, k) == IF k = 1 \/ run.delta = nullptr THEN run.delta ELSE 0
CodeAt(run, k) ==
  IF k = 1 \/ run.delta = nullptr THEN run.code
  ELSE IF run.code \in 10..12 THEN 10 ELSE run.code
EntryOf(run, k) == L!Entry(L!Parts(run.units, 8)[k], LineAt(run, k), CodeAt(run, k))

(* The entries of a run of 3.11 are those of its parts.                    *)
LEMMA EntriesOfRun ==
  ASSUME NEW run
  PROVE  L!Entries(run) =
           FlattenSeq([k \in DOMAIN L!Parts(run.units, 8) |-> EntryOf(run, k)])
<1> DEFINE parts == L!Parts(run.units, 8)
<1>1. \A k : EntryOf(run, k) =
        IF k = 1 \/ run.delta = nullptr THEN L!Entry(parts[k], run.delta, run.code)
        ELSE L!Entry(parts[k], 0, IF run.code \in 10..12 THEN 10 ELSE run.code)
  BY DEF EntryOf, LineAt, CodeAt
<1>2. L!Entries(run) = L!FlattenSeq([k \in DOMAIN parts |->
        IF k = 1 \/ run.delta = nullptr THEN L!Entry(parts[k], run.delta, run.code)
        ELSE L!Entry(parts[k], 0, IF run.code \in 10..12 THEN 10 ELSE run.code)])
  BY DEF L!Entries
<1>3. L!Entries(run) = L!FlattenSeq([k \in DOMAIN parts |-> EntryOf(run, k)])
  BY <1>1, <1>2
<1> QED
  BY <1>3, Flat

(* The k-th part adds the line of the run if it is the first.              *)
Gains(run, k) ==
  /\ CodeAt(run, k) \in 0..15 /\ Coded(LineAt(run, k), CodeAt(run, k))
  /\ Gain(LineAt(run, k), CodeAt(run, k)) = IF k = 1 THEN L!Advance(run) ELSE 0

(* The first part of a run has its line, the others stay there.            *)
LEMMA GainsAre ==
  ASSUME NEW run, RunSays(11, run), NEW k
  PROVE  Gains(run, k) /\ L!Advance(run) \in Int
<1>1. /\ run.code \in 0..15 /\ Coded(run.delta, run.code)
      /\ run.code = 15 <=> run.delta = nullptr
      /\ run.delta = nullptr \/ run.delta \in Int
  BY DEF RunSays
<1>2. CASE run.delta = nullptr
  <2>1. LineAt(run, k) = run.delta /\ CodeAt(run, k) = run.code /\ L!Advance(run) = 0
    BY <1>2 DEF LineAt, CodeAt, L!Advance
  <2>2. Gain(run.delta, run.code) = 0
    BY <1>1, <1>2 DEF Gain
  <2> QED
    BY <1>1, <2>1, <2>2 DEF Gains
<1>3. CASE run.delta # nullptr /\ k = 1
  <2>1. LineAt(run, k) = run.delta /\ CodeAt(run, k) = run.code /\ L!Advance(run) = run.delta
    BY <1>3 DEF LineAt, CodeAt, L!Advance
  <2>2. Gain(run.delta, run.code) = run.delta
    BY <1>1, <1>3 DEF Gain
  <2> QED
    BY <1>1, <1>3, <2>1, <2>2 DEF Gains
<1>4. CASE run.delta # nullptr /\ k # 1
  <2> DEFINE c == IF run.code \in 10..12 THEN 10 ELSE run.code
  <2>1. LineAt(run, k) = 0 /\ CodeAt(run, k) = c /\ L!Advance(run) = run.delta
    BY <1>4 DEF LineAt, CodeAt, L!Advance
  <2>2. c \in 0..15 /\ c # 15 /\ (c \in 0..9 \/ c = 10 \/ c \in 13..14)
    BY <1>1, <1>4
  <2> HIDE DEF c
  <2>3. Coded(0, c) /\ Gain(0, c) = 0
    BY <2>2 DEF Coded, Gain
  <2> QED
    BY <1>1, <1>4, <2>1, <2>2, <2>3 DEF Gains
<1> QED
  BY <1>2, <1>3, <1>4

(* The entries of a run of 3.11: one step for each part.                   *)
LEMMA EntriesProfiled ==
  ASSUME NEW run, RunSays(11, run)
  PROVE  /\ L!Entries(run) \in Seq(0..255)
         /\ Profiled(11, L!Entries(run), run.units, L!Advance(run))
<1>1. PICK w \in Nat : w = run.units /\ w # 0
  BY DEF RunSays
<1>2. PICK p : p = L!Parts(w, 8) /\ PartsSay(p, w, 8)
  BY PartsAre
<1>3. PICK n \in Nat \ {0} : n = Len(p) /\ DOMAIN p = 1..n
  <2>1. p \in Seq(1..8) /\ Len(p) # 0
    BY <1>1, <1>2 DEF PartsSay
  <2> QED
    BY <2>1
<1>4. /\ UpToPart(w, 8, 0) = 0 /\ UpToPart(w, 8, n) = w
      /\ \A k \in 0..n : UpToPart(w, 8, k) \in 0..w
      /\ \A k \in 1..n : p[k] = UpToPart(w, 8, k) - UpToPart(w, 8, k - 1)
  BY <1>2, <1>3 DEF PartsSay
<1>5. \A k \in 1..n : p[k] \in 1..8
  <2>1. p \in Seq(1..8)
    BY <1>2 DEF PartsSay
  <2> QED
    BY <1>3, <2>1, ElementsOf
<1> DEFINE ss == [k \in 1..n |-> EntryOf(run, k)]
           S == 0..255
<1>6. \A k \in 1..n : EntryOf(run, k) = L!Entry(p[k], LineAt(run, k), CodeAt(run, k))
  BY <1>1, <1>2 DEF EntryOf
<1>7. \A k \in 1..n : EntryOf(run, k) \in Seq(S)
  <2> SUFFICES ASSUME NEW k \in 1..n PROVE EntryOf(run, k) \in Seq(S)
    OBVIOUS
  <2>1. PICK u, e, c : u \in 1..8 /\ c \in 0..15 /\ u = p[k] /\ e = LineAt(run, k) /\ c = CodeAt(run, k)
                                       /\ Coded(e, c)
    <3>1. Gains(run, k) /\ p[k] \in 1..8
      BY SMTT(30), <1>5, GainsAre
    <3> QED
      BY <3>1 DEF Gains
  <2>2. L!Entry(u, e, c) \in Seq(0..255)
    BY Zenon, <2>1, EntryIs
  <2> QED
    BY <1>6, <2>1, <2>2
<1> HIDE DEF S
<1>8. ss \in [1..n -> Seq(S)]
  BY <1>7, Zenon
<1>9. ss \in Seq(Seq(S)) /\ Len(ss) = n
  <2> HIDE DEF ss
  <2> QED
    BY <1>8, IsSequence
<1>10. L!Entries(run) = FlattenSeq(ss)
  BY <1>1, <1>2, <1>3, EntriesOfRun
<1>11. \A k \in 1..n : ss[k] = L!Entry(p[k], LineAt(run, k), CodeAt(run, k))
  BY <1>6
<1> HIDE DEF ss
<1>12. PICK t, g : t \in Seq(S) /\ t = FlattenSeq(ss) /\ Laid(ss, t, g)
  BY <1>9, FlattenLaid
<1>13. /\ g \in [0..n -> Nat] /\ g[0] = 0 /\ g[n] = Len(t)
       /\ \A k \in 1..n : LaidAt(ss, t, g, k)
  BY <1>9, <1>12 DEF Laid
<1>14. PICK d \in Int : d = L!Advance(run)
  BY GainsAre
<1> DEFINE B == [j \in 0..n |-> UpToPart(w, 8, j)]
           A == [j \in 0..n |-> IF j = 0 THEN 0 ELSE d]
<1>15. B \in [0..n -> Nat] /\ B[0] = 0 /\ B[n] = w /\ \A j \in 0..n : B[j] <= w
  <2>1. \A j \in 0..n : UpToPart(w, 8, j) \in Nat /\ UpToPart(w, 8, j) <= w
    BY <1>4
  <2>2. 0 \in 0..n /\ n \in 0..n
    OBVIOUS
  <2> QED
    BY <1>4, <2>1, <2>2
<1>16. A \in [0..n -> Int] /\ A[0] = 0 /\ A[n] = d /\ \A j \in 1..n : A[j] = d
  <2>1. 0 \in 0..n /\ n \in 0..n /\ n # 0
    OBVIOUS
  <2> QED
    BY <2>1
<1>17. ASSUME NEW j \in 1..n
       PROVE  RecordAt(11, t, g[j - 1], g[j], B[j] - B[j - 1], A[j] - A[j - 1])
  <2>1. j \in 0..n /\ j - 1 \in 0..n
    OBVIOUS
  <2>2. B[j] - B[j - 1] = p[j]
    <3>1. B[j] = UpToPart(w, 8, j) /\ B[j - 1] = UpToPart(w, 8, j - 1)
      BY <2>1
    <3> HIDE DEF B
    <3> QED
      BY <1>4, <3>1
  <2>3. A[j] - A[j - 1] = IF j = 1 THEN d ELSE 0
    <3>1. A[j] = d
      BY <1>16
    <3>2. A[j - 1] = IF j = 1 THEN 0 ELSE d
      BY <2>1
    <3> HIDE DEF A
    <3> QED
      BY <3>1, <3>2
  <2> HIDE DEF B, A
  <2>4. PICK u, e, c : u \in 1..8 /\ c \in 0..15 /\ u = p[j] /\ e = LineAt(run, j) /\ c = CodeAt(run, j)
                /\ Coded(e, c) /\ Gain(e, c) = A[j] - A[j - 1]
    <3>1. Gains(run, j) /\ p[j] \in 1..8
      BY <1>5, GainsAre
    <3>2. (IF j = 1 THEN L!Advance(run) ELSE 0) = A[j] - A[j - 1]
      BY <1>14, <2>3
    <3> QED
      BY <3>1, <3>2 DEF Gains
  <2>5. ss[j] = L!Entry(u, e, c)
    BY <1>11, <2>4
  <2>6. /\ g[j] = g[j - 1] + Len(ss[j]) /\ g[j] <= Len(t)
        /\ \A m \in 1..Len(ss[j]) : t[g[j - 1] + m] = ss[j][m]
    BY <1>13 DEF LaidAt
  <2>7. u = B[j] - B[j - 1]
    BY <2>2, <2>4
  <2> HIDE DEF S
  <2>8. RecordAt(11, t, g[j - 1], g[j], u, A[j] - A[j - 1])
    <3>1. 11 # 9 /\ 11 # 10
      OBVIOUS
    <3>2. EntryAt(t, g[j - 1], g[j], u, A[j] - A[j - 1], c, e)
      BY <2>4, <2>5, <2>6, Zenon DEF EntryAt
    <3>3. \E cc, ee : EntryAt(t, g[j - 1], g[j], u, A[j] - A[j - 1], cc, ee)
      BY <3>2, Zenon
    <3> QED
      BY <2>6, <3>1, <3>3, Zenon DEF RecordAt
  <2> QED
    BY <2>7, <2>8, Zenon
<1>18. Ordered(11, n, B, A)
  <2> HIDE DEF B, A
  <2> QED
    BY <1>16 DEF Ordered
<1> HIDE DEF B, A
<1>19. Profile(11, t, n, g, B, A)
  BY <1>13, <1>15, <1>16, <1>17, <1>18, Zenon DEF Profile
<1>20. Profiled(11, t, w, d)
  BY <1>15, <1>16, <1>19, Zenon DEF Profiled
<1> QED
  BY <1>1, <1>10, <1>12, <1>14, <1>20 DEF S

(* Numbers are added up over their places.                                 *)
LEMMA TotalIs ==
  \A h : L!Total(h) = SumOver(h, DOMAIN h)
  BY DEF L!Total, L!MapThenSumSet, L!MapThenFoldSet, SumOver, MapThenSumSet, MapThenFoldSet

(* No numbers are 0 altogether.                                            *)
LEMMA TotalNone ==
  ASSUME NEW h \in [1..0 -> Int]
  PROVE  L!Total(h) = 0
<1>1. IsFiniteSet({}) /\ Numbered(h, {}) /\ DOMAIN h = {}
  BY FS_EmptySet DEF Numbered
<1>2. SumOver(h, {}) = 0
  BY <1>1, SumSplit
<1> QED
  BY <1>1, <1>2, TotalIs

(* One number more is added.                                               *)
LEMMA TotalNext ==
  ASSUME NEW k \in Nat, NEW h \in [1..(k + 1) -> Int], NEW g \in [1..k -> Int],
         \A m \in 1..k : g[m] = h[m]
  PROVE  /\ L!Total(h) \in Int /\ L!Total(g) \in Int
         /\ L!Total(h) = L!Total(g) + h[k + 1]
<1> DEFINE A == 1..(k + 1)
           B == 1..k
<1>1. IsFiniteSet(A) /\ IsFiniteSet(B) /\ k + 1 \in A /\ A \ {k + 1} = B
  <2>1. k + 1 \in Int /\ k \in Int /\ 1 \in Int
    OBVIOUS
  <2>2. IsFiniteSet(A) /\ IsFiniteSet(B)
    BY <2>1, FS_Interval
  <2>3. k + 1 \in A /\ A \ {k + 1} = B
    OBVIOUS
  <2> QED
    BY <2>2, <2>3
<1>2. Numbered(h, A) /\ Numbered(h, B) /\ Numbered(g, B)
  BY DEF Numbered
<1>3. DOMAIN h = A /\ DOMAIN g = B /\ \A x \in B : g[x] = h[x]
  OBVIOUS
<1> HIDE DEF A, B
<1>4. SumOver(h, A) \in Int /\ SumOver(h, A) = h[k + 1] + SumOver(h, B)
  BY <1>1, <1>2, SumSplit
<1>5. SumOver(h, B) \in Int
  BY <1>1, <1>2, SumSplit
<1>6. SumOver(g, B) = SumOver(h, B)
  BY <1>1, <1>2, <1>3, SumSame
<1>7. L!Total(h) = SumOver(h, A) /\ L!Total(g) = SumOver(g, B)
  BY <1>3, TotalIs
<1>8. h[k + 1] \in Int
  BY <1>1 DEF A
<1> QED
  BY <1>4, <1>5, <1>6, <1>7, <1>8

-----------------------------------------------------------------------------
(* How far the runs and their lines are. *)
AllRuns(v, rs, n) == n \in Nat /\ \A k \in 1..n : RunSays(v, rs[k])
LineOf(rs, k) == L!co_firstlineno + L!Total([m \in 1..k |-> L!Advance(rs[m])])

EndsAt(rs, k) ==
  /\ L!End(rs, k) \in Int /\ LineOf(rs, k) \in Int
  /\ L!End(rs, k + 1) = L!End(rs, k) + rs[k + 1].units
  /\ LineOf(rs, k + 1) = LineOf(rs, k) + L!Advance(rs[k + 1])

(* How far a run goes.                                                     *)
LEMMA AdvanceTyping ==
  ASSUME NEW v, NEW run, RunSays(v, run)
  PROVE  L!Advance(run) \in Int /\ run.units \in Nat \ {0}
  BY DEF RunSays, L!Advance

(* Nothing is before the first run.                                        *)
LEMMA EndsStart ==
  ASSUME NEW rs
  PROVE  L!End(rs, 0) = 0 /\ LineOf(rs, 0) = L!co_firstlineno
<1>1. [m \in 1..0 |-> rs[m].units] \in [1..0 -> Int] /\ [m \in 1..0 |-> L!Advance(rs[m])] \in [1..0 -> Int]
  OBVIOUS
<1>2. L!Total([m \in 1..0 |-> rs[m].units]) = 0 /\ L!Total([m \in 1..0 |-> L!Advance(rs[m])]) = 0
  BY <1>1, TotalNone, Zenon
<1> QED
  BY <1>2 DEF L!End, LineOf, L!co_firstlineno

(* What one more run adds.                                                 *)
LEMMA EndsNext ==
  ASSUME NEW v, NEW rs, NEW n, AllRuns(v, rs, n), NEW k \in 0..(n - 1)
  PROVE  EndsAt(rs, k)
<1>1. n \in Nat /\ k \in Nat /\ k + 1 \in 1..(k + 1) /\ \A m \in 1..(k + 1) : m \in 1..n
  BY DEF AllRuns
<1>2. \A m \in 1..(k + 1) : L!Advance(rs[m]) \in Int /\ rs[m].units \in Int
  <2> SUFFICES ASSUME NEW m \in 1..(k + 1) PROVE L!Advance(rs[m]) \in Int /\ rs[m].units \in Int
    OBVIOUS
  <2>1. RunSays(v, rs[m])
    BY <1>1 DEF AllRuns
  <2>2. L!Advance(rs[m]) \in Int /\ rs[m].units \in Nat \ {0}
    BY <2>1, AdvanceTyping
  <2> QED
    BY <2>2
<1> DEFINE h == [m \in 1..(k + 1) |-> rs[m].units]
           g == [m \in 1..k |-> rs[m].units]
           p == [m \in 1..(k + 1) |-> L!Advance(rs[m])]
           q == [m \in 1..k |-> L!Advance(rs[m])]
<1>3. /\ h \in [1..(k + 1) -> Int] /\ g \in [1..k -> Int]
      /\ p \in [1..(k + 1) -> Int] /\ q \in [1..k -> Int]
  BY <1>1, <1>2
<1>4. /\ \A m \in 1..k : g[m] = h[m] /\ q[m] = p[m]
      /\ h[k + 1] = rs[k + 1].units /\ p[k + 1] = L!Advance(rs[k + 1])
  BY <1>1
<1>5. /\ L!End(rs, k) = L!Total(g) /\ L!End(rs, k + 1) = L!Total(h)
      /\ LineOf(rs, k) = L!co_firstlineno + L!Total(q) /\ LineOf(rs, k + 1) = L!co_firstlineno + L!Total(p)
  BY DEF L!End, LineOf
<1>6. p[k + 1] \in Int
  BY <1>1, <1>2
<1> HIDE DEF h, g, p, q
<1>7. L!Total(h) \in Int /\ L!Total(g) \in Int /\ L!Total(h) = L!Total(g) + h[k + 1]
  BY <1>1, <1>3, <1>4, TotalNext
<1>8. L!Total(p) \in Int /\ L!Total(q) \in Int /\ L!Total(p) = L!Total(q) + p[k + 1]
  BY <1>1, <1>3, <1>4, TotalNext
<1> QED
  BY <1>4, <1>5, <1>6, <1>7, <1>8 DEF EndsAt, L!co_firstlineno

(* The runs follow each other. *)
LEMMA EndsUp ==
  ASSUME NEW v, NEW rs, NEW n, AllRuns(v, rs, n)
  PROVE  /\ \A k \in 0..n : L!End(rs, k) \in Nat
         /\ \A k \in 0..n : \A m \in 0..k : L!End(rs, m) <= L!End(rs, k)
<1> DEFINE E == {k \in Nat : k <= n =>
                   L!End(rs, k) \in Nat /\ \A m \in 0..k : L!End(rs, m) <= L!End(rs, k)}
<1>1. n \in Nat
  BY DEF AllRuns
<1>2. 0 \in E
  <2>1. \A m \in 0..0 : m = 0
    OBVIOUS
  <2> QED
    BY <2>1, EndsStart
<1>3. ASSUME NEW k \in Nat, k \in E PROVE k + 1 \in E
  <2> SUFFICES ASSUME k + 1 <= n
               PROVE  L!End(rs, k + 1) \in Nat
                      /\ \A m \in 0..(k + 1) : L!End(rs, m) <= L!End(rs, k + 1)
    OBVIOUS
  <2>1. k \in 0..(n - 1) /\ k + 1 \in 1..n
    BY <1>1
  <2>2. L!End(rs, k + 1) = L!End(rs, k) + rs[k + 1].units
    BY <2>1, EndsNext DEF EndsAt
  <2>3. rs[k + 1].units \in Nat \ {0}
    BY <2>1, AdvanceTyping DEF AllRuns
  <2>4. L!End(rs, k) \in Nat /\ \A m \in 0..k : L!End(rs, m) <= L!End(rs, k)
    BY <1>1, <1>3, <2>1
  <2> HIDE DEF E
  <2>5. L!End(rs, k) <= L!End(rs, k + 1) /\ L!End(rs, k + 1) \in Nat
    BY <2>2, <2>3, <2>4
  <2>6. \A m \in 0..(k + 1) : m \in 0..k \/ m = k + 1
    OBVIOUS
  <2>7. ASSUME NEW m \in 0..k PROVE L!End(rs, m) <= L!End(rs, k + 1)
    <3>1. k + 1 # 0
      OBVIOUS
    <3>2. m \in 0..(n - 1)
      BY <1>1, <2>1
    <3>3. L!End(rs, m) \in Int
      BY <3>2, EndsNext DEF EndsAt
    <3> QED
      BY <2>4, <2>5, <3>3
  <2> QED
    BY <2>5, <2>6, <2>7
<1> HIDE DEF E
<1>4. Nat \subseteq E
  BY <1>2, <1>3, SetInduction
<1>5. ASSUME NEW k \in 0..n
      PROVE  L!End(rs, k) \in Nat /\ \A m \in 0..k : L!End(rs, m) <= L!End(rs, k)
  BY <1>1, <1>4 DEF E
<1> QED
  BY <1>5

(* There is one run with an instruction. *)
LEMMA OneRun ==
  ASSUME NEW v, NEW rs, NEW n, AllRuns(v, rs, n), NEW x \in Int,
         NEW k \in 1..n, L!End(rs, k - 1) <= x, x < L!End(rs, k),
         NEW m \in 1..n, L!End(rs, m - 1) <= x, x < L!End(rs, m)
  PROVE  k = m
<1>1. n \in Nat
  BY DEF AllRuns
<1>2. k \in 0..n /\ k - 1 \in 0..n /\ m \in 0..n /\ m - 1 \in 0..n
  BY <1>1
<1>3. /\ L!End(rs, k) \in Nat /\ L!End(rs, k - 1) \in Nat
      /\ L!End(rs, m) \in Nat /\ L!End(rs, m - 1) \in Nat
  BY <1>2, EndsUp
<1>4. CASE k < m
  <2>1. k \in 0..(m - 1)
    BY <1>1, <1>4
  <2>2. L!End(rs, k) <= L!End(rs, m - 1)
    BY <1>2, <2>1, EndsUp
  <2> QED
    BY <1>3, <2>2
<1>5. CASE m < k
  <2>1. m \in 0..(k - 1)
    BY <1>1, <1>5
  <2>2. L!End(rs, m) <= L!End(rs, k - 1)
    BY <1>2, <2>1, EndsUp
  <2> QED
    BY <1>3, <2>2
<1> QED
  BY <1>1, <1>4, <1>5

(* The table of the k-th run, and the instructions that it counts. *)
RunTable(v, rs, k) ==
  CASE v = 9  -> L!Lnotab(IF k = 1 THEN 0 ELSE 2 * rs[k - 1].units, rs[k].delta)
    [] v = 10 -> L!Linetable(rs[k].units, rs[k].delta)
    [] v = 11 -> L!Entries(rs[k])

(* The instructions that the table of the k-th run counts,                 *)
Spans(v, rs, k) ==
  IF v = 9 THEN IF k = 1 THEN 0 ELSE 2 * rs[k - 1].units
  ELSE IF v = 10 THEN 2 * rs[k].units ELSE rs[k].units

(* and those that the tables before it have counted.                       *)
Before(v, rs, k) ==
  IF v = 9 THEN IF k = 1 THEN 0 ELSE 2 * L!End(rs, k - 2)
  ELSE IF v = 10 THEN 2 * L!End(rs, k - 1) ELSE L!End(rs, k - 1)

BeforeSays(v, rs, k) ==
  /\ Before(v, rs, k) \in Nat /\ Spans(v, rs, k) \in Nat
  /\ Before(v, rs, k + 1) = Before(v, rs, k) + Spans(v, rs, k)

(* Where the table of the next run starts to count. In 3.9 that is one run *)
(* behind.                                                                 *)
LEMMA BeforeIs ==
  ASSUME NEW v \in 9..11, NEW rs, NEW n, AllRuns(v, rs, n), NEW k \in 1..n
  PROVE  BeforeSays(v, rs, k)
<1>1. n \in Nat /\ k - 1 \in 0..(n - 1) /\ (k - 1) + 1 = k /\ k - 1 \in 0..n /\ k \in 0..n
  BY DEF AllRuns
<1>2. rs[k].units \in Nat \ {0}
  BY AdvanceTyping DEF AllRuns
<1>3. L!End(rs, k - 1) \in Nat /\ L!End(rs, k) \in Nat
  BY <1>1, EndsUp
<1>4. L!End(rs, k) = L!End(rs, k - 1) + rs[k].units
  <2>1. EndsAt(rs, k - 1)
    BY <1>1, EndsNext
  <2> QED
    BY <1>1, <2>1 DEF EndsAt
<1>5. k + 1 # 1 /\ (k + 1) - 1 = k /\ (k + 1) - 2 = k - 1
  OBVIOUS
<1>6. CASE v # 9
  BY <1>2, <1>3, <1>4, <1>5, <1>6 DEF BeforeSays, Before, Spans
<1>7. CASE v = 9 /\ k = 1
  <2>1. L!End(rs, 0) = 0 /\ k - 1 = 0
    BY <1>7, EndsStart
  <2>2. Before(v, rs, k) = 0 /\ Spans(v, rs, k) = 0 /\ Before(v, rs, k + 1) = 2 * L!End(rs, k - 1)
    BY <1>5, <1>7 DEF Before, Spans
  <2> QED
    BY <2>1, <2>2 DEF BeforeSays
<1>8. CASE v = 9 /\ k # 1
  <2>1. k - 2 \in 0..(n - 1) /\ (k - 2) + 1 = k - 1 /\ k - 2 \in 0..n /\ k - 1 \in 1..n
    BY <1>1, <1>8
  <2>2. L!End(rs, k - 2) \in Nat
    BY <2>1, EndsUp
  <2>3. L!End(rs, k - 1) = L!End(rs, k - 2) + rs[k - 1].units
    <3>1. EndsAt(rs, k - 2)
      BY <2>1, EndsNext
    <3> QED
      BY <2>1, <3>1 DEF EndsAt
  <2>4. rs[k - 1].units \in Nat \ {0}
    BY <2>1, AdvanceTyping DEF AllRuns
  <2>5. Before(v, rs, k) = 2 * L!End(rs, k - 2) /\ Spans(v, rs, k) = 2 * rs[k - 1].units
        /\ Before(v, rs, k + 1) = 2 * L!End(rs, k - 1)
    BY <1>5, <1>8 DEF Before, Spans
  <2> QED
    BY <2>2, <2>3, <2>4, <2>5 DEF BeforeSays
<1> QED
  BY <1>6, <1>7, <1>8

(* The table of a run counts its instructions and leads to its line, in    *)
(* each of the three formats.                                              *)
LEMMA RunProfiled ==
  ASSUME NEW v \in 9..11, NEW rs, NEW n, AllRuns(v, rs, n), NEW k \in 1..n
  PROVE  /\ RunTable(v, rs, k) \in Seq(0..255)
         /\ Profiled(v, RunTable(v, rs, k), Spans(v, rs, k), L!Advance(rs[k]))
<1>1. n \in Nat /\ RunSays(v, rs[k])
  BY DEF AllRuns
<1>2. /\ rs[k].units \in Nat \ {0}
      /\ rs[k].delta = nullptr \/ rs[k].delta \in Int
      /\ v = 9 => rs[k].delta \in Int
  BY <1>1 DEF RunSays
<1>3. CASE v = 9
  <2>1. PICK w \in Nat : w = IF k = 1 THEN 0 ELSE 2 * rs[k - 1].units
    <3>1. CASE k = 1
      BY <3>1
    <3>2. CASE k # 1
      <4>1. k - 1 \in 1..n
        BY <1>1, <3>2
      <4>2. rs[k - 1].units \in Nat \ {0}
        BY <4>1, AdvanceTyping DEF AllRuns
      <4>3. 2 * rs[k - 1].units \in Nat
        BY <4>2
      <4> QED
        BY <3>2, <4>3
    <3> QED
      BY <3>1, <3>2
  <2>2. PICK d \in Int : d = rs[k].delta
    BY <1>2, <1>3
  <2>3. d # nullptr
    BY LinesAssumption
  <2>4. RunTable(v, rs, k) = L!Lnotab(w, d)
    BY <1>3, <2>1, <2>2 DEF RunTable
  <2>5. Spans(v, rs, k) = w
    BY <1>3, <2>1 DEF Spans
  <2>6. L!Advance(rs[k]) = d
    BY <2>2, <2>3 DEF L!Advance
  <2> QED
    BY <1>3, <2>4, <2>5, <2>6, LnotabProfiled
<1>4. CASE v = 10
  <2>1. PICK u, d : u \in Nat \ {0} /\ u = rs[k].units /\ d = rs[k].delta /\ (d = nullptr \/ d \in Int)
    BY <1>2
  <2>2. RunTable(v, rs, k) = L!Linetable(u, d)
    BY <1>4, <2>1 DEF RunTable
  <2>3. Spans(v, rs, k) = 2 * u
    BY <1>4, <2>1 DEF Spans
  <2>4. L!Advance(rs[k]) = Total10(d)
    BY <2>1 DEF L!Advance, Total10
  <2>5. /\ L!Linetable(u, d) \in Seq(0..255)
        /\ Profiled(10, L!Linetable(u, d), 2 * u, Total10(d))
    BY ZenonT(60), <2>1, LinetableProfiled
  <2> QED
    BY <1>4, <2>2, <2>3, <2>4, <2>5, Zenon
<1>5. CASE v = 11
  <2>1. RunTable(v, rs, k) = L!Entries(rs[k])
    BY <1>5 DEF RunTable
  <2>2. Spans(v, rs, k) = rs[k].units
    BY <1>5 DEF Spans
  <2>3. RunSays(11, rs[k])
    BY <1>1, <1>5
  <2>4. /\ L!Entries(rs[k]) \in Seq(0..255)
        /\ Profiled(11, L!Entries(rs[k]), rs[k].units, L!Advance(rs[k]))
    BY <2>3, EntriesProfiled
  <2> QED
    BY <1>5, <2>1, <2>2, <2>4, Zenon
<1> QED
  BY <1>3, <1>4, <1>5

(* The table of the k-th run is in t from off[k - 1] on.                   *)
TableAt(v, rs, n, t, off) ==
  /\ off \in [0..n -> Nat] /\ off[0] = 0 /\ off[n] = Len(t)
  /\ \A k \in 1..n :
       /\ off[k] = off[k - 1] + Len(RunTable(v, rs, k)) /\ off[k] <= Len(t)
       /\ \A m \in 1..Len(RunTable(v, rs, k)) : t[off[k - 1] + m] = RunTable(v, rs, k)[m]

(* The table of a code object is those of its runs, one after the other.   *)
LEMMA TableLaid ==
  ASSUME NEW v \in 9..11, NEW rs, NEW n, AllRuns(v, rs, n), DOMAIN rs = 1..n
  PROVE  /\ L!Table(v, rs) \in Seq(0..255)
         /\ \E off : TableAt(v, rs, n, L!Table(v, rs), off)
<1> DEFINE ss == [k \in 1..n |-> RunTable(v, rs, k)]
           S == 0..255
<1>1. n \in Nat
  BY DEF AllRuns
<1>2. \A k \in 1..n : RunTable(v, rs, k) \in Seq(S)
  BY RunProfiled
<1>3. L!Table(v, rs) = FlattenSeq(ss)
  <2>1. L!Table(v, rs) = L!FlattenSeq(ss)
    BY DEF L!Table, RunTable
  <2> QED
    BY <2>1, Flat
<1>4. \A k \in 1..n : ss[k] = RunTable(v, rs, k)
  OBVIOUS
<1> HIDE DEF S
<1>5. ss \in [1..n -> Seq(S)]
  BY <1>2, Zenon
<1> HIDE DEF ss
<1>6. ss \in Seq(Seq(S)) /\ Len(ss) = n
  BY <1>1, <1>5, IsSequence
<1>7. PICK t, off : t = FlattenSeq(ss) /\ t \in Seq(S) /\ Laid(ss, t, off)
  BY <1>6, FlattenLaid
<1>8. TableAt(v, rs, n, t, off)
  BY <1>4, <1>6, <1>7 DEF Laid, LaidAt, TableAt
<1> QED
  BY <1>3, <1>7, <1>8 DEF S

(* A whole table, of n runs of which one has the instruction. *)
Whole(n) ==
  /\ n \in Nat \ {0} /\ AllRuns(format, runs, n) /\ DOMAIN runs = 1..n
  /\ table = L!Table(format, runs)
  /\ \E k \in 1..n : L!End(runs, k - 1) <= lasti /\ lasti < L!End(runs, k)

(* The steps of the k-th run. *)
Setting(n, k, off, W, g, B, A) ==
  /\ k \in 1..n /\ TableAt(format, runs, n, table, off)
  /\ Profile(format, RunTable(format, runs, k), W, g, B, A)
  /\ B[W] = Spans(format, runs, k) /\ A[W] = L!Advance(runs[k])

(* Byte a of the table is where a step of the k-th run ends, with what the *)
(* code has counted there.                                                 *)
PlaceAt(k, off, g, B, A, j, a, c, l) ==
  /\ a = off[k - 1] + g[j]
  /\ c = Before(format, runs, k) + B[j]
  /\ l = LineOf(runs, k - 1) + A[j]

(* Some step ends there.                                                   *)
Reached(n, a, c, l) ==
  \E k, off, W, g, B, A, j :
    Setting(n, k, off, W, g, B, A) /\ j \in 0..W /\ PlaceAt(k, off, g, B, A, j, a, c, l)

Settings(n, off, k) == \E W, g, B, A : Setting(n, k, off, W, g, B, A)

(* Every run has steps.                                                    *)
LEMMA SettingsExist ==
  ASSUME format \in 9..11, NEW n, Whole(n), NEW off, TableAt(format, runs, n, table, off),
         NEW k \in 1..n
  PROVE  Settings(n, off, k)
<1>1. AllRuns(format, runs, n)
  BY DEF Whole
<1>2. Profiled(format, RunTable(format, runs, k), Spans(format, runs, k), L!Advance(runs[k]))
  BY <1>1, RunProfiled
<1>3. PICK W, g, B, A : /\ Profile(format, RunTable(format, runs, k), W, g, B, A)
                        /\ B[W] = Spans(format, runs, k) /\ A[W] = L!Advance(runs[k])
  BY <1>2 DEF Profiled
<1>4. Setting(n, k, off, W, g, B, A)
  BY <1>3 DEF Setting
<1> QED
  BY <1>4 DEF Settings

(* Every whole table has places where the tables of its runs start.        *)
LEMMA TableExists ==
  ASSUME format \in 9..11, NEW n, Whole(n)
  PROVE  table \in Seq(0..255) /\ \E off : TableAt(format, runs, n, table, off)
  BY TableLaid DEF Whole

(* How steps of a run, places in the table and counts go together.         *)
LEMMA SettingSays ==
  ASSUME format \in 9..11, NEW n, Whole(n), NEW k, NEW off, NEW W, NEW g, NEW B, NEW A,
         Setting(n, k, off, W, g, B, A)
  PROVE  /\ n \in Nat /\ k \in 1..n /\ W \in Nat \ {0}
         /\ \A j \in 0..W : g[j] \in Nat /\ B[j] \in Nat /\ A[j] \in Int /\ B[j] <= B[W]
         /\ g[0] = 0 /\ B[0] = 0 /\ A[0] = 0
         /\ off[k - 1] \in Nat /\ off[k] = off[k - 1] + g[W] /\ off[k] <= Len(table)
         /\ off[0] = 0 /\ off[n] = Len(table)
         /\ Before(format, runs, k) \in Nat /\ LineOf(runs, k - 1) \in Int
         /\ Before(format, runs, k + 1) = Before(format, runs, k) + B[W]
         /\ LineOf(runs, k) = LineOf(runs, k - 1) + A[W]
<1>1. n \in Nat /\ k \in 1..n /\ W \in Nat \ {0} /\ AllRuns(format, runs, n)
  BY DEF Whole, Setting, Profile
<1>2. /\ \A j \in 0..W : g[j] \in Nat /\ B[j] \in Nat /\ A[j] \in Int /\ B[j] <= B[W]
      /\ g[0] = 0 /\ B[0] = 0 /\ A[0] = 0 /\ g[W] = Len(RunTable(format, runs, k))
  BY DEF Setting, Profile
<1>3. off \in [0..n -> Nat] /\ off[0] = 0 /\ off[n] = Len(table)
      /\ off[k] = off[k - 1] + Len(RunTable(format, runs, k)) /\ off[k] <= Len(table)
  BY <1>1 DEF Setting, TableAt
<1>4. k - 1 \in 0..n
  BY <1>1
<1>5. BeforeSays(format, runs, k)
  BY <1>1, BeforeIs
<1>6. EndsAt(runs, k - 1) /\ (k - 1) + 1 = k
  <2>1. k - 1 \in 0..(n - 1)
    BY <1>1
  <2> QED
    BY <1>1, <2>1, EndsNext
<1>7. B[W] = Spans(format, runs, k) /\ A[W] = L!Advance(runs[k])
  BY DEF Setting
<1>8. LineOf(runs, k - 1) \in Int /\ LineOf(runs, k) = LineOf(runs, k - 1) + A[W]
  BY <1>6, <1>7 DEF EndsAt
<1>9. Before(format, runs, k) \in Nat
      /\ Before(format, runs, k + 1) = Before(format, runs, k) + B[W]
  BY <1>5, <1>7 DEF BeforeSays
<1>10. off[k - 1] \in Nat /\ off[k] = off[k - 1] + g[W]
  BY <1>2, <1>3, <1>4
<1> QED
  BY <1>1, <1>2, <1>3, <1>8, <1>9, <1>10

(* The code starts in such a place. *)
LEMMA ReachedStart ==
  ASSUME format \in 9..11, NEW n, Whole(n)
  PROVE  Reached(n, 0, 0, L!co_firstlineno)
<1>1. PICK off : TableAt(format, runs, n, table, off)
  BY TableExists
<1>2. 1 \in 1..n
  BY DEF Whole
<1>3. PICK W, g, B, A : Setting(n, 1, off, W, g, B, A)
  BY <1>1, <1>2, SettingsExist DEF Settings
<1>4. g[0] = 0 /\ B[0] = 0 /\ A[0] = 0 /\ off[0] = 0 /\ W \in Nat
  BY <1>3, SettingSays
<1>5. Before(format, runs, 1) = 0
  BY EndsStart DEF Before
<1>6. LineOf(runs, 0) = L!co_firstlineno /\ L!co_firstlineno \in Int
  BY EndsStart DEF L!co_firstlineno
<1>7. PlaceAt(1, off, g, B, A, 0, 0, 0, L!co_firstlineno)
  BY <1>4, <1>5, <1>6 DEF PlaceAt
<1>8. 0 \in 0..W
  BY <1>4
<1> QED
  BY <1>3, <1>7, <1>8, Zenon DEF Reached

(* Where a run ends, the next one starts. *)
Ahead(n, a, c, l) ==
  \E k, off, W, g, B, A, j :
    Setting(n, k, off, W, g, B, A) /\ j \in 1..W /\ PlaceAt(k, off, g, B, A, j - 1, a, c, l)

(* The end of the table.                                                   *)
AtEnd(n, a, c, l) ==
  a = Len(table) /\ c = Before(format, runs, n + 1) /\ l = LineOf(runs, n)

(* Where a step has ended, another one starts, or the table ends.          *)
LEMMA ReachedAhead ==
  ASSUME format \in 9..11, NEW n, Whole(n), NEW a, NEW c, NEW l, Reached(n, a, c, l)
  PROVE  Ahead(n, a, c, l) \/ AtEnd(n, a, c, l)
<1>1. PICK k, off, W, g, B, A, j :
        Setting(n, k, off, W, g, B, A) /\ j \in 0..W /\ PlaceAt(k, off, g, B, A, j, a, c, l)
  BY Zenon DEF Reached
<1>2. n \in Nat /\ k \in 1..n /\ W \in Nat \ {0} /\ j \in Nat /\ j <= W
  BY <1>1, SettingSays
<1>3. CASE j # W
  <2>1. j + 1 \in 1..W /\ (j + 1) - 1 = j
    BY <1>2, <1>3
  <2>2. PlaceAt(k, off, g, B, A, (j + 1) - 1, a, c, l)
    BY <1>1, <2>1, Zenon
  <2>3. Ahead(n, a, c, l)
    BY <1>1, <2>1, <2>2, Zenon DEF Ahead
  <2> QED
    BY <2>3
<1>4. CASE j = W
  <2>1. a = off[k - 1] + g[W] /\ c = Before(format, runs, k) + B[W]
        /\ l = LineOf(runs, k - 1) + A[W]
    BY <1>1, <1>4 DEF PlaceAt
  <2>2. a = off[k] /\ c = Before(format, runs, k + 1) /\ l = LineOf(runs, k)
    BY <1>1, <2>1, SettingSays
  <2>3. CASE k = n
    <3>1. off[n] = Len(table)
      BY <1>1, SettingSays
    <3> QED
      BY <2>2, <2>3, <3>1 DEF AtEnd
  <2>4. CASE k # n
    <3>1. k + 1 \in 1..n /\ (k + 1) - 1 = k
      BY <1>2, <2>4
    <3>2. TableAt(format, runs, n, table, off)
      BY <1>1 DEF Setting
    <3>3. PICK m : m = k + 1
      OBVIOUS
    <3>4. PICK X, h, P, Q : Setting(n, m, off, X, h, P, Q)
      BY <3>1, <3>2, <3>3, SettingsExist DEF Settings
    <3>5. /\ X \in Nat \ {0} /\ h[0] = 0 /\ P[0] = 0 /\ Q[0] = 0 /\ off[m - 1] \in Nat
          /\ Before(format, runs, m) \in Nat /\ LineOf(runs, m - 1) \in Int
      BY <3>4, SettingSays
    <3>6. PlaceAt(m, off, h, P, Q, 0, a, c, l)
      BY <2>2, <3>1, <3>3, <3>5 DEF PlaceAt
    <3>7. 1 \in 1..X /\ 1 - 1 = 0
      BY <3>5
    <3>8. PlaceAt(m, off, h, P, Q, 1 - 1, a, c, l)
      BY <3>6, <3>7, Zenon
    <3>9. Ahead(n, a, c, l)
      BY <3>4, <3>7, <3>8, Zenon DEF Ahead
    <3> QED
      BY <3>9
  <2> QED
    BY <2>3, <2>4
<1> QED
  BY <1>3, <1>4

(* The line of the instruction is that of its run. *)
LEMMA LineIs ==
  ASSUME NEW n, Whole(n), lasti \in Int, NEW m \in 1..n,
         L!End(runs, m - 1) <= lasti, lasti < L!End(runs, m)
  PROVE  L!Line = LineOf(runs, m)
<1> DEFINE P(k) == k \in DOMAIN runs /\ L!End(runs, k - 1) <= lasti /\ lasti < L!End(runs, k)
<1>1. P(m) /\ DOMAIN runs = 1..n /\ AllRuns(format, runs, n)
  BY DEF Whole
<1>2. L!RunOf = CHOOSE k \in DOMAIN runs : L!End(runs, k - 1) <= lasti /\ lasti < L!End(runs, k)
  BY DEF L!RunOf
<1>3. P(L!RunOf)
  BY <1>1, <1>2
<1>4. L!RunOf = m
  BY <1>1, <1>3, OneRun
<1> QED
  BY <1>4 DEF L!Line, LineOf

(* How long an entry is.                                                   *)
LEMMA EntryLength ==
  ASSUME NEW b \in 1..8, NEW c \in 0..15, NEW e, Coded(e, c)
  PROVE  L!Entry(b, e, c) \in Seq(0..255) /\ Len(L!Entry(b, e, c)) \in Nat
         /\ Rest(e, c) \in Seq(0..255) /\ Len(Rest(e, c)) \in Nat
         /\ Len(L!Entry(b, e, c)) = 1 + Len(Rest(e, c))
<1>1. L!Entry(b, e, c) \in Seq(0..255) /\ Rest(e, c) \in Seq(0..255)
      /\ Len(L!Entry(b, e, c)) = 1 + Len(Rest(e, c))
  BY ZenonT(60), EntryIs
<1> HIDE DEF L!Entry, Rest
<1>2. \A s \in Seq(0..255) : Len(s) \in Nat
  OBVIOUS
<1> QED
  BY <1>1, <1>2, Zenon

(* A step in the table of a run is one in the whole table. *)
LEMMA RecordMoved ==
  ASSUME NEW v \in 9..11, NEW t, NEW p \in Nat, NEW q \in Nat, NEW b, NEW d,
         RecordAt(v, t, p, q, b, d), Len(t) \in Nat,
         NEW o \in Nat, Len(table) \in Nat, o + Len(t) <= Len(table),
         \A m \in 1..Len(t) : table[o + m] = t[m]
  PROVE  RecordAt(v, table, o + p, o + q, b, d) /\ q > p
<1>1. PICK x \in Nat, y \in Nat : x = o + p /\ y = o + q
  OBVIOUS
<1>2. q <= Len(t) /\ y <= Len(table)
  BY <1>1 DEF RecordAt
<1>3. CASE v \in 9..10
  <2>1. q = p + 2
    BY <1>3 DEF RecordAt
  <2>2. p + 1 \in 1..Len(t) /\ p + 2 \in 1..Len(t) /\ o + (p + 1) = x + 1 /\ o + (p + 2) = x + 2
        /\ y = x + 2 /\ q > p
    BY SMTT(30), <1>1, <1>2, <2>1
  <2>3. table[x + 1] = t[p + 1] /\ table[x + 2] = t[p + 2]
    <3>1. table[o + (p + 1)] = t[p + 1] /\ table[o + (p + 2)] = t[p + 2]
      BY <2>2
    <3> QED
      BY <2>2, <3>1
  <2>4. v # 11
    BY <1>3
  <2>5. RecordAt(v, table, x, y, b, d)
    <3>1. CASE v = 9
      <4>1. t[p + 1] = b /\ L!Signed(t[p + 2]) = d /\ 9 # 10
        BY <3>1 DEF RecordAt
      <4> QED
        BY <1>2, <2>2, <2>3, <2>4, <3>1, <4>1 DEF RecordAt
    <3>2. CASE v = 10
      <4>1. t[p + 1] = b /\ b # 255 /\ (IF t[p + 2] = 128 THEN 0 ELSE L!Signed(t[p + 2])) = d /\ 10 # 9
        BY <3>2 DEF RecordAt
      <4> QED
        BY <1>2, <2>2, <2>3, <2>4, <3>2, <4>1 DEF RecordAt
    <3> QED
      BY <1>3, <3>1, <3>2
  <2> QED
    BY <1>1, <2>2, <2>5
<1>4. CASE v = 11
  <2>1. PICK c, e : EntryAt(t, p, q, b, d, c, e)
    BY <1>4 DEF RecordAt
  <2>2. b \in 1..8 /\ c \in 0..15 /\ Coded(e, c) /\ Gain(e, c) = d
    BY <2>1 DEF EntryAt
  <2>3. PICK s, w : s = L!Entry(b, e, c) /\ w = Len(s) /\ w \in Nat /\ w > 0
    <3>1. /\ Len(L!Entry(b, e, c)) \in Nat /\ Len(Rest(e, c)) \in Nat
          /\ Len(L!Entry(b, e, c)) = 1 + Len(Rest(e, c))
      BY <2>2, EntryLength, Zenon
    <3> HIDE DEF L!Entry, Rest
    <3>2. Len(L!Entry(b, e, c)) > 0
      BY <3>1
    <3> QED
      BY <3>1, <3>2, Zenon
  <2>4. q = p + w /\ \A m \in 1..w : t[p + m] = s[m]
    BY <2>1, <2>3 DEF EntryAt
  <2>5. \A m \in 1..w : table[x + m] = s[m]
    <3> SUFFICES ASSUME NEW m \in 1..w PROVE table[x + m] = s[m]
      OBVIOUS
    <3>1. p + m \in 1..Len(t) /\ o + (p + m) = x + m
      BY <1>1, <1>2, <2>3, <2>4
    <3>2. table[o + (p + m)] = t[p + m]
      BY <3>1
    <3> QED
      BY <2>4, <3>1, <3>2
  <2>6. y = x + w /\ q > p
    BY <1>1, <2>3, <2>4
  <2>7. EntryAt(table, x, y, b, d, c, e)
    BY <2>2, <2>3, <2>5, <2>6 DEF EntryAt
  <2>8. RecordAt(v, table, x, y, b, d)
    <3>1. v # 9 /\ v # 10
      BY <1>4
    <3> QED
      BY <1>2, <2>7, <3>1, Zenon DEF RecordAt
  <2> QED
    BY <1>1, <2>6, <2>8
<1> QED
  BY <1>3, <1>4

-----------------------------------------------------------------------------
(* What the code has to pass, in bytes or in units.                        *)
Limit(v) == IF v = 11 THEN lasti ELSE 2 * lasti

(* What a step makes of the place of the code, and whether it has found    *)
(* the line.                                                               *)
StepSays(n, a, c, l, q, b, d) ==
  /\ a \in Nat /\ c \in Nat /\ l \in Int /\ b \in Nat /\ d \in Int
  /\ RecordAt(format, table, a, q, b, d) /\ q > a
  /\ Reached(n, q, c + b, l + d)
  /\ c <= Limit(format) /\ c + b > Limit(format) =>
       L!Line = IF format = 9 THEN l ELSE l + d

(* The run that the code finds is that of the instruction; on 3.9 it is    *)
(* the one before.                                                         *)
LEMMA LineFound ==
  ASSUME format \in 9..11, NEW n, Whole(n), lasti \in Nat, NEW k \in 1..n,
         Before(format, runs, k) <= Limit(format), Limit(format) < Before(format, runs, k + 1)
  PROVE  IF format = 9 THEN k > 1 /\ L!Line = LineOf(runs, k - 1) ELSE L!Line = LineOf(runs, k)
<1>1. n \in Nat /\ AllRuns(format, runs, n)
  BY DEF Whole
<1>2. k \in 0..n /\ k - 1 \in 0..n /\ k + 1 # 1 /\ (k + 1) - 1 = k /\ (k + 1) - 2 = k - 1
  BY <1>1
<1>3. L!End(runs, k) \in Nat /\ L!End(runs, k - 1) \in Nat
  BY <1>1, <1>2, EndsUp
<1>4. CASE format # 9
  <2>1. L!End(runs, k - 1) <= lasti /\ lasti < L!End(runs, k)
    BY <1>2, <1>3, <1>4 DEF Before, Limit
  <2>2. L!Line = LineOf(runs, k)
    BY <2>1, LineIs
  <2> QED
    BY <1>4, <2>2
<1>5. CASE format = 9
  <2>1. Before(format, runs, k + 1) = 2 * L!End(runs, k - 1) /\ Limit(format) = 2 * lasti
    BY <1>2, <1>5 DEF Before, Limit
  <2>2. k # 1
    <3>1. L!End(runs, 0) = 0
      BY EndsStart
    <3> QED
      BY <2>1, <3>1
  <2>3. k > 1 /\ k - 1 \in 1..n /\ (k - 1) - 1 = k - 2 /\ k - 2 \in 0..n
    BY <1>1, <2>2
  <2>4. Before(format, runs, k) = 2 * L!End(runs, k - 2)
    BY <1>5, <2>2 DEF Before
  <2>5. L!End(runs, k - 2) \in Nat
    BY <1>1, <2>3, EndsUp
  <2>6. L!End(runs, (k - 1) - 1) <= lasti /\ lasti < L!End(runs, k - 1)
    BY <1>3, <2>1, <2>3, <2>4, <2>5
  <2>7. L!Line = LineOf(runs, k - 1)
    BY <2>3, <2>6, LineIs
  <2> QED
    BY <1>5, <2>3, <2>7
<1> QED
  BY <1>4, <1>5

(* From a place where a step starts the code gets to one where it ends,    *)
(* and when it has passed the instruction it has its line.                 *)
LEMMA AheadStep ==
  ASSUME format \in 9..11, NEW n, Whole(n), lasti \in Nat,
         NEW a, NEW c, NEW l, Ahead(n, a, c, l)
  PROVE  \E q, b, d : StepSays(n, a, c, l, q, b, d)
<1>1. PICK k, off, W, g, B, A, j :
        Setting(n, k, off, W, g, B, A) /\ j \in 1..W /\ PlaceAt(k, off, g, B, A, j - 1, a, c, l)
  BY Zenon DEF Ahead
<1>2. /\ n \in Nat /\ k \in 1..n /\ W \in Nat \ {0}
      /\ off[k - 1] \in Nat /\ off[k] = off[k - 1] + g[W] /\ off[k] <= Len(table)
      /\ Before(format, runs, k) \in Nat /\ LineOf(runs, k - 1) \in Int
      /\ Before(format, runs, k + 1) = Before(format, runs, k) + B[W]
      /\ LineOf(runs, k) = LineOf(runs, k - 1) + A[W]
  BY <1>1, SettingSays
<1>3. \A m \in 0..W : g[m] \in Nat /\ B[m] \in Nat /\ A[m] \in Int /\ B[m] <= B[W]
  BY <1>1, SettingSays
<1>4. j \in 0..W /\ j - 1 \in 0..W /\ W \in 0..W
  BY <1>1, <1>2
<1>5. PICK p \in Nat, q \in Nat, o \in Nat : p = g[j - 1] /\ q = g[j] /\ o = off[k - 1]
  BY <1>2, <1>3, <1>4
<1>6. PICK x \in Nat, y \in Nat, z \in Nat :
        x = B[j - 1] /\ y = B[j] /\ z = B[W] /\ x <= z /\ y <= z
  BY <1>3, <1>4
<1>7. PICK e \in Int, f \in Int, h \in Int : e = A[j - 1] /\ f = A[j] /\ h = A[W]
  BY <1>3, <1>4
<1>8. PICK s \in Nat, r \in Int : s = Before(format, runs, k) /\ r = LineOf(runs, k - 1)
  BY <1>2
<1>9. a = o + p /\ c = s + x /\ l = r + e
  BY <1>1, <1>5, <1>6, <1>7, <1>8 DEF PlaceAt
<1>10. Profile(format, RunTable(format, runs, k), W, g, B, A)
       /\ TableAt(format, runs, n, table, off)
  BY <1>1 DEF Setting
<1>11. PICK t : t = RunTable(format, runs, k)
  OBVIOUS
<1>12. RecordAt(format, t, p, q, y - x, f - e) /\ Len(t) = g[W] /\ Ordered(format, W, B, A)
  BY <1>1, <1>5, <1>6, <1>7, <1>10, <1>11, Zenon DEF Profile
<1>13. PICK b, d : b = y - x /\ d = f - e /\ RecordAt(format, t, p, q, b, d)
  BY <1>12
<1>14. RecordAt(format, table, o + p, o + q, b, d) /\ q > p
  <2>1. Len(t) \in Nat /\ o + Len(t) <= Len(table)
    BY <1>2, <1>3, <1>4, <1>5, <1>12
  <2>2. \A m \in 1..Len(t) : table[o + m] = t[m]
    BY <1>2, <1>5, <1>10, <1>11 DEF TableAt
  <2>3. Len(table) \in Nat
    <3>1. table \in Seq(0..255)
      BY TableExists
    <3> QED
      BY <3>1
  <2> QED
    BY <1>13, <2>1, <2>2, <2>3, RecordMoved
<1>15. b \in Nat
  <2>1. CASE format = 11
    <3>1. \E cc, ee : EntryAt(t, p, q, b, d, cc, ee)
      BY <1>13, <2>1 DEF RecordAt
    <3>2. b \in 1..8
      BY <3>1 DEF EntryAt
    <3> QED
      BY <3>2
  <2>2. CASE format # 11
    <3>1. format \in 9..10 /\ t[p + 1] = b
      BY <1>13, <2>2 DEF RecordAt
    <3>2. t \in Seq(0..255) /\ AllRuns(format, runs, n)
      BY <1>2, <1>11, RunProfiled DEF Whole
    <3>3. p + 1 \in 1..Len(t)
      <4>1. q = p + 2 /\ q <= Len(t)
        BY <1>13, <3>1 DEF RecordAt
      <4>2. Len(t) \in Nat
        BY <1>3, <1>4, <1>12
      <4> QED
        BY <1>5, <4>1, <4>2
    <3> QED
      BY <3>1, <3>2, <3>3, BytesAreNumbers
  <2> QED
    BY <2>1, <2>2
<1>16. Reached(n, o + q, s + y, r + f)
  <2>1. PlaceAt(k, off, g, B, A, j, o + q, s + y, r + f)
    BY <1>5, <1>6, <1>7, <1>8 DEF PlaceAt
  <2> QED
    BY <1>1, <1>4, <2>1, Zenon DEF Reached
<1>17. s + y = c + b /\ r + f = l + d /\ o + q > a /\ a \in Nat /\ c \in Nat /\ l \in Int /\ d \in Int
  BY <1>5, <1>6, <1>7, <1>8, <1>9, <1>13, <1>14
<1>18. ASSUME c <= Limit(format), c + b > Limit(format)
       PROVE  L!Line = IF format = 9 THEN l ELSE l + d
  <2>1. Limit(format) \in Nat
    BY DEF Limit
  <2>2. Before(format, runs, k) <= Limit(format) /\ Limit(format) < Before(format, runs, k + 1)
    <3>1. PICK m \in Nat : m = Limit(format)
      BY <2>1
    <3>2. Before(format, runs, k + 1) = s + z
      BY <1>2, <1>6, <1>8, Zenon
    <3>3. c <= m /\ c + b > m
      BY <1>18, <3>1
    <3>4. s <= m /\ m < s + z
      BY <1>6, <1>9, <1>17, <3>3
    <3> QED
      BY <1>8, <3>1, <3>2, <3>4, Zenon
  <2>3. IF format = 9 THEN k > 1 /\ L!Line = LineOf(runs, k - 1) ELSE L!Line = LineOf(runs, k)
    BY <1>2, <2>2, LineFound
  <2>4. y > x
    BY <1>6, <1>13, <1>15, <1>17, <1>18, <2>1
  <2>5. CASE format = 9
    <3>1. e = 0
      <4>1. B[j] > B[j - 1]
        BY <1>6, <2>4
      <4> QED
        BY <1>1, <1>7, <1>12, <2>5, <4>1 DEF Ordered
    <3> QED
      BY <1>8, <1>9, <2>3, <2>5, <3>1
  <2>6. CASE format # 9
    <3>1. f = h
      <4>1. B[j] > 0
        BY <1>6, <2>4
      <4> QED
        BY <1>1, <1>7, <1>12, <2>6, <4>1 DEF Ordered
    <3> QED
      BY <1>2, <1>7, <1>8, <1>17, <2>3, <2>6, <3>1
  <2> QED
    BY <2>5, <2>6
<1>19. StepSays(n, a, c, l, o + q, b, d)
  BY <1>9, <1>14, <1>15, <1>16, <1>17, <1>18, Zenon DEF StepSays
<1> QED
  BY <1>19

(* At the end, only 3.9 can still be before the instruction. *)
LEMMA EndFound ==
  ASSUME format \in 9..11, NEW n, Whole(n), lasti \in Nat, NEW a, NEW c, NEW l,
         AtEnd(n, a, c, l), c <= Limit(format)
  PROVE  format = 9 /\ L!Line = l
<1>1. n \in Nat \ {0} /\ AllRuns(format, runs, n)
  BY DEF Whole
<1>2. PICK k \in 1..n : L!End(runs, k - 1) <= lasti /\ lasti < L!End(runs, k)
  BY DEF Whole
<1>3. n + 1 # 1 /\ (n + 1) - 1 = n /\ (n + 1) - 2 = n - 1 /\ n \in 0..n /\ n - 1 \in 0..n
      /\ k \in 0..n /\ k - 1 \in 0..n /\ n \in 1..n
  BY <1>1, <1>2
<1>4. /\ L!End(runs, n) \in Nat /\ L!End(runs, n - 1) \in Nat
      /\ L!End(runs, k) \in Nat /\ L!End(runs, k - 1) \in Nat
  BY <1>1, <1>3, EndsUp
<1>5. L!End(runs, k) <= L!End(runs, n)
  <2>1. \A m \in 0..n : L!End(runs, m) <= L!End(runs, n)
    BY <1>1, <1>3, EndsUp
  <2> QED
    BY <1>3, <2>1
<1>6. lasti < L!End(runs, n)
  BY <1>2, <1>4, <1>5
<1>7. CASE format # 9
  <2>1. c = (IF format = 10 THEN 2 * L!End(runs, n) ELSE L!End(runs, n))
    BY <1>3, <1>7 DEF AtEnd, Before
  <2>2. FALSE
    BY <1>4, <1>6, <1>7, <2>1 DEF Limit
  <2> QED
    BY <2>2
<1>8. CASE format = 9
  <2>1. c = 2 * L!End(runs, n - 1) /\ l = LineOf(runs, n)
    BY <1>3, <1>8 DEF AtEnd, Before
  <2>2. L!End(runs, n - 1) <= lasti
    BY <1>4, <1>8, <2>1 DEF Limit
  <2>3. L!Line = LineOf(runs, n)
    BY <1>3, <1>6, <2>2, LineIs
  <2> QED
    BY <1>8, <2>1, <2>3
<1> QED
  BY <1>7, <1>8

(* The code is at such a place and has not passed the instruction, or has  *)
(* its line.                                                               *)
Found(n) ==
  /\ line_pc = "loop" => bc <= Limit(format) /\ Reached(n, at, bc, lineno)
  /\ line_pc = "found" => lineno = L!Line

(* The inductive invariant.                                                *)
LinesInv ==
  /\ L!TypeOK
  /\ format < 11 => at % 2 = 0
  /\ line_pc = "error" => ~whole
  /\ line_pc = "outside" => format < 11 /\ Len(table) % 2 = 1
  /\ whole => \E n : Whole(n) /\ Found(n)

(* No step changes the table, the instruction or its line.                 *)
LEMMA WholeKept ==
  ASSUME UNCHANGED <<format, runs, lasti, whole, table>>
  PROVE  /\ \A n : Whole(n) => Whole(n)'
         /\ L!Line' = L!Line
         /\ Limit(format)' = Limit(format)
<1>1. \A n : Whole(n) => Whole(n)'
  BY DEF Whole
<1>2. L!Line' = L!Line
  BY DEF L!Line, L!RunOf
<1>3. Limit(format)' = Limit(format)
  BY DEF Limit
<1> QED
  BY <1>1, <1>2, <1>3

(* So a place stays a place.                                               *)
LEMMA ReachedKept ==
  ASSUME UNCHANGED <<format, runs, lasti, whole, table>>,
         NEW n, NEW a, NEW c, NEW l, Reached(n, a, c, l), at' = a, bc' = c, lineno' = l
  PROVE  Reached(n, at, bc, lineno)'
<1>1. PICK k, off, W, g, B, A, j :
        Setting(n, k, off, W, g, B, A) /\ j \in 0..W /\ PlaceAt(k, off, g, B, A, j, a, c, l)
  BY Zenon DEF Reached
<1>2. Setting(n, k, off, W, g, B, A)'
  BY <1>1 DEF Setting, TableAt
<1>3. PlaceAt(k, off, g, B, A, j, at, bc, lineno)'
  BY <1>1 DEF PlaceAt
<1> QED
  BY <1>1, <1>2, <1>3, Zenon DEF Reached

(* A step of the code over a whole table. *)
LEMMA WholeStep ==
  ASSUME LinesInv, line_pc = "loop", whole, at < Len(table)
  PROVE  \E n, q, b, d : /\ Whole(n) /\ bc <= Limit(format)
                         /\ StepSays(n, at, bc, lineno, q, b, d)
<1>1. PICK n : Whole(n) /\ bc <= Limit(format) /\ Reached(n, at, bc, lineno)
  BY DEF LinesInv, Found
<1>2. format \in 9..11 /\ lasti \in Nat /\ at \in Int
  BY DEF LinesInv, L!TypeOK
<1>3. PICK a, c, l : a = at /\ c = bc /\ l = lineno
  OBVIOUS
<1>4. Ahead(n, a, c, l) \/ AtEnd(n, a, c, l)
  BY <1>1, <1>2, <1>3, ReachedAhead, Zenon
<1>5. ~AtEnd(n, a, c, l)
  <2>1. a < Len(table) /\ a \in Int
    BY <1>2, <1>3
  <2>2. a # Len(table)
    BY <2>1
  <2> QED
    BY <2>2 DEF AtEnd
<1>6. PICK q, b, d : StepSays(n, a, c, l, q, b, d)
  BY <1>1, <1>2, <1>4, <1>5, AheadStep
<1> QED
  BY <1>1, <1>3, <1>6

(* A byte of the table.                                                    *)
LEMMA TableRead ==
  ASSUME L!TypeOK, NEW k \in 0..(Len(table) - 1)
  PROVE  L!At(k) \in 0..255 /\ L!At(k) \in Nat /\ L!At(k) = table[k + 1]
<1>1. table \in Seq(0..255)
  BY DEF L!TypeOK
<1>2. k + 1 \in 1..Len(table)
  OBVIOUS
<1>3. table[k + 1] \in 0..255
  BY <1>1, <1>2, ElementsOf
<1>4. L!At(k) = table[k + 1]
  BY DEF L!At
<1>5. PICK x \in 0..255 : x = table[k + 1]
  BY <1>3
<1>6. x \in Nat
  OBVIOUS
<1> QED
  BY <1>4, <1>5, <1>6, Zenon

(* A line of a byte is a number.                                           *)
LEMMA SignedTyping ==
  ASSUME NEW x \in 0..255
  PROVE  L!Signed(x) \in Int /\ (IF x = 128 THEN 0 ELSE L!Signed(x)) \in Int
  BY DEF L!Signed

(* 3.9 and before (frame.cc:239-249): the code stops before it has added   *)
(* the line of the run that it has passed.                                 *)
LEMMA LnotabStep ==
  ASSUME LinesInv, line_pc = "loop", at < Len(table), L!StepLnotab,
         UNCHANGED <<format, runs, lasti, whole, table>>
  PROVE  LinesInv'
<1>1. /\ L!TypeOK /\ format = 9 /\ at % 2 = 0 /\ at \in Nat /\ Len(table) \in Nat
      /\ bc \in Nat /\ lasti \in Nat /\ lineno \in Int /\ table \in Seq(0..255)
  BY DEF LinesInv, L!TypeOK, L!StepLnotab
<1>2. PICK x \in Nat : x = L!At(at) /\ x = table[at + 1]
  <2>1. at \in 0..(Len(table) - 1)
    BY <1>1
  <2> QED
    BY <1>1, <2>1, TableRead
<1>3. bc' = bc + x /\ bc' \in Nat
  BY <1>1, <1>2 DEF L!StepLnotab
<1>4. CASE bc' > 2 * lasti
  <2>1. line_pc' = "found" /\ at' = at /\ lineno' = lineno
    BY <1>4 DEF L!StepLnotab
  <2>2. L!TypeOK'
    BY <1>1, <1>3, <2>1 DEF L!TypeOK
  <2>3. ASSUME whole PROVE \E n : Whole(n)' /\ Found(n)'
    <3>1. PICK n, q, b, d : Whole(n) /\ bc <= Limit(format) /\ StepSays(n, at, bc, lineno, q, b, d)
      BY <2>3, WholeStep
    <3>2. b = x
      BY <1>1, <1>2, <3>1 DEF StepSays, RecordAt
    <3>3. Limit(format) = 2 * lasti
      BY <1>1 DEF Limit
    <3>4. L!Line = lineno
      BY <1>1, <1>3, <1>4, <3>1, <3>2, <3>3 DEF StepSays
    <3>5. Found(n)'
      BY <2>1, <3>4, WholeKept DEF Found
    <3> QED
      BY <3>1, <3>5, WholeKept
  <2> QED
    BY <1>1, <2>1, <2>2, <2>3 DEF LinesInv
<1>5. CASE ~(bc' > 2 * lasti) /\ at + 1 < Len(table)
  <2>1. /\ lineno' = lineno + L!Signed(L!At(at + 1)) /\ at' = at + 2 /\ line_pc' = "loop"
    BY <1>5 DEF L!StepLnotab, L!WithPair, L!len
  <2>2. PICK y \in 0..255 : y = L!At(at + 1) /\ y = table[at + 2]
    <3>1. at + 1 \in 0..(Len(table) - 1) /\ (at + 1) + 1 = at + 2
      BY <1>1, <1>5
    <3> QED
      BY <1>1, <3>1, TableRead
  <2>3. L!TypeOK'
    <3>1. lineno' \in Int
      <4>1. PICK z \in Int : z = L!Signed(y)
        BY SignedTyping
      <4> QED
        BY <1>1, <2>1, <2>2, <4>1
    <3>2. at' \in 0..Len(table)
      BY <1>1, <1>5, <2>1
    <3> QED
      BY <1>1, <1>3, <2>1, <3>1, <3>2 DEF L!TypeOK
  <2>4. at' % 2 = 0
    BY <1>1, <2>1
  <2>5. ASSUME whole PROVE \E n : Whole(n)' /\ Found(n)'
    <3>1. PICK n, q, b, d : Whole(n) /\ bc <= Limit(format) /\ StepSays(n, at, bc, lineno, q, b, d)
      BY <2>5, WholeStep
    <3>2. b = x /\ q = at + 2 /\ d = L!Signed(y)
      BY <1>1, <1>2, <2>2, <3>1 DEF StepSays, RecordAt
    <3>3. Limit(format) = 2 * lasti
      BY <1>1 DEF Limit
    <3>4. Reached(n, q, bc + b, lineno + d)
      BY <3>1 DEF StepSays
    <3>5. at' = q /\ bc' = bc + b /\ lineno' = lineno + d
      BY <1>3, <2>1, <2>2, <3>2
    <3>6. Reached(n, at, bc, lineno)'
      BY <3>4, <3>5, ReachedKept
    <3>7. bc' <= Limit(format)'
      BY <1>1, <1>3, <1>5, <3>3, WholeKept
    <3>8. Found(n)'
      BY <2>1, <3>6, <3>7 DEF Found
    <3> QED
      BY <3>1, <3>8, WholeKept
  <2> QED
    BY <1>1, <2>1, <2>3, <2>4, <2>5 DEF LinesInv
<1>6. CASE ~(bc' > 2 * lasti) /\ ~(at + 1 < Len(table))
  <2>1. /\ line_pc' = "outside" /\ at' = at /\ lineno' = lineno
    BY <1>6 DEF L!StepLnotab, L!WithPair, L!len
  <2>2. L!TypeOK'
    BY <1>1, <1>3, <2>1 DEF L!TypeOK
  <2>3. Len(table) % 2 = 1
    BY <1>1, <1>6
  <2>4. ASSUME whole PROVE \E n : Whole(n)' /\ Found(n)'
    <3>1. PICK n, q, b, d : Whole(n) /\ bc <= Limit(format) /\ StepSays(n, at, bc, lineno, q, b, d)
      BY <2>4, WholeStep
    <3>2. Found(n)'
      BY <2>1 DEF Found
    <3> QED
      BY <3>1, <3>2, WholeKept
  <2> QED
    BY <1>1, <2>1, <2>2, <2>3, <2>4 DEF LinesInv
<1> QED
  BY <1>4, <1>5, <1>6

(* 3.10 (frame.cc:213-230): the code stops with the line of the run that   *)
(* it is in.                                                               *)
LEMMA LinetableStep ==
  ASSUME LinesInv, line_pc = "loop", at < Len(table), L!StepLinetable,
         UNCHANGED <<format, runs, lasti, whole, table>>
  PROVE  LinesInv'
<1>1. /\ L!TypeOK /\ format = 10 /\ at % 2 = 0 /\ at \in Nat /\ Len(table) \in Nat
      /\ bc \in Nat /\ lasti \in Nat /\ lineno \in Int /\ table \in Seq(0..255)
  BY DEF LinesInv, L!TypeOK, L!StepLinetable
<1>2. PICK x \in Nat : x = L!At(at) /\ x = table[at + 1]
  <2>1. at \in 0..(Len(table) - 1)
    BY <1>1
  <2> QED
    BY <1>1, <2>1, TableRead
<1>3. CASE x = 255
  <2>1. line_pc' = "found" /\ at' = at /\ lineno' = lineno /\ bc' = bc
    BY <1>2, <1>3 DEF L!StepLinetable
  <2>2. L!TypeOK'
    BY <1>1, <2>1 DEF L!TypeOK
  <2>3. ~whole
    <3> SUFFICES ASSUME whole PROVE FALSE
      OBVIOUS
    <3>1. PICK n, q, b, d : StepSays(n, at, bc, lineno, q, b, d)
      BY WholeStep
    <3>2. b = x /\ b # 255
      BY <1>1, <1>2, <3>1 DEF StepSays, RecordAt
    <3> QED
      BY <1>3, <3>2
  <2> QED
    BY <1>1, <2>1, <2>2, <2>3 DEF LinesInv
<1>4. CASE x # 255 /\ at + 1 < Len(table)
  <2>1. /\ bc' = bc + x /\ at' = at + 2
        /\ lineno' = lineno + (IF L!At(at + 1) = 128 THEN 0 ELSE L!Signed(L!At(at + 1)))
        /\ line_pc' = IF bc' > 2 * lasti THEN "found" ELSE "loop"
    BY <1>2, <1>4 DEF L!StepLinetable, L!WithPair, L!len
  <2>2. PICK y \in 0..255 : y = L!At(at + 1) /\ y = table[at + 2]
    <3>1. at + 1 \in 0..(Len(table) - 1) /\ (at + 1) + 1 = at + 2
      BY <1>1, <1>4
    <3> QED
      BY <1>1, <3>1, TableRead
  <2>3. PICK z \in Int : z = IF y = 128 THEN 0 ELSE L!Signed(y)
    BY SignedTyping
  <2>4. lineno' = lineno + z /\ bc' \in Nat
    <3>1. (IF L!At(at + 1) = 128 THEN 0 ELSE L!Signed(L!At(at + 1))) = z
      BY <2>2, <2>3, Zenon
    <3>2. lineno' = lineno + z
      BY <2>1, <3>1, Zenon
    <3>3. bc' = bc + x
      BY <2>1
    <3>4. bc' \in Nat
      BY <1>1, <1>2, <3>3
    <3> QED
      BY <3>2, <3>4
  <2>5. L!TypeOK'
    <3>1. at' \in 0..Len(table) /\ lineno' \in Int
      BY <1>1, <1>4, <2>1, <2>3, <2>4
    <3> QED
      BY <1>1, <2>1, <2>4, <3>1 DEF L!TypeOK
  <2>6. at' % 2 = 0
    BY <1>1, <2>1
  <2>7. ASSUME whole PROVE \E n : Whole(n)' /\ Found(n)'
    <3>1. PICK n, q, b, d : Whole(n) /\ bc <= Limit(format) /\ StepSays(n, at, bc, lineno, q, b, d)
      BY <2>7, WholeStep
    <3>2. b = x /\ q = at + 2 /\ d = z
      BY <1>1, <1>2, <2>2, <2>3, <3>1 DEF StepSays, RecordAt
    <3>3. Limit(format) = 2 * lasti
      BY <1>1 DEF Limit
    <3>4. Reached(n, q, bc + b, lineno + d)
      BY <3>1 DEF StepSays
    <3>5. at' = q /\ bc' = bc + b /\ lineno' = lineno + d
      BY <2>1, <2>4, <3>2
    <3>6. Reached(n, at, bc, lineno)'
      BY <3>4, <3>5, ReachedKept
    <3>7. CASE bc' > 2 * lasti
      <4>1. L!Line = lineno'
        BY <1>1, <3>1, <3>3, <3>5, <3>7 DEF StepSays
      <4>2. line_pc' = "found"
        BY <2>1, <3>7
      <4>3. Found(n)'
        BY <4>1, <4>2, WholeKept DEF Found
      <4> QED
        BY <3>1, <4>3, WholeKept
    <3>8. CASE ~(bc' > 2 * lasti)
      <4>1. bc' <= Limit(format)'
        BY <1>1, <2>4, <3>3, <3>8, WholeKept
      <4>2. line_pc' = "loop"
        BY <2>1, <3>8
      <4>3. Found(n)'
        BY <3>6, <4>1, <4>2 DEF Found
      <4> QED
        BY <3>1, <4>3, WholeKept
    <3> QED
      BY <3>7, <3>8
  <2> QED
    BY <1>1, <2>1, <2>5, <2>6, <2>7 DEF LinesInv
<1>5. CASE x # 255 /\ ~(at + 1 < Len(table))
  <2>1. line_pc' = "outside" /\ at' = at /\ lineno' = lineno /\ bc' = bc + x
    BY <1>2, <1>5 DEF L!StepLinetable, L!WithPair, L!len
  <2>2. L!TypeOK'
    BY <1>1, <1>2, <2>1 DEF L!TypeOK
  <2>3. Len(table) % 2 = 1
    BY <1>1, <1>5
  <2>4. ASSUME whole PROVE \E n : Whole(n)' /\ Found(n)'
    <3>1. PICK n : Whole(n)
      BY <2>4 DEF LinesInv
    <3>2. Found(n)'
      BY <2>1 DEF Found
    <3> QED
      BY <3>1, <3>2, WholeKept
  <2> QED
    BY <1>1, <2>1, <2>2, <2>3, <2>4 DEF LinesInv
<1> QED
  BY <1>3, <1>4, <1>5

(* 3.11 and after (frame.cc:141-203).                                      *)
LEMMA EntryStep ==
  ASSUME LinesInv, line_pc = "loop", at < Len(table), L!StepEntry,
         UNCHANGED <<format, runs, lasti, whole, table>>
  PROVE  LinesInv'
<1>1. /\ L!TypeOK /\ format = 11 /\ at \in Nat /\ Len(table) \in Nat
      /\ bc \in Nat /\ lasti \in Nat /\ lineno \in Int /\ table \in Seq(0..255)
  BY DEF LinesInv, L!TypeOK, L!StepEntry
<1>2. PICK x \in Nat : x = L!At(at) /\ x = table[at + 1]
  <2>1. at \in 0..(Len(table) - 1)
    BY <1>1
  <2> QED
    BY <1>1, <2>1, TableRead
<1>3. bc' = bc + (x % 8) + 1 /\ bc' \in Nat
  BY <1>1, <1>2 DEF L!StepEntry
<1>4. ASSUME whole
      PROVE  \E n, u, c, e :
               /\ Whole(n) /\ bc <= lasti /\ u = (x % 8) + 1
               /\ EntryRead(u, e, c)
               /\ StepSays(n, at, bc, lineno, at + 1 + Len(Rest(e, c)), u, Gain(e, c))
               /\ Len(Rest(e, c)) \in Nat
  <2>1. PICK n, q, b, d : Whole(n) /\ bc <= Limit(format) /\ StepSays(n, at, bc, lineno, q, b, d)
    BY <1>4, WholeStep
  <2>2. PICK c, e : EntryAt(table, at, q, b, d, c, e)
    BY <1>1, <2>1 DEF StepSays, RecordAt
  <2>3. /\ b \in 1..8 /\ c \in 0..15 /\ Coded(e, c) /\ Gain(e, c) = d
        /\ q = at + Len(L!Entry(b, e, c)) /\ q <= Len(table)
    BY <2>1, <2>2 DEF EntryAt, StepSays, RecordAt
  <2>4. Holds(at, L!Entry(b, e, c))
    BY <2>2, <2>3 DEF EntryAt, Holds
  <2>5. EntryRead(b, e, c)
    BY <1>1, <2>3, <2>4, EntryDecoded
  <2>6. b = (x % 8) + 1
    BY <1>2, <2>5 DEF EntryRead
  <2>7. /\ Len(Rest(e, c)) \in Nat
        /\ Len(L!Entry(b, e, c)) = 1 + Len(Rest(e, c))
    BY <2>3, EntryLength, Zenon
  <2>8. q = at + 1 + Len(Rest(e, c))
    <3> HIDE DEF L!Entry, Rest
    <3> QED
      BY <1>1, <2>3, <2>7
  <2>9. bc <= lasti
    BY <1>1, <2>1 DEF Limit
  <2> QED
    BY <2>1, <2>3, <2>5, <2>6, <2>7, <2>8, <2>9, Zenon
<1>5. CASE L!CutShort
  <2>1. line_pc' = "error" /\ at' = at /\ lineno' = lineno
    BY <1>5 DEF L!StepEntry
  <2>2. L!TypeOK'
    BY <1>1, <1>3, <2>1 DEF L!TypeOK
  <2>3. ~whole
    BY <1>4, <1>5 DEF EntryRead
  <2> QED
    BY <1>1, <2>1, <2>2, <2>3 DEF LinesInv
<1>6. CASE ~L!CutShort
  <2>1. PICK z \in Int, y \in Nat : z = L!Decoded.delta /\ y = L!Decoded.at /\ y < Len(table)
    <3>1. L!Decoded.delta \in Int /\ L!Decoded.at \in at..(Len(table) - 1)
      BY <1>1, <1>6, EntryBounded
    <3>2. PICK y : y = L!Decoded.at
      OBVIOUS
    <3>3. y \in Nat /\ y < Len(table)
      BY <1>1, <3>1, <3>2
    <3> QED
      BY <3>1, <3>2, <3>3
  <2>2. /\ lineno' = lineno + z /\ at' = y + 1
        /\ line_pc' = IF bc' > lasti THEN "found" ELSE "loop"
    BY <1>6, <2>1 DEF L!StepEntry, L!len
  <2>3. L!TypeOK'
    <3>1. at' \in 0..Len(table) /\ lineno' \in Int
      BY SMTT(30), <1>1, <2>1, <2>2
    <3> QED
      BY <1>1, <1>3, <2>2, <3>1 DEF L!TypeOK
  <2>4. ASSUME whole PROVE \E n : Whole(n)' /\ Found(n)'
    <3>1. PICK n, u, c, e :
            /\ Whole(n) /\ bc <= lasti /\ u = (x % 8) + 1
            /\ EntryRead(u, e, c)
            /\ StepSays(n, at, bc, lineno, at + 1 + Len(Rest(e, c)), u, Gain(e, c))
            /\ Len(Rest(e, c)) \in Nat
      BY <1>4, <2>4
    <3>2. PICK w, d : w \in Nat /\ w = Len(Rest(e, c)) /\ d = Gain(e, c)
      BY <3>1
    <3>3. z = d /\ y = at + w
      BY <2>1, <3>1, <3>2 DEF EntryRead
    <3>4. StepSays(n, at, bc, lineno, at + 1 + w, u, d)
      BY <3>1, <3>2
    <3>5. Limit(format) = lasti
      BY <1>1 DEF Limit
    <3>6. Reached(n, at + 1 + w, bc + u, lineno + d)
      BY <3>4 DEF StepSays
    <3>7. at' = at + 1 + w /\ bc' = bc + u /\ lineno' = lineno + d
      <4>1. x % 8 \in Nat
        BY <1>2
      <4>2. bc' = bc + u
        BY <1>1, <1>3, <3>1, <4>1
      <4>3. at' = at + 1 + w /\ lineno' = lineno + d
        BY <1>1, <2>2, <3>2, <3>3
      <4> QED
        BY <4>2, <4>3
    <3>8. Reached(n, at, bc, lineno)'
      BY <3>6, <3>7, ReachedKept
    <3>9. CASE bc' > lasti
      <4>1. L!Line = lineno'
        BY <1>1, <3>1, <3>4, <3>5, <3>7, <3>9 DEF StepSays
      <4>2. line_pc' = "found"
        BY <2>2, <3>9
      <4>3. Found(n)'
        BY <4>1, <4>2, WholeKept DEF Found
      <4> QED
        BY <3>1, <4>3, WholeKept
    <3>10. CASE ~(bc' > lasti)
      <4>1. bc' <= Limit(format)'
        BY <1>1, <1>3, <3>5, <3>10, WholeKept
      <4>2. line_pc' = "loop"
        BY <2>2, <3>10
      <4>3. Found(n)'
        BY <3>8, <4>1, <4>2 DEF Found
      <4> QED
        BY <3>1, <4>3, WholeKept
    <3> QED
      BY <3>9, <3>10
  <2> QED
    BY <1>1, <2>2, <2>3, <2>4 DEF LinesInv
<1> QED
  BY <1>5, <1>6

(* The end of the table. *)
LEMMA EndStep ==
  ASSUME LinesInv, line_pc = "loop", at >= Len(table), line_pc' = "found",
         UNCHANGED <<format, runs, lasti, whole, table, at, bc, lineno>>
  PROVE  LinesInv'
<1>1. L!TypeOK /\ format \in 9..11 /\ lasti \in Nat /\ at \in 0..Len(table)
  BY DEF LinesInv, L!TypeOK
<1>2. L!TypeOK'
  BY <1>1 DEF L!TypeOK
<1>3. ASSUME whole PROVE \E n : Whole(n)' /\ Found(n)'
  <2>1. PICK n : Whole(n) /\ bc <= Limit(format) /\ Reached(n, at, bc, lineno)
    BY <1>3 DEF LinesInv, Found
  <2>2. PICK a, c, l : a = at /\ c = bc /\ l = lineno
    OBVIOUS
  <2>3. Ahead(n, a, c, l) \/ AtEnd(n, a, c, l)
    BY <1>1, <2>1, <2>2, ReachedAhead, Zenon
  <2>4. ~Ahead(n, a, c, l)
    <3> SUFFICES ASSUME Ahead(n, a, c, l) PROVE FALSE
      OBVIOUS
    <3>1. PICK q, b, d : StepSays(n, a, c, l, q, b, d)
      BY <1>1, <2>1, AheadStep
    <3>2. q <= Len(table) /\ q > a
      BY <3>1 DEF StepSays, RecordAt
    <3>3. q \in Nat
      <4>1. Reached(n, q, c + b, l + d)
        BY <3>1 DEF StepSays
      <4>2. PICK k, off, W, g, B, A, j :
              Setting(n, k, off, W, g, B, A) /\ j \in 0..W
              /\ PlaceAt(k, off, g, B, A, j, q, c + b, l + d)
        BY <4>1, Zenon DEF Reached
      <4>3. off[k - 1] \in Nat /\ g[j] \in Nat
        BY <1>1, <2>1, <4>2, SettingSays
      <4> QED
        BY <4>2, <4>3 DEF PlaceAt
    <3> QED
      BY <1>1, <2>2, <3>2, <3>3
  <2>5. L!Line = lineno
    BY <1>1, <2>1, <2>2, <2>3, <2>4, EndFound
  <2>6. Found(n)'
    BY <2>5, WholeKept DEF Found
  <2> QED
    BY <2>1, <2>6, WholeKept
<1> QED
  BY <1>2, <1>3 DEF LinesInv

(* Every step of Frame::infer_location keeps the invariant.                *)
LEMMA LinesStep ==
  ASSUME LinesInv, [L!Next]_line_vars
  PROVE  LinesInv'
<1>1. CASE L!Step
  <2>1. line_pc = "loop" /\ UNCHANGED <<format, runs, lasti, whole, table>>
    BY <1>1 DEF L!Step
  <2>2. at \in Int /\ Len(table) \in Int
    BY DEF LinesInv, L!TypeOK
  <2>3. CASE at < Len(table)
    <3>1. L!StepLnotab \/ L!StepLinetable \/ L!StepEntry
      BY <1>1, <2>3 DEF L!Step, L!len
    <3> QED
      BY <2>1, <2>3, <3>1, LnotabStep, LinetableStep, EntryStep
  <2>4. CASE ~(at < Len(table))
    <3>1. line_pc' = "found" /\ UNCHANGED <<at, bc, lineno>>
      BY <1>1, <2>4 DEF L!Step, L!len
    <3>2. at >= Len(table)
      BY <2>2, <2>4
    <3> QED
      BY <2>1, <3>1, <3>2, EndStep
  <2> QED
    BY <2>3, <2>4
<1>2. CASE UNCHANGED line_vars
  <2>1. UNCHANGED <<format, runs, lasti, whole, table, line_pc, at, bc, lineno>>
    BY <1>2 DEF line_vars
  <2>2. ASSUME whole PROVE \E n : Whole(n)' /\ Found(n)'
    <3>1. PICK n : Whole(n) /\ Found(n)
      BY <2>2 DEF LinesInv
    <3>2. line_pc = "loop" => Reached(n, at, bc, lineno)'
      BY <2>1, <3>1, ReachedKept DEF Found
    <3>3. Found(n)'
      BY <2>1, <3>1, <3>2, WholeKept DEF Found
    <3> QED
      BY <2>1, <3>1, <3>3, WholeKept
  <2> QED
    BY <2>1, <2>2 DEF LinesInv, L!TypeOK
<1> QED
  BY <1>1, <1>2 DEF L!Next

(* Nothing is looked up in the other parts.                                *)
LEMMA NoLinesRight ==
  ASSUME NoLines
  PROVE  LinesInv
<1>1. /\ format = 9 /\ runs = <<>> /\ lasti = 0 /\ whole = FALSE /\ table = <<>>
      /\ line_pc = "loop" /\ at = 0 /\ bc = 0 /\ lineno = 0
  BY DEF NoLines
<1>2. <<>> \in Seq(0..255) /\ Len(<<>>) = 0 /\ 0 \in 0..0 /\ 9 \in 9..11 /\ 0 % 2 = 0
  OBVIOUS
<1>3. L!TypeOK
  <2>1. table \in Seq(0..255) /\ at \in 0..Len(table)
    BY <1>1, <1>2
  <2>2. bc \in Nat /\ lasti \in Nat /\ lineno \in Int
    BY <1>1
  <2>3. whole \in BOOLEAN
    BY <1>1, Zenon
  <2> QED
    BY <1>1, <1>2, <2>1, <2>2, <2>3 DEF L!TypeOK
<1> QED
  BY <1>1, <1>2, <1>3 DEF LinesInv

(* The code starts in front of the first run.                              *)
LEMMA LinesStart ==
  ASSUME L!Init
  PROVE  LinesInv
<1>1. /\ format \in 9..11 /\ whole \in BOOLEAN /\ line_pc = "loop" /\ at = 0 /\ bc = 0
      /\ lineno = L!co_firstlineno
  BY DEF L!Init
<1>2. PICK n \in 1..MaxRuns : runs \in [1..n -> L!Run(format)]
  BY DEF L!Init
<1>3. n \in Nat \ {0} /\ DOMAIN runs = 1..n
  BY <1>2, LinesAssumption
<1>4. AllRuns(format, runs, n)
  <2> SUFFICES ASSUME NEW k \in 1..n PROVE RunSays(format, runs[k])
    BY <1>3 DEF AllRuns
  <2>1. runs[k] \in L!Run(format)
    BY <1>2
  <2> QED
    BY <1>1, <2>1, RunIs
<1>5. PICK k \in 1..n : lasti \in {L!End(runs, k - 1), L!End(runs, k) - 1}
  BY <1>3 DEF L!Init
<1>6. /\ lasti \in Nat
      /\ L!End(runs, k - 1) <= lasti /\ lasti < L!End(runs, k)
  <2>1. k - 1 \in 0..(n - 1) /\ (k - 1) + 1 = k /\ k - 1 \in 0..n
    BY <1>3
  <2>2. EndsAt(runs, k - 1)
    BY <1>4, <2>1, EndsNext
  <2>3. L!End(runs, k) = L!End(runs, k - 1) + runs[k].units
    BY <2>1, <2>2 DEF EndsAt
  <2>4. runs[k].units \in Nat \ {0}
    BY <1>4, AdvanceTyping DEF AllRuns
  <2>5. L!End(runs, k - 1) \in Nat
    BY <1>4, <2>1, EndsUp
  <2> QED
    BY <1>5, <2>3, <2>4, <2>5
<1>7. L!Table(format, runs) \in Seq(0..255)
  BY <1>1, <1>3, <1>4, TableLaid
<1>8. table \in Seq(0..255)
  <2>1. CASE whole
    BY <1>7, <2>1 DEF L!Init
  <2>2. CASE ~whole
    <3>1. PICK t, m : t = L!Table(format, runs) /\ m \in 0..(Len(t) - 1) /\ table = SubSeq(t, 1, m)
      BY <2>2 DEF L!Init
    <3>2. t \in Seq(0..255) /\ Len(t) \in Nat
      BY <1>7, <3>1
    <3>3. m \in Int /\ 1 \in Int /\ \A j \in 1..m : t[j] \in 0..255
      <4>1. \A j \in 1..Len(t) : t[j] \in 0..255
        BY <3>2, ElementsOf
      <4> QED
        BY <3>1, <3>2, <4>1
    <3>4. SubSeq(t, 1, m) \in Seq(0..255)
      BY <3>3, SubSeqProperties, Zenon
    <3> QED
      BY <3>1, <3>4
  <2> QED
    BY <1>1, <2>1, <2>2
<1>9. L!TypeOK
  <2>1. 0 \in 0..Len(table) /\ L!co_firstlineno \in Int
    BY <1>8 DEF L!co_firstlineno
  <2> QED
    BY <1>1, <1>6, <1>8, <2>1 DEF L!TypeOK
<1>10. ASSUME whole PROVE Whole(n) /\ Found(n)
  <2>1. table = L!Table(format, runs)
    BY <1>10 DEF L!Init
  <2>2. Whole(n)
    BY <1>3, <1>4, <1>6, <2>1 DEF Whole
  <2>3. Reached(n, at, bc, lineno)
    BY <1>1, <2>2, ReachedStart
  <2>4. bc <= Limit(format)
    BY <1>1, <1>6 DEF Limit
  <2> QED
    BY <1>1, <2>2, <2>3, <2>4 DEF Found
<1>11. at % 2 = 0
  BY <1>1
<1> QED
  BY <1>1, <1>9, <1>10, <1>11 DEF LinesInv

(* What the invariant is for.                                              *)
LEMMA LinesSafe ==
  ASSUME LinesInv
  PROVE  L!LinesRight
<1>1. line_pc = "found" /\ whole => lineno = L!Line
  BY DEF LinesInv, Found
<1> QED
  BY <1>1 DEF LinesInv, L!LinesRight, L!len

(* Frame::infer_location (frame.cc:127-258) finds the line of the run that *)
(* an instruction is in, for runs and lines of any length, in the table of *)
(* each version; it never reads past a table of 3.11 that is cut short,    *)
(* and past those before only if they end in half a pair.                  *)
THEOREM MCSpecLines == MCSpec => [](L!TypeOK /\ L!LinesRight)
<1>1. MCInit => LinesInv
  BY NoLinesRight, LinesStart DEF MCInit
<1>2. LinesInv /\ [MCNext]_<<part, vars, chunk_vars, native_vars, line_vars, number_vars>>
        => LinesInv'
  <2> SUFFICES ASSUME LinesInv,
                      [MCNext]_<<part, vars, chunk_vars, native_vars, line_vars, number_vars>>
               PROVE  LinesInv'
    OBVIOUS
  <2>1. [L!Next]_line_vars
    BY DEF MCNext, Others
  <2> QED
    BY <2>1, LinesStep
<1>3. LinesInv => L!TypeOK /\ L!LinesRight
  BY LinesSafe DEF LinesInv
<1> QED
  BY <1>1, <1>2, <1>3, PTL DEF MCSpec

-----------------------------------------------------------------------------
(* Machine words.                                                          *)

Half == D!Modulus \div 2

LEMMA HalfIs ==
  /\ Half \in Nat \ {0} /\ D!Modulus \in Nat \ {0} /\ D!Modulus = 2 * Half
  /\ D!Base \in Nat \ {0, 1} /\ Half % D!Base = 0
  /\ D!MachineInt = (-Half)..(Half - 1)
<1>1. D!Modulus = 2 * Half /\ D!Modulus \in Nat \ {0} /\ D!Base \in Nat \ {0, 1}
      /\ Half % D!Base = 0
  BY NumbersAssumption DEF Half
<1>2. Half \in Int
  BY <1>1 DEF Half
<1> QED
  BY <1>1, <1>2 DEF D!MachineInt, Half

LEMMA Quotient ==
  ASSUME NEW m \in Nat, m > 1, NEW n \in Nat
  PROVE  /\ n % m \in 0..(m - 1) /\ n \div m \in Nat /\ n = m * (n \div m) + (n % m)
         /\ n # 0 => n \div m < n
<1>1. PICK q \in Int, r \in 0..(m - 1) : q = n \div m /\ r = n % m /\ n = m * q + r
  BY Divided
<1>2. q >= 0
  <2> SUFFICES ASSUME q <= -1 PROVE FALSE
    OBVIOUS
  <2>1. m * q <= -m
    OBVIOUS
  <2> QED
    BY <1>1, <2>1
<1>3. n # 0 => q < n
  <2>1. CASE q = 0
    BY <2>1
  <2>2. CASE q # 0
    <3>1. m * q >= 2 * q
      BY <1>2
    <3> QED
      BY <1>1, <1>2, <2>2, <3>1
  <2> QED
    BY <2>1, <2>2
<1> QED
  BY <1>1, <1>2, <1>3

LEMMA DigitOf ==
  ASSUME NEW n \in Nat
  PROVE  \E q \in Nat, r \in 0..(D!Base - 1) :
           /\ q = n \div D!Base /\ r = n % D!Base /\ n = D!Base * q + r
           /\ n # 0 => q < n
<1>1. D!Base \in Nat /\ D!Base > 1
  BY HalfIs
<1> QED
  BY <1>1, Quotient

LEMMA HalfDigits ==
  \E n \in Nat \ {0} : Half = D!Base * n
<1>0. Half \in Nat
  BY HalfIs
<1>1. PICK q \in Nat, r \in 0..(D!Base - 1) :
        r = Half % D!Base /\ Half = D!Base * q + r
  BY <1>0, DigitOf
<1>2. Half = D!Base * q /\ D!Base \in Nat \ {0, 1} /\ Half \in Nat \ {0}
  BY <1>1, HalfIs
<1>3. q > 0
  <2> SUFFICES ASSUME q <= 0 PROVE FALSE
    OBVIOUS
  <2>1. D!Base * q <= 0
    BY <1>2
  <2> QED
    BY <1>2, <2>1
<1> QED
  BY <1>2, <1>3

(* Two numbers of a word that leave the same remainder are the same.       *)
LEMMA SameWord ==
  ASSUME NEW x \in D!MachineInt, NEW y \in D!MachineInt, Congruent(x, y, D!Modulus)
  PROVE  x = y
<1> DEFINE M == D!Modulus
<1>1. /\ M \in Nat /\ M > 0 /\ M = 2 * Half /\ Half \in Nat
      /\ x \in (-Half)..(Half - 1) /\ y \in (-Half)..(Half - 1)
  BY HalfIs
<1>2. PICK t \in Int : x = y + M * t
  BY DEF Congruent
<1> HIDE DEF M
<1>3. M * t < M /\ M * t > -M
  <2>1. M * t = x - y
    BY <1>1, <1>2
  <2> QED
    BY <1>1, <2>1
<1>4. t < 1
  <2> SUFFICES ASSUME t >= 1 PROVE FALSE
    OBVIOUS
  <2>1. M * t >= M
    BY <1>1
  <2> QED
    BY <1>1, <1>3, <2>1
<1>5. t > -1
  <2> SUFFICES ASSUME t <= -1 PROVE FALSE
    OBVIOUS
  <2>1. M * t <= -M
    BY <1>1
  <2> QED
    BY <1>1, <1>3, <2>1
<1>6. t = 0
  BY <1>4, <1>5
<1> QED
  BY <1>1, <1>2, <1>6

LEMMA SignedIs ==
  ASSUME NEW u \in 0..(D!Modulus - 1)
  PROVE  D!Signed(u) \in D!MachineInt /\ Congruent(D!Signed(u), u, D!Modulus)
<1>1. /\ Half \in Nat \ {0} /\ D!Modulus \in Nat \ {0} /\ D!Modulus = 2 * Half
      /\ D!MachineInt = (-Half)..(Half - 1)
      /\ D!Signed(u) = IF u >= Half THEN u - D!Modulus ELSE u
  BY HalfIs DEF D!Signed, Half
<1>2. D!Signed(u) \in D!MachineInt
  BY <1>1
<1>3. CASE u >= Half
  <2>1. D!Signed(u) = u + D!Modulus * (-1)
    BY <1>1, <1>3
  <2> QED
    BY <1>2, <2>1 DEF Congruent
<1>4. CASE ~(u >= Half)
  <2>1. D!Signed(u) = u + D!Modulus * 0
    BY <1>1, <1>4
  <2> QED
    BY <1>2, <2>1 DEF Congruent
<1> QED
  BY <1>3, <1>4

LEMMA CongruentTrans ==
  ASSUME NEW x \in Int, NEW y \in Int, NEW z \in Int, NEW m \in Nat,
         Congruent(x, y, m), Congruent(y, z, m)
  PROVE  Congruent(x, z, m)
<1>1. PICK s \in Int : x = y + m * s
  BY DEF Congruent
<1>2. PICK t \in Int : y = z + m * t
  BY DEF Congruent
<1>3. x = z + m * (s + t) /\ s + t \in Int
  BY <1>1, <1>2
<1> QED
  BY <1>3 DEF Congruent

LEMMA WrappedIs ==
  ASSUME NEW n \in Int
  PROVE  D!Wrapped(n) \in D!MachineInt /\ Congruent(D!Wrapped(n), n, D!Modulus)
<1>1. n % D!Modulus \in 0..(D!Modulus - 1) /\ D!Modulus \in Nat \ {0}
  BY HalfIs, Divided
<1>2. PICK u \in 0..(D!Modulus - 1) : u = n % D!Modulus
  BY <1>1
<1>3. Congruent(u, n, D!Modulus)
  BY <1>1, <1>2, Congruence
<1>4. D!Signed(u) \in D!MachineInt /\ Congruent(D!Signed(u), u, D!Modulus)
  BY SignedIs
<1>5. D!Signed(u) \in Int
  BY <1>4, HalfIs
<1>6. Congruent(D!Signed(u), n, D!Modulus)
  <2>1. u \in Int /\ D!Modulus \in Nat
    BY <1>1
  <2> QED
    BY <1>3, <1>4, <1>5, <2>1, CongruentTrans
<1> QED
  BY <1>2, <1>4, <1>6 DEF D!Wrapped

-----------------------------------------------------------------------------
(* The digits of a Python integer say what it is.                          *)

LEMMA DigitsAre ==
  /\ D!Digits \in [Nat -> Seq(Nat)]
  /\ D!Digits[0] = <<>>
  /\ \A n \in Nat \ {0} : D!Digits[n] = <<n % D!Base>> \o D!Digits[n \div D!Base]
<1> DEFINE V == Seq(Nat)
           base == [n \in {0} |-> <<>>]
           d == [n \in Nat |-> n \div D!Base]
           F == [q \in Nat \X V |-> <<q[1] % D!Base>> \o q[2]]
           Is(f) == f = [n \in Nat |-> IF n = 0 THEN <<>>
                                       ELSE <<n % D!Base>> \o f[n \div D!Base]]
<1>0. D!Base \in Nat \ {0, 1}
  BY HalfIs
<1>1. \A n \in Nat : n \in {0} => base[n] \in V
  OBVIOUS
<1>2. ASSUME NEW n \in Nat
      PROVE  n \div D!Base \in Nat /\ n % D!Base \in Nat /\ (n # 0 => n \div D!Base < n)
  BY <1>0, DigitOf
<1>3. Descends(d, {0})
  BY <1>2 DEF Descends
<1>4. ASSUME NEW n \in Nat, NEW v \in V
      PROVE  F[<<n, v>>] \in V /\ F[<<n, v>>] = <<n % D!Base>> \o v
  <2>1. PICK x \in Nat : x = n % D!Base
    BY <1>2
  <2>2. <<x>> \o v \in V
    BY <2>1
  <2>3. F[<<n, v>>] = <<n % D!Base>> \o v
    OBVIOUS
  <2> HIDE DEF F, V
  <2> QED
    BY <2>1, <2>2, <2>3
<1> HIDE DEF V, F
<1>5. \A n \in Nat, v \in V : n \notin {0} => F[<<n, v>>] \in V
  BY <1>4
<1>6. PICK f \in [Nat -> V] : Recurses(f, Nat, {0}, base, d, F)
  <2> HIDE DEF base, d
  <2> QED
    BY <1>1, <1>3, <1>5, RecursionExists
<1>7. Is(f)
  <2>1. ASSUME NEW n \in Nat
        PROVE  f[n] = IF n = 0 THEN <<>> ELSE <<n % D!Base>> \o f[n \div D!Base]
    <3>1. RecursesAt(f, n, {0}, base, d, F)
      BY <1>6 DEF Recurses
    <3>2. CASE n = 0
      BY <3>1, <3>2 DEF RecursesAt
    <3>3. CASE n # 0
      <4>1. f[n] = F[<<n, f[d[n]]>>] /\ d[n] = n \div D!Base
        BY <3>1, <3>3 DEF RecursesAt
      <4>2. f[n \div D!Base] \in V
        BY <1>2, <1>6
      <4>3. F[<<n, f[n \div D!Base]>>] = <<n % D!Base>> \o f[n \div D!Base]
        BY <1>4, <4>2
      <4> HIDE DEF d
      <4> QED
        BY <3>3, <4>1, <4>3
    <3> QED
      BY <3>2, <3>3
  <2> QED
    BY <1>6, <2>1
<1>8. D!Digits = CHOOSE g : Is(g)
  BY DEF D!Digits
<1>9. Is(D!Digits)
  <2> HIDE DEF Is
  <2> QED
    BY <1>7, <1>8
<1> DEFINE E == {n \in Nat : D!Digits[n] \in Seq(Nat)}
<1>10. ASSUME NEW n \in Nat
       PROVE  D!Digits[n] = IF n = 0 THEN <<>> ELSE <<n % D!Base>> \o D!Digits[n \div D!Base]
  BY <1>9
<1> HIDE DEF Is
<1>11. ASSUME NEW n \in Nat, \A m \in Nat : m < n => m \in E PROVE n \in E
  <2>1. CASE n = 0
    <3>1. D!Digits[0] = <<>>
      BY <1>10
    <3>2. <<>> \in Seq(Nat)
      OBVIOUS
    <3> QED
      BY <2>1, <3>1, <3>2
  <2>2. CASE n # 0
    <3>1. D!Digits[n \div D!Base] \in Seq(Nat)
      BY <1>2, <1>11, <2>2
    <3>2. <<n % D!Base>> \o D!Digits[n \div D!Base] \in Seq(Nat)
      <4>1. PICK x \in Nat, v \in Seq(Nat) : x = n % D!Base /\ v = D!Digits[n \div D!Base]
        BY <1>2, <3>1
      <4>2. <<x>> \o v \in Seq(Nat)
        OBVIOUS
      <4> QED
        BY <4>1, <4>2
    <3> QED
      BY <1>10, <2>2, <3>2
  <2> QED
    BY <2>1, <2>2
<1>12. Nat \subseteq E
  <2> HIDE DEF E
  <2> QED
    BY <1>11, StrongInduction
<1>13. D!Digits \in [Nat -> Seq(Nat)]
  <2>1. DOMAIN D!Digits = Nat /\ D!Digits = [n \in Nat |-> D!Digits[n]]
    BY <1>9 DEF Is
  <2>2. \A n \in Nat : D!Digits[n] \in Seq(Nat)
    BY <1>12
  <2> QED
    BY <2>1, <2>2
<1> QED
  BY <1>10, <1>13

(* h says what the digits of n from each one on make. *)
DigitsSay(h, n) ==
  Says(h, D!Base, D!Digits[n], 0) /\ h[1] = n
    /\ \A k \in 1..Len(D!Digits[n]) : D!Digits[n][k] \in 0..(D!Base - 1)

LEMMA DigitsSayAll ==
  ASSUME NEW N0 \in Nat
  PROVE  \E h : DigitsSay(h, N0)
<1> DEFINE E == {n \in Nat : \E h : DigitsSay(h, n)}
<1>1. ASSUME NEW n \in Nat, \A m \in Nat : m < n => m \in E PROVE n \in E
  <2>1. CASE n = 0
    <3>1. DigitsSay([k \in 1..1 |-> 0], n)
      BY <2>1, DigitsAre DEF DigitsSay, Says
    <3> QED
      BY <3>1
  <2>2. CASE n # 0
    <3>1. PICK m \in Nat, x \in 0..(D!Base - 1) :
            /\ m = n \div D!Base /\ x = n % D!Base /\ n = D!Base * m + x
            /\ m < n
      BY <2>2, DigitOf
    <3>2. n = x + D!Base * m
      <4>1. D!Base * m \in Nat /\ D!Base \in Nat
        BY HalfIs, Product
      <4> QED
        BY <3>1, <4>1
    <3>3. PICK g : DigitsSay(g, m)
      BY <1>1, <3>1
    <3> HIDE DEF E
    <3>4. PICK s \in Seq(Nat) : s = D!Digits[m]
      BY DigitsAre
    <3>5. PICK t \in Seq(Nat) : t = D!Digits[n]
      BY DigitsAre
    <3>6. t = <<x>> \o s
      BY <2>2, <3>1, <3>2, <3>4, <3>5, DigitsAre
    <3>7. PICK len \in Nat : len = Len(s)
      OBVIOUS
    <3>8. Len(t) = len + 1 /\ t[1] = x /\ \A k \in 2..(len + 1) : t[k] = s[k - 1]
      BY <3>6, <3>7, HalfIs
    <3> DEFINE h == [k \in 1..(len + 2) |-> IF k = 1 THEN n ELSE g[k - 1]]
    <3>9. /\ g \in [1..(len + 1) -> Nat] /\ g[len + 1] = 0 /\ g[1] = m
          /\ \A k \in 1..len : g[k] = (s[k] % D!Base) + D!Base * g[k + 1]
          /\ \A k \in 1..len : s[k] \in 0..(D!Base - 1)
      BY <3>3, <3>4, <3>7 DEF DigitsSay, Says
    <3>10. h \in [1..(len + 2) -> Nat] /\ h[1] = n /\ h[len + 2] = 0
      BY <3>9
    <3>11. ASSUME NEW k \in 1..(len + 1)
           PROVE  t[k] \in 0..(D!Base - 1) /\ h[k] = (t[k] % D!Base) + D!Base * h[k + 1]
      <4>1. CASE k = 1
        <5>1. h[2] = m /\ h[1] = n /\ t[1] = x
          BY <3>8, <3>9
        <5> HIDE DEF h
        <5>2. x % D!Base = x
          <6>1. PICK b \in Nat : b = D!Base /\ b > 1
            BY HalfIs
          <6>2. x % b = x
            BY <6>1
          <6> QED
            BY <6>1, <6>2
        <5>3. h[k + 1] = m /\ h[k] = n /\ t[k] = x
          BY <4>1, <5>1
        <5> QED
          BY <3>2, <5>2, <5>3
      <4>2. CASE k # 1
        <5>1. PICK j \in 1..len : k = j + 1
          <6>1. k - 1 \in 1..len /\ k = (k - 1) + 1
            BY <4>2
          <6> QED
            BY <6>1
        <5>2. t[k] = s[j] /\ h[k] = g[j] /\ h[k + 1] = g[j + 1]
          BY <3>8, <5>1
        <5> HIDE DEF h
        <5> QED
          BY <3>9, <5>2
      <4> QED
        BY <4>1, <4>2
    <3> HIDE DEF h
    <3>12. DigitsSay(h, n)
      <4>1. Len(t) + 1 = len + 2
        BY <3>8
      <4> QED
        BY <3>5, <3>8, <3>10, <3>11, <4>1 DEF DigitsSay, Says
    <3> QED
      BY <3>12 DEF E
  <2> QED
    BY <2>1, <2>2
<1> HIDE DEF E
<1>2. Nat \subseteq E
  BY <1>1, StrongInduction
<1> QED
  BY <1>2 DEF E

-----------------------------------------------------------------------------
(* Integers and references are written as they can be read.                *)

(* What is written, and its size. *)
Written == IF conversion = "ref" THEN D!Signed(value) ELSE value
SizeOf(n) == IF n < 0 THEN -n ELSE n

(* s, and what is left, say n. *)
BytesSay(s, left, n) ==
  /\ s # <<>> /\ s \in Seq(0..255)
  /\ (s[1] % 64) + 64 * Positions(128, Tail(s), left) = SizeOf(n)
  /\ (s[1] \div 64) % 2 = 1 <=> n < 0

(* Every byte but the last is marked, and the last is while some are left. *)
Marked(s, left) ==
  /\ \A k \in 1..(Len(s) - 1) : s[k] >= 128
  /\ s[Len(s)] >= 128 <=> left > 0

WritingInv ==
  conversion # "pylong" =>
    /\ Written \in D!MachineInt
    /\ conversion = "ref" => value \in 0..(D!Modulus - 1)
    /\ number_pc \in {"begin", "loop", "done"}
    /\ digits_left = 0 /\ ret = 0
    /\ number_pc = "begin" => output = <<>> /\ integer = 0
    /\ number_pc # "begin" =>
         /\ BytesSay(output, integer, Written)
         /\ Marked(output, integer)
         /\ number_pc = "done" <=> integer = 0

(* Digits of a Python integer are taken from the highest on.               *)
ReadingInv ==
  conversion = "pylong" =>
    /\ integer = 0 /\ output = <<>>
    /\ number_pc = "begin" => digits_left = 0 /\ ret = 0
    /\ number_pc = "loop" =>
         \E h : /\ DigitsSay(h, D!Magnitude)
                /\ digits_left <= Len(D!Digits[D!Magnitude])
                /\ Congruent(ret, h[digits_left + 1], D!Modulus)
    /\ number_pc = "done" => (value \in D!MachineInt => ret = value)

NumbersInv == D!TypeOK /\ WritingInv /\ ReadingInv

LEMMA NumbersStart ==
  ASSUME D!Init \/ NoNumbers
  PROVE  NumbersInv
<1>1. /\ 0 \in D!MachineInt /\ 0 \in 0..(D!Modulus - 1) /\ 0 \in 0..MAX_DIGITS
      /\ Values \subseteq Int /\ <<>> \in Seq(0..255) /\ D!MachineInt \subseteq Int
  BY HalfIs, NumbersAssumption
<1>2. /\ number_pc = "begin" /\ integer = 0 /\ output = <<>> /\ digits_left = 0 /\ ret = 0
      /\ conversion \in {"integer", "ref", "pylong"} /\ value \in Int
      /\ conversion = "ref" => value \in 0..(D!Modulus - 1)
      /\ conversion = "integer" => value \in D!MachineInt
  BY <1>1 DEF D!Init, NoNumbers
<1>3. D!TypeOK
  BY <1>1, <1>2 DEF D!TypeOK
<1>4. conversion = "ref" => D!Signed(value) \in D!MachineInt
  BY <1>2, SignedIs
<1> QED
  BY <1>2, <1>3, <1>4 DEF NumbersInv, WritingInv, ReadingInv, Written

(* The first byte. *)
LEMMA FirstByte ==
  ASSUME NEW size \in Nat, NEW negative \in BOOLEAN, NEW b,
         b = (size % 64) + (IF negative THEN 64 ELSE 0) + (IF size \div 64 > 0 THEN 128 ELSE 0)
  PROVE  /\ b \in 0..255 /\ b % 64 = size % 64
         /\ (b \div 64) % 2 = 1 <=> negative
         /\ b >= 128 <=> size \div 64 > 0
         /\ size = (size % 64) + 64 * (size \div 64) /\ size \div 64 \in Nat
         /\ size \div 64 <= size
<1>1. PICK r \in 0..63, q \in Nat : r = size % 64 /\ q = size \div 64 /\ size = r + 64 * q
  OBVIOUS
<1> QED
  BY <1>1

LEMMA BeginIntegerStep ==
  ASSUME NumbersInv, D!BeginInteger
  PROVE  NumbersInv'
<1>1. /\ number_pc = "begin" /\ conversion \in {"integer", "ref"} /\ Written \in D!MachineInt
      /\ digits_left = 0 /\ ret = 0 /\ D!Begin(Written)
      /\ UNCHANGED <<conversion, value, digits_left, ret>>
      /\ number_pc' = IF integer' > 0 THEN "loop" ELSE "done"
      /\ conversion = "ref" => value \in 0..(D!Modulus - 1)
      /\ conversion # "pylong"
  BY DEF D!BeginInteger, NumbersInv, WritingInv, Written
<1>2. PICK n \in D!MachineInt : n = Written
  BY <1>1
<1>3. SizeOf(n) \in Nat /\ SizeOf(n) <= Half /\ n \in Int
  BY HalfIs DEF SizeOf
<1>4. (IF n < 0 THEN D!Negated(n) ELSE n) = SizeOf(n)
  <2>1. CASE n < 0
    <3>1. PICK m \in Nat : m = D!Modulus /\ -n < m /\ -n \in Nat
      BY <1>3, <2>1, HalfIs DEF SizeOf
    <3>2. (-n) % m = -n
      BY <3>1
    <3> QED
      BY <2>1, <3>1, <3>2 DEF SizeOf, D!Negated
  <2>2. CASE ~(n < 0)
    BY <2>2 DEF SizeOf
  <2> QED
    BY <2>1, <2>2
<1>5. PICK size \in Nat : size = SizeOf(n)
  BY <1>3
<1>6. PICK b : b = (size % 64) + (IF n < 0 THEN 64 ELSE 0) + (IF size \div 64 > 0 THEN 128 ELSE 0)
  OBVIOUS
<1>7. output' = <<b>> /\ integer' = size \div 64
  BY <1>1, <1>2, <1>4, <1>5, <1>6 DEF D!Begin, D!PutSign, D!Continued
<1>8. /\ b \in 0..255 /\ b % 64 = size % 64
      /\ (b \div 64) % 2 = 1 <=> n < 0
      /\ b >= 128 <=> size \div 64 > 0
      /\ size = (size % 64) + 64 * (size \div 64) /\ size \div 64 \in Nat
      /\ size \div 64 <= size
  <2>1. (n < 0) \in BOOLEAN
    OBVIOUS
  <2> QED
    BY <1>6, <2>1, FirstByte
<1>9. PICK rest \in Nat : rest = size \div 64
  BY <1>8
<1>10. Positions(128, <<>>, rest) = rest
  <2>1. <<>> \in Seq(Nat) /\ 128 \in Nat /\ 128 > 0
    OBVIOUS
  <2> QED
    BY ZenonT(60), <2>1, PositionsLast
<1>11. BytesSay(<<b>>, rest, n)
  <2>1. <<b>>[1] = b /\ Tail(<<b>>) = <<>> /\ <<b>> # <<>> /\ <<b>> \in Seq(0..255)
    BY <1>8
  <2>2. (b % 64) + 64 * rest = SizeOf(n)
    BY <1>5, <1>8, <1>9
  <2> QED
    BY <1>8, <1>10, <2>1, <2>2 DEF BytesSay
<1>12. Marked(<<b>>, rest)
  <2>1. Len(<<b>>) = 1 /\ <<b>>[1] = b
    OBVIOUS
  <2> QED
    BY <1>8, <1>9, <2>1 DEF Marked
<1>13. integer' \in 0..(D!Modulus - 1)
  <2>1. rest <= Half /\ Half < D!Modulus /\ Half \in Nat /\ D!Modulus \in Nat
    BY <1>3, <1>5, <1>8, <1>9, HalfIs
  <2> QED
    BY <1>7, <1>9, <2>1
<1>14. Written' = n
  BY <1>1, <1>2 DEF Written, D!Signed
<1>15. D!TypeOK'
  <2>1. output' \in Seq(0..255)
    BY <1>7, <1>8
  <2> QED
    BY <1>1, <1>13, <2>1 DEF D!TypeOK, NumbersInv
<1>16. WritingInv'
  BY <1>1, <1>2, <1>7, <1>9, <1>11, <1>12, <1>14 DEF WritingInv, D!MachineInt, D!Modulus
<1>17. ReadingInv'
  BY <1>1 DEF ReadingInv
<1> QED
  BY <1>15, <1>16, <1>17 DEF NumbersInv

-----------------------------------------------------------------------------
(* The byte that is written while some are left. *)
ByteOf(left) == (left % 128) + (IF left \div 128 > 0 THEN 128 ELSE 0)

LEMMA NextByte ==
  ASSUME NEW s, NEW left \in Nat, NEW n, BytesSay(s, left, n), Marked(s, left), left > 0
  PROVE  /\ BytesSay(Append(s, ByteOf(left)), left \div 128, n)
         /\ Marked(Append(s, ByteOf(left)), left \div 128)
<1>0. PICK b \in 0..255 : b = ByteOf(left)
  BY DEF ByteOf
<1>1. PICK r \in 0..127, q \in Nat :
        r = left % 128 /\ q = left \div 128 /\ left = r + 128 * q
  OBVIOUS
<1>2. b % 128 = r /\ (b >= 128 <=> q > 0)
  <2>0. b = r + (IF q > 0 THEN 128 ELSE 0)
    BY <1>0, <1>1 DEF ByteOf
  <2>1. b = r \/ b = r + 128
    BY <1>1, <2>0
  <2>2. b >= 128 <=> q > 0
    BY <1>1, <2>0
  <2> QED
    BY <2>1, <2>2
<1> DEFINE t == Append(s, b)
<1>3. s \in Seq(0..255) /\ s # <<>> /\ s \in Seq(Nat)
  <2>1. s \in Seq(0..255) /\ s # <<>>
    BY DEF BytesSay
  <2>2. 0..255 \subseteq Nat
    OBVIOUS
  <2>3. s \in Seq(Nat)
    BY ZenonT(60), <2>1, <2>2, Widened
  <2> QED
    BY <2>1, <2>3
<1>4. /\ t \in Seq(0..255) /\ t # <<>> /\ t[1] = s[1] /\ Len(t) = Len(s) + 1
      /\ t[Len(s) + 1] = b /\ \A k \in 1..Len(s) : t[k] = s[k]
  BY <1>3
<1>5. Tail(t) = Append(Tail(s), b)
  BY <1>3
<1>6. Positions(128, Tail(t), q) = Positions(128, Tail(s), left)
  <2>1. Tail(s) \in Seq(Nat) /\ b \in Nat /\ 128 \in Nat /\ 128 > 0
    BY <1>3
  <2>2. Raised(128, Tail(s), b, q)
    BY <2>1, PositionsLast
  <2>3. (b % 128) + 128 * q = left
    BY <1>1, <1>2
  <2> QED
    BY <1>5, <2>2, <2>3 DEF Raised
<1> HIDE DEF t
<1>7. BytesSay(t, q, n)
  BY <1>4, <1>6 DEF BytesSay
<1>8. Marked(t, q)
  <2>1. PICK m \in Nat \ {0} : m = Len(s)
    BY <1>3
  <2>2. \A k \in 1..m : s[k] >= 128
    BY <2>1 DEF Marked
  <2> QED
    BY <1>2, <1>4, <2>1, <2>2 DEF Marked
<1> QED
  BY <1>0, <1>1, <1>7, <1>8, Zenon DEF t

LEMMA PutByteStep ==
  ASSUME NumbersInv, D!PutByte
  PROVE  NumbersInv'
<1>1. /\ number_pc = "loop" /\ conversion # "pylong"
      /\ UNCHANGED <<conversion, value, digits_left, ret>>
      /\ number_pc' = IF integer' > 0 THEN "loop" ELSE "done"
      /\ BytesSay(output, integer, Written) /\ Marked(output, integer) /\ integer # 0
      /\ Written \in D!MachineInt /\ (conversion = "ref" => value \in 0..(D!Modulus - 1))
      /\ digits_left = 0 /\ ret = 0
  BY DEF D!PutByte, NumbersInv, WritingInv
<1>2. integer \in 0..(D!Modulus - 1) /\ D!Modulus \in Nat
  BY HalfIs DEF NumbersInv, D!TypeOK
<1>3. PICK left \in Nat : left = integer /\ left > 0
  BY <1>1, <1>2
<1>4. integer' = left \div 128 /\ integer' \in 0..(D!Modulus - 1)
  BY <1>2, <1>3 DEF D!PutByte
<1>5. output' = Append(output, ByteOf(left))
  <2>1. output' = Append(output, (integer % 128) + D!Continued(integer'))
    BY DEF D!PutByte
  <2>2. (integer % 128) + D!Continued(integer') = ByteOf(left)
    BY <1>3, <1>4 DEF D!Continued, ByteOf
  <2> QED
    BY <2>1, <2>2, Zenon
<1>8. BytesSay(output', integer', Written) /\ Marked(output', integer')
  <2>1. PICK s, n : s = output /\ n = Written
    OBVIOUS
  <2>2. BytesSay(s, left, n) /\ Marked(s, left)
    BY <1>1, <1>3, <2>1, Zenon
  <2>3. /\ BytesSay(Append(s, ByteOf(left)), left \div 128, n)
        /\ Marked(Append(s, ByteOf(left)), left \div 128)
    BY <1>3, <2>2, NextByte
  <2> QED
    BY <1>4, <1>5, <2>1, <2>3, Zenon
<1>9. Written' = Written
  BY <1>1 DEF Written, D!Signed
<1>10. D!TypeOK'
  <2>1. output' \in Seq(0..255)
    BY <1>8 DEF BytesSay
  <2> QED
    BY <1>1, <1>4, <2>1 DEF D!TypeOK, NumbersInv
<1>11. WritingInv'
  <2>1. number_pc' = "done" <=> integer' = 0
    BY <1>1, <1>4
  <2>2. number_pc' \in {"loop", "done"}
    BY <1>1
  <2> QED
    BY <1>1, <1>8, <1>9, <2>1, <2>2 DEF WritingInv, D!MachineInt, D!Modulus
<1>12. ReadingInv'
  BY <1>1 DEF ReadingInv
<1> QED
  BY <1>10, <1>11, <1>12 DEF NumbersInv

-----------------------------------------------------------------------------
(* Python integers are read as they are.                                   *)

LEMMA MagnitudeIs ==
  ASSUME NumbersInv
  PROVE  D!Magnitude \in Nat /\ value \in Int /\ D!Magnitude = SizeOf(value)
BY DEF NumbersInv, D!TypeOK, D!Magnitude, SizeOf

(* A number of one digit fits in a word. *)
LEMMA OneDigit ==
  ASSUME NEW n \in Nat, Len(D!Digits[n]) <= 1
  PROVE  n < Half
<1>0. \A m \in Nat : m <= 1 => m \in 0..1
  OBVIOUS
<1>1. PICK h : DigitsSay(h, n)
  BY DigitsSayAll
<1>2. PICK s \in Seq(Nat) : s = D!Digits[n]
  BY DigitsAre
<1>3. PICK b \in Nat : b = D!Base /\ b > 1 /\ Half >= b
  <2>1. PICK q \in Nat \ {0} : Half = D!Base * q
    BY HalfDigits
  <2>2. PICK b \in Nat : b = D!Base /\ b > 1
    BY HalfIs
  <2>3. b * q >= b
    BY <2>1
  <2> QED
    BY <2>1, <2>2, <2>3
<1>4. h[1] = n /\ h[Len(s) + 1] = 0 /\ Len(s) \in 0..1
      /\ \A k \in 1..Len(s) : h[k] = (s[k] % b) + b * h[k + 1] /\ s[k] \in 0..(b - 1)
  <2>1. Says(h, b, s, 0) /\ h[1] = n /\ \A k \in 1..Len(s) : s[k] \in 0..(b - 1)
    BY <1>1, <1>2, <1>3 DEF DigitsSay
  <2>2. Len(s) \in Nat /\ Len(s) <= 1
    BY <1>2
  <2>3. Len(s) \in 0..1
    BY <1>0, <2>2, Zenon
  <2>4. h[Len(s) + 1] = 0 /\ \A k \in 1..Len(s) : h[k] = (s[k] % b) + b * h[k + 1]
    BY <2>1 DEF Says
  <2> QED
    BY <2>1, <2>3, <2>4
<1>5. CASE Len(s) = 0
  BY <1>3, <1>4, <1>5, HalfIs
<1>6. CASE Len(s) = 1
  <2>1. h[1] = (s[1] % b) + b * h[2] /\ h[2] = 0 /\ s[1] \in 0..(b - 1)
    BY <1>4, <1>6
  <2>2. n < b
    BY <1>3, <1>4, <2>1
  <2> QED
    BY <1>3, <2>2, HalfIs
<1> QED
  BY <1>4, <1>5, <1>6

LEMMA BeginPyLongStep ==
  ASSUME NumbersInv, D!BeginPyLong
  PROVE  NumbersInv'
<1>1. /\ number_pc = "begin" /\ conversion = "pylong" /\ integer = 0 /\ output = <<>>
      /\ digits_left = 0 /\ ret = 0
      /\ UNCHANGED <<conversion, value, integer, output>>
  BY DEF D!BeginPyLong, NumbersInv, ReadingInv
<1>2. D!Magnitude \in Nat /\ value \in Int /\ D!Magnitude = SizeOf(value)
  BY MagnitudeIs
<1>3. PICK s \in Seq(Nat) : s = D!Digits[D!Magnitude]
  BY <1>2, DigitsAre
<1>4. D!Magnitude' = D!Magnitude
  BY <1>1 DEF D!Magnitude
<1>5. WritingInv'
  BY <1>1 DEF WritingInv
<1>6. D!TypeOK
  BY DEF NumbersInv
<1>7. CASE D!Compact /\ ret' = value /\ number_pc' = "done" /\ UNCHANGED digits_left
  <2>1. value \in D!MachineInt
    <3>1. D!Magnitude < Half
      BY <1>2, <1>7, OneDigit DEF D!Compact
    <3> QED
      BY <1>2, <3>1, HalfIs DEF SizeOf
  <2>2. D!TypeOK'
    BY <1>1, <1>6, <1>7, <2>1 DEF D!TypeOK
  <2>3. ReadingInv'
    BY <1>1, <1>7 DEF ReadingInv
  <2> QED
    BY <1>5, <2>2, <2>3 DEF NumbersInv
<1>8. CASE number_pc' = "error" /\ UNCHANGED <<digits_left, ret>>
  <2>1. D!TypeOK'
    BY <1>1, <1>6, <1>8 DEF D!TypeOK
  <2>2. ReadingInv'
    BY <1>1, <1>8 DEF ReadingInv
  <2> QED
    BY <1>5, <2>1, <2>2 DEF NumbersInv
<1>9. CASE /\ Len(s) <= MAX_DIGITS /\ number_pc' = "loop" /\ digits_left' = Len(s)
           /\ UNCHANGED ret
  <2>1. D!TypeOK'
    <3>1. Len(s) \in 0..MAX_DIGITS
      BY <1>9, NumbersAssumption
    <3> QED
      BY <1>1, <1>6, <1>9, <3>1 DEF D!TypeOK
  <2>2. PICK h : DigitsSay(h, D!Magnitude)
    BY <1>2, DigitsSayAll
  <2>3. h[Len(s) + 1] = 0
    BY <1>3, <2>2 DEF DigitsSay, Says
  <2>4. Congruent(ret', h[digits_left' + 1], D!Modulus)
    <3>1. PICK m \in Nat : m = D!Modulus
      BY HalfIs
    <3>2. 0 = 0 + m * 0
      OBVIOUS
    <3>3. Congruent(0, 0, m)
      BY <3>2 DEF Congruent
    <3> QED
      BY <1>1, <1>9, <2>3, <3>1, <3>3
  <2>5. DigitsSay(h, D!Magnitude')
    BY <1>4, <2>2
  <2>6. digits_left' <= Len(D!Digits[D!Magnitude'])
    BY <1>3, <1>4, <1>9
  <2>7. ReadingInv'
    <3>1. \E g : /\ DigitsSay(g, D!Magnitude')
                 /\ digits_left' <= Len(D!Digits[D!Magnitude'])
                 /\ Congruent(ret', g[digits_left' + 1], D!Modulus)
      BY <2>4, <2>5, <2>6
    <3> QED
      BY Zenon, <1>1, <1>9, <3>1 DEF ReadingInv, DigitsSay, Says, D!Digits, D!Base, D!Modulus
  <2> QED
    BY <1>5, <2>1, <2>7 DEF NumbersInv
<1>10. \/ D!Compact /\ ret' = value /\ number_pc' = "done" /\ UNCHANGED digits_left
       \/ /\ IF Len(s) > MAX_DIGITS THEN number_pc' = "error" /\ UNCHANGED digits_left
             ELSE number_pc' = "loop" /\ digits_left' = Len(s)
          /\ UNCHANGED ret
       \/ number_pc' = "error" /\ UNCHANGED <<digits_left, ret>>
  BY <1>3 DEF D!BeginPyLong
<1>11. CASE /\ IF Len(s) > MAX_DIGITS THEN number_pc' = "error" /\ UNCHANGED digits_left
              ELSE number_pc' = "loop" /\ digits_left' = Len(s)
            /\ UNCHANGED ret
  <2>1. Len(s) > MAX_DIGITS \/ Len(s) <= MAX_DIGITS
    <3>1. Len(s) \in Nat /\ MAX_DIGITS \in Nat
      BY NumbersAssumption
    <3> QED
      BY <3>1
  <2> QED
    BY <1>8, <1>9, <1>11, <2>1
<1> QED
  BY <1>7, <1>8, <1>10, <1>11

LEMMA CongruentStep ==
  ASSUME NEW m \in Nat, NEW b \in Nat, NEW x \in Int, NEW y \in Int, NEW z \in Int,
         NEW d \in Int, Congruent(x, y, m), Congruent(z, x * b, m)
  PROVE  Congruent(z + d, d + b * y, m)
<1>1. PICK s \in Int : x = y + m * s
  BY DEF Congruent
<1>2. PICK t \in Int : z = x * b + m * t
  BY DEF Congruent
<1>3. PICK u \in Int : u = s * b + t
  OBVIOUS
<1>4. x * b = b * y + m * (s * b)
  BY <1>1
<1>5. z + d = (d + b * y) + m * u
  BY <1>2, <1>3, <1>4
<1> QED
  BY <1>5 DEF Congruent

(* A word that is shifted has room for a digit. *)
LEMMA ShiftedIs ==
  ASSUME NEW x \in Int, NEW d \in 0..(D!Base - 1)
  PROVE  /\ D!Shifted(x) \in Int /\ D!Shifted(x) + d \in D!MachineInt
         /\ Congruent(D!Shifted(x), x * D!Base, D!Modulus)
<1>1. PICK b \in Nat : b = D!Base /\ b > 1
  BY HalfIs
<1>2. PICK n \in Nat \ {0} : Half = b * n
  BY <1>1, HalfDigits
<1>3. PICK y \in Int : y = x * b
  BY <1>1
<1>4. PICK z \in D!MachineInt : z = D!Shifted(x) /\ Congruent(z, y, D!Modulus)
  BY <1>1, <1>3, WrappedIs DEF D!Shifted
<1>5. /\ z \in (-Half)..(Half - 1) /\ Half \in Nat \ {0} /\ D!Modulus = 2 * Half
      /\ D!MachineInt = (-Half)..(Half - 1)
  BY <1>4, HalfIs
<1>6. PICK t \in Int : z = y + (2 * (b * n)) * t
  BY <1>2, <1>4, <1>5 DEF Congruent
<1>7. PICK w \in Int : w = x + 2 * (n * t)
  OBVIOUS
<1>8. z = b * w
  BY <1>3, <1>6, <1>7
<1>9. w < n
  <2> SUFFICES ASSUME w >= n PROVE FALSE
    BY <1>7
  <2>1. b * w >= b * n
    BY <1>7
  <2> QED
    BY <1>2, <1>5, <1>8, <2>1
<1>10. b * w <= b * n - b
  <2>1. w <= n - 1
    BY <1>9
  <2>2. b * w <= b * (n - 1)
    BY <2>1
  <2> QED
    BY <2>2
<1>11. z + d \in (-Half)..(Half - 1)
  BY <1>1, <1>2, <1>5, <1>8, <1>10
<1> QED
  BY <1>1, <1>3, <1>4, <1>5, <1>11

-----------------------------------------------------------------------------
LEMMA TakeDigitStep ==
  ASSUME NumbersInv, D!TakeDigit
  PROVE  NumbersInv'
<1>1. /\ number_pc = "loop" /\ conversion = "pylong" /\ digits_left > 0
      /\ integer = 0 /\ output = <<>>
      /\ ret' = D!Shifted(ret) + D!Digits[D!Magnitude][digits_left]
      /\ digits_left' = digits_left - 1
      /\ UNCHANGED <<conversion, value, number_pc, integer, output>>
  BY DEF D!TakeDigit, NumbersInv, ReadingInv
<1>2. PICK h : /\ DigitsSay(h, D!Magnitude)
               /\ digits_left <= Len(D!Digits[D!Magnitude])
               /\ Congruent(ret, h[digits_left + 1], D!Modulus)
  BY <1>1 DEF NumbersInv, ReadingInv
<1>3. D!Magnitude \in Nat /\ D!Magnitude' = D!Magnitude
  BY <1>1, MagnitudeIs DEF D!Magnitude
<1>4. PICK s \in Seq(Nat) : s = D!Digits[D!Magnitude]
  BY <1>3, DigitsAre
<1>5. digits_left \in 0..MAX_DIGITS /\ ret \in D!MachineInt /\ D!TypeOK
  BY DEF NumbersInv, D!TypeOK
<1>6. PICK b \in Nat, m \in Nat : b = D!Base /\ b > 1 /\ m = D!Modulus
  BY HalfIs
<1>7. PICK k \in Nat : k = digits_left /\ k > 0 /\ k <= MAX_DIGITS
  BY <1>1, <1>5, NumbersAssumption
<1>8. k \in 1..Len(s) /\ k - 1 <= Len(s) /\ (k - 1) + 1 = k
  <2>1. k <= Len(s) /\ Len(s) \in Nat
    BY <1>2, <1>4, <1>7
  <2> QED
    BY <1>7, <2>1
<1>9. Says(h, b, s, 0) /\ s[k] \in 0..(b - 1)
  <2>1. Says(h, b, s, 0)
    BY <1>2, <1>4, <1>6, Zenon DEF DigitsSay
  <2>2. s[k] \in 0..(D!Base - 1)
    BY <1>2, <1>4, <1>8, Zenon DEF DigitsSay
  <2>3. D!Base = b
    BY <1>6
  <2> QED
    BY <2>1, <2>2, <2>3, Zenon
<1>10. h[k] = (s[k] % b) + b * h[k + 1] /\ h[k + 1] \in Nat
  <2>1. PICK len \in Nat : len = Len(s)
    OBVIOUS
  <2>2. h \in [1..(len + 1) -> Nat] /\ \A j \in 1..len : h[j] = (s[j] % b) + b * h[j + 1]
    BY <1>9, <2>1 DEF Says
  <2>3. k \in 1..len /\ k + 1 \in 1..(len + 1)
    BY <1>8, <2>1
  <2> QED
    BY <2>2, <2>3
<1>11. PICK d \in 0..(b - 1), y \in Nat : d = s[k] /\ y = h[k + 1]
  BY <1>9, <1>10
<1>12. h[k] = d + b * y
  <2>1. d % b = d
    BY <1>6
  <2> QED
    BY <1>10, <1>11, <2>1
<1>13. PICK x \in Int : x = ret /\ Congruent(x, y, m)
  <2>1. ret \in Int
    BY <1>5, HalfIs
  <2> QED
    BY <1>2, <1>6, <1>7, <1>11, <2>1
<1>14. PICK z \in Int : z = D!Shifted(x) /\ Congruent(z, x * b, m) /\ z + d \in D!MachineInt
  BY <1>6, ShiftedIs
<1>15. ret' = z + d
  BY <1>1, <1>4, <1>7, <1>11, <1>13, <1>14
<1>16. Congruent(z + d, d + b * y, m)
  <2>1. d \in Int /\ y \in Int
    OBVIOUS
  <2> QED
    BY <1>13, <1>14, <2>1, CongruentStep
<1>17. D!TypeOK'
  <2>1. digits_left' \in 0..MAX_DIGITS
    BY <1>1, <1>7, NumbersAssumption
  <2>2. ret' \in D!MachineInt
    BY <1>14, <1>15
  <2> QED
    BY <1>1, <1>5, <2>1, <2>2 DEF D!TypeOK, D!MachineInt, D!Modulus
<1>18. WritingInv'
  BY SMTT(30), <1>1 DEF WritingInv
<1>19. ReadingInv'
  <2>1. digits_left' = k - 1 /\ digits_left' + 1 = k
    BY <1>1, <1>7, <1>8
  <2>2. Congruent(ret', h[digits_left' + 1], D!Modulus)
    BY <1>6, <1>12, <1>15, <1>16, <2>1
  <2>3. digits_left' <= Len(D!Digits[D!Magnitude'])
    BY <1>3, <1>4, <1>8, <2>1
  <2>4. DigitsSay(h, D!Magnitude')
    BY <1>2, <1>3
  <2>5. \E g : /\ DigitsSay(g, D!Magnitude')
               /\ digits_left' <= Len(D!Digits[D!Magnitude'])
               /\ Congruent(ret', g[digits_left' + 1], D!Modulus)
    BY <2>2, <2>3, <2>4
  <2> QED
    BY Zenon, <1>1, <2>5 DEF ReadingInv, DigitsSay, Says, D!Digits, D!Base, D!Modulus
<1> QED
  BY <1>17, <1>18, <1>19 DEF NumbersInv

LEMMA TakeSignStep ==
  ASSUME NumbersInv, D!TakeSign
  PROVE  NumbersInv'
<1>1. /\ number_pc = "loop" /\ conversion = "pylong" /\ digits_left = 0
      /\ integer = 0 /\ output = <<>> /\ number_pc' = "done"
      /\ ret' = IF value < 0 THEN D!Wrapped(-ret) ELSE ret
      /\ UNCHANGED <<conversion, value, integer, output, digits_left>>
  BY DEF D!TakeSign, NumbersInv, ReadingInv
<1>2. PICK h : DigitsSay(h, D!Magnitude) /\ Congruent(ret, h[digits_left + 1], D!Modulus)
  BY <1>1 DEF NumbersInv, ReadingInv
<1>3. ret \in D!MachineInt /\ D!TypeOK /\ value \in Int /\ ret \in Int
  BY HalfIs DEF NumbersInv, D!TypeOK
<1>4. PICK n \in Nat, m \in Nat, x \in Int :
        n = D!Magnitude /\ n = SizeOf(value) /\ m = D!Modulus /\ x = ret
  BY <1>3, MagnitudeIs, HalfIs
<1>5. Congruent(x, n, m)
  <2>1. h[digits_left + 1] = n
    BY <1>1, <1>2, <1>4 DEF DigitsSay
  <2> QED
    BY <1>2, <1>4, <2>1
<1>6. ret' \in D!MachineInt /\ ret' \in Int /\ Congruent(ret', value, m)
  <2>1. CASE value < 0
    <3>1. PICK w \in Int : w = -x
      OBVIOUS
    <3>2. ret' = D!Wrapped(w)
      <4>1. -ret = w
        BY <1>4, <3>1
      <4>2. ret' = D!Wrapped(-ret)
        BY <1>1, <2>1
      <4> QED
        BY <4>1, <4>2, Zenon
    <3>3. PICK z \in D!MachineInt : z = D!Wrapped(w) /\ Congruent(z, w, m) /\ z \in Int
      <4>1. D!MachineInt \subseteq Int
        BY HalfIs
      <4>2. D!Wrapped(w) \in D!MachineInt /\ Congruent(D!Wrapped(w), w, D!Modulus)
        BY WrappedIs
      <4> QED
        BY <1>4, <4>1, <4>2
    <3>4. Congruent(w, value, m)
      <4>1. PICK t \in Int : x = n + m * t
        BY <1>5 DEF Congruent
      <4>2. value = -n
        BY <1>3, <1>4, <2>1 DEF SizeOf
      <4>3. w = value + m * (-t) /\ -t \in Int
        BY <3>1, <4>1, <4>2
      <4> QED
        BY <4>3 DEF Congruent
    <3>5. Congruent(z, value, m)
      BY <1>3, <3>3, <3>4, CongruentTrans
    <3> QED
      BY <3>2, <3>3, <3>5
  <2>2. CASE ~(value < 0)
    <3>1. value = n /\ ret' = x
      BY <1>1, <1>3, <1>4, <2>2 DEF SizeOf
    <3> QED
      BY <1>3, <1>4, <1>5, <3>1
  <2> QED
    BY <2>1, <2>2
<1>7. value \in D!MachineInt => ret' = value
  <2> SUFFICES ASSUME value \in D!MachineInt PROVE ret' = value
    OBVIOUS
  <2>1. PICK a \in D!MachineInt, c \in D!MachineInt : a = ret' /\ c = value
    BY <1>6
  <2>2. Congruent(a, c, D!Modulus)
    BY <1>4, <1>6, <2>1
  <2> QED
    BY <2>1, <2>2, SameWord
<1>8. D!TypeOK'
  BY <1>1, <1>3, <1>6 DEF D!TypeOK, D!MachineInt, D!Modulus
<1>9. WritingInv'
  BY <1>1 DEF WritingInv
<1>10. ReadingInv'
  <2>1. D!MachineInt' = D!MachineInt
    BY DEF D!MachineInt, D!Modulus
  <2> QED
    BY <1>1, <1>7, <2>1 DEF ReadingInv
<1> QED
  BY <1>8, <1>9, <1>10 DEF NumbersInv

LEMMA NumbersStep ==
  ASSUME NumbersInv, [D!Next]_number_vars
  PROVE  NumbersInv'
<1>1. CASE D!Next
  BY <1>1, BeginIntegerStep, PutByteStep, BeginPyLongStep, TakeDigitStep, TakeSignStep
  DEF D!Next
<1>2. CASE UNCHANGED number_vars
  BY Zenon, <1>2 DEF number_vars, NumbersInv, D!TypeOK, WritingInv, ReadingInv, Written, D!Signed,
              D!MachineInt, D!Modulus, D!Magnitude, DigitsSay, Says, D!Digits, D!Base
<1> QED
  BY <1>1, <1>2

-----------------------------------------------------------------------------
(* What a reader makes of the bytes. *)

LEMMA ReadIs ==
  ASSUME NEW s, NEW n \in Int, BytesSay(s, 0, n)
  PROVE  D!Read(s) = n
<1>1. PICK high : high = Positions(128, Tail(s), 0)
  OBVIOUS
<1>2. D!FoldRight(LAMBDA byte, v : (byte % 128) + 128 * v, Tail(s), 0) = high
  BY <1>1 DEF Positions, FoldRight, MapThenFoldSet, Min, D!FoldRight, D!MapThenFoldSet, D!Min
<1>3. Head(s) = s[1]
  BY DEF BytesSay
<1>4. (s[1] % 64) + 64 * high = SizeOf(n) /\ ((s[1] \div 64) % 2 = 1 <=> n < 0)
  BY <1>1 DEF BytesSay
<1>5. D!Read(s) = IF (s[1] \div 64) % 2 = 1 THEN -SizeOf(n) ELSE SizeOf(n)
  BY <1>2, <1>3, <1>4 DEF D!Read
<1> QED
  BY <1>4, <1>5 DEF SizeOf

LEMMA NumbersSafe ==
  ASSUME NumbersInv
  PROVE  D!NumbersKept
<1> SUFFICES ASSUME number_pc = "done"
             PROVE  IF conversion = "pylong" THEN value \in D!MachineInt => ret = value
                    ELSE /\ D!Delimited(output)
                         /\ (D!Read(output) - value) % D!Modulus = 0
                         /\ conversion = "integer" => D!Read(output) = value
  BY DEF D!NumbersKept
<1>1. CASE conversion = "pylong"
  BY <1>1 DEF NumbersInv, ReadingInv
<1>2. CASE conversion # "pylong"
  <2>1. /\ Written \in D!MachineInt /\ BytesSay(output, 0, Written) /\ Marked(output, 0)
        /\ conversion = "ref" => value \in 0..(D!Modulus - 1)
    BY <1>2 DEF NumbersInv, WritingInv
  <2>2. PICK s, n : s = output /\ n = Written
    OBVIOUS
  <2>3. D!Read(s) = n /\ n \in Int
    BY <2>1, <2>2, ReadIs, HalfIs
  <2>4. D!Delimited(output)
    <3>1. s # <<>> /\ s \in Seq(0..255)
      BY <2>1, <2>2 DEF BytesSay
    <3>2. PICK m \in Nat \ {0} : m = Len(s)
      BY <3>1
    <3>3. \A k \in 1..m : s[k] \in 0..255
      BY <3>1, <3>2
    <3>4. ~(s[m] >= 128) /\ \A k \in 1..(m - 1) : s[k] >= 128
      BY <2>1, <2>2, <3>2 DEF Marked
    <3>5. DOMAIN s = 1..m
      BY <3>1, <3>2
    <3>6. \A k \in 1..m : s[k] >= 128 <=> k < m
      <4> TAKE k \in 1..m
      <4>1. CASE k = m
        BY <3>4, <4>1
      <4>2. CASE k # m
        <5>1. k \in 1..(m - 1) /\ k < m
          BY <4>2
        <5> QED
          BY <3>4, <5>1
      <4> QED
        BY <4>1, <4>2
    <3> QED
      BY <2>2, <3>2, <3>5, <3>6 DEF D!Delimited
  <2>5. CASE conversion = "ref"
    <3>1. Congruent(n, value, D!Modulus) /\ value \in Int /\ D!Modulus \in Nat
          /\ D!Modulus > 0
      BY <2>1, <2>2, <2>5, SignedIs, HalfIs DEF Written
    <3>2. (n - value) % D!Modulus = 0
      BY <2>3, <3>1, Congruence
    <3> QED
      BY <1>2, <2>2, <2>3, <2>4, <2>5, <3>2
  <2>6. CASE conversion # "ref"
    <3>1. n = value
      BY <2>2, <2>6 DEF Written
    <3>2. PICK m \in Nat : m = D!Modulus /\ m > 0
      BY HalfIs
    <3>3. (n - n) % m = 0
      <4>1. n - n = 0 /\ 0 % m = 0
        BY <2>3, <3>2
      <4> QED
        BY <4>1
    <3> QED
      BY <1>2, <2>2, <2>3, <2>4, <3>1, <3>2, <3>3
  <2> QED
    BY <2>5, <2>6
<1> QED
  BY <1>1, <1>2

(* MojoRenderer::integer and ref (render.h:176-203) write every number so  *)
(* that its reader finds the same number, or the same word, and where it   *)
(* ends; pylong_to_llong (long.h:27-70) reads every Python integer that    *)
(* fits in a word as it is.                                                *)
THEOREM MCSpecNumbers == MCSpec => [](D!TypeOK /\ D!NumbersKept)
<1>1. MCInit => NumbersInv
  BY NumbersStart DEF MCInit
<1>2. NumbersInv /\ [MCNext]_<<part, vars, chunk_vars, native_vars, line_vars, number_vars>>
        => NumbersInv'
  <2> SUFFICES ASSUME NumbersInv,
                      [MCNext]_<<part, vars, chunk_vars, native_vars, line_vars, number_vars>>
               PROVE  NumbersInv'
    OBVIOUS
  <2>1. [D!Next]_number_vars
    BY DEF MCNext, Others
  <2> QED
    BY <2>1, NumbersStep
<1>3. NumbersInv => D!TypeOK /\ D!NumbersKept
  BY NumbersSafe DEF NumbersInv
<1> QED
  BY <1>1, <1>2, <1>3, PTL DEF MCSpec

-----------------------------------------------------------------------------
(* Lines and numbers are those that were encoded, by the compiler          *)
(* (frame.cc:127-258) and in a Python integer (long.h:27-70), and a reader *)
(* of the stream finds the numbers that were written (render.h:176-203).   *)
THEOREM MCSpecDecoded == MCSpec => []DecodedRight
<1>1. L!LinesRight /\ D!NumbersKept => DecodedRight
  BY DEF DecodedRight
<1> QED
  BY <1>1, MCSpecLines, MCSpecNumbers, PTL
=============================================================================
