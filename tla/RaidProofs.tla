----------------------------- MODULE RaidProofs -----------------------------
(***************************************************************************)
(* Theorems about the reconstruction of a RAID array, for every array of   *)
(* whole rows and every loss its level bears: the arithmetic of the second *)
(* parity, the layouts, the reading of a row with members lost, and the    *)
(* whole build.                                                            *)
(***************************************************************************)
EXTENDS SourceReaders, ListLemmas, SequenceTheorems

-------------------------------------------------------------------------------
(* The exclusive-or.                                                       *)

\* What holds of it on the numbers below a power of two, m being the last of them.
XorOn(m) ==
  /\ \A a, b \in 0..m : ByteXor(a, b) \in 0..m
  /\ \A a, b \in 0..m : ByteXor(a, b) = ByteXor(b, a)
  /\ \A a, b, c \in 0..m : ByteXor(ByteXor(a, b), c) = ByteXor(a, ByteXor(b, c))
  /\ \A a \in 0..m : ByteXor(a, a) = 0 /\ ByteXor(0, a) = a

\* Its equation, read as one about the halves and the last bits.
LEMMA XorHalves ==
    ASSUME IsExclusiveOr, NEW m \in 0..255, XorOn(m), NEW a \in 0..(2 * m + 1), NEW b \in 0..(2 * m + 1)
    PROVE  /\ a \div 2 \in 0..m /\ b \div 2 \in 0..m /\ a % 2 \in 0..1 /\ b % 2 \in 0..1
           /\ ByteXor(a, b) = 2 * ByteXor(a \div 2, b \div 2) + ((a + b) % 2)
           /\ ByteXor(a, b) \in 0..(2 * m + 1)
           /\ ByteXor(a, b) \div 2 = ByteXor(a \div 2, b \div 2)
           /\ ByteXor(a, b) % 2 = (a + b) % 2
<1>1. a \div 2 \in 0..m /\ b \div 2 \in 0..m /\ a \in 0..511 /\ b \in 0..511
  OBVIOUS
<1>2. ByteXor(a, b) = 2 * ByteXor(a \div 2, b \div 2) + ((a + b) % 2)
  <2>1. CASE a = 0 /\ b = 0
    <3>1. a \div 2 = 0 /\ b \div 2 = 0 /\ (a + b) % 2 = 0 /\ 0 \in 0..m
      BY <2>1
    <3>2. ByteXor(0, 0) = 0
      BY <3>1 DEF XorOn
    <3> QED
      BY <2>1, <3>1, <3>2
  <2>2. CASE ~(a = 0 /\ b = 0)
    BY <1>1, <2>2 DEF IsExclusiveOr
  <2> QED
    BY <2>1, <2>2
<1> DEFINE h == ByteXor(a \div 2, b \div 2)
<1>3. h \in 0..m
  BY <1>1 DEF XorOn
<1> HIDE DEF h
<1>4. ByteXor(a, b) = 2 * h + ((a + b) % 2)
  BY <1>2 DEF h
<1>5. ByteXor(a, b) \in 0..(2 * m + 1) /\ ByteXor(a, b) \div 2 = h /\ ByteXor(a, b) % 2 = (a + b) % 2
  <2> DEFINE r == (a + b) % 2
  <2>1. r \in 0..1
    OBVIOUS
  <2> HIDE DEF r
  <2>2. 2 * h + r \in 0..(2 * m + 1) /\ (2 * h + r) \div 2 = h /\ (2 * h + r) % 2 = r
    BY <1>3, <2>1
  <2> QED
    BY <1>4, <2>2 DEF r
<1>6. a % 2 \in 0..1 /\ b % 2 \in 0..1
  OBVIOUS
<1> QED
  BY <1>1, <1>2, <1>5, <1>6 DEF h

\* Numbers are told apart by their halves and their last bits.
LEMMA SameHalves ==
    ASSUME NEW a \in Nat, NEW b \in Nat, a \div 2 = b \div 2, a % 2 = b % 2
    PROVE  a = b
OBVIOUS

\* One bit more.
LEMMA XorDoubles ==
    ASSUME IsExclusiveOr, NEW m \in 0..255, XorOn(m)
    PROVE  XorOn(2 * m + 1)
<1> DEFINE N == 0..(2 * m + 1)
<1>1. \A a, b \in N : ByteXor(a, b) \in N
  BY XorHalves
<1>2. \A a, b \in N : ByteXor(a, b) = ByteXor(b, a)
  <2> SUFFICES ASSUME NEW a \in N, NEW b \in N PROVE ByteXor(a, b) = ByteXor(b, a)
    OBVIOUS
  <2>1. a \div 2 \in 0..m /\ b \div 2 \in 0..m /\ a + b = b + a
    OBVIOUS
  <2>2. ByteXor(a \div 2, b \div 2) = ByteXor(b \div 2, a \div 2)
    BY <2>1 DEF XorOn
  <2>3. /\ ByteXor(a, b) = 2 * ByteXor(a \div 2, b \div 2) + ((a + b) % 2)
        /\ ByteXor(b, a) = 2 * ByteXor(b \div 2, a \div 2) + ((b + a) % 2)
    BY XorHalves
  <2> QED
    BY <2>1, <2>2, <2>3
<1>3. \A a, b, c \in N : ByteXor(ByteXor(a, b), c) = ByteXor(a, ByteXor(b, c))
  <2> SUFFICES ASSUME NEW a \in N, NEW b \in N, NEW c \in N
               PROVE  ByteXor(ByteXor(a, b), c) = ByteXor(a, ByteXor(b, c))
    OBVIOUS
  <2> DEFINE ab == ByteXor(a, b)
             bc == ByteXor(b, c)
             l == ByteXor(ab, c)
             r == ByteXor(a, bc)
  <2>1. ab \in N /\ bc \in N
    BY <1>1
  <2>2. ab \div 2 = ByteXor(a \div 2, b \div 2) /\ ab % 2 = (a + b) % 2
    BY XorHalves
  <2>3. bc \div 2 = ByteXor(b \div 2, c \div 2) /\ bc % 2 = (b + c) % 2
    BY XorHalves
  <2> HIDE DEF ab, bc
  <2>4. l \in N /\ l \div 2 = ByteXor(ab \div 2, c \div 2) /\ l % 2 = (ab + c) % 2
    BY <2>1, XorHalves
  <2>5. r \in N /\ r \div 2 = ByteXor(a \div 2, bc \div 2) /\ r % 2 = (a + bc) % 2
    BY <2>1, XorHalves
  <2> HIDE DEF l, r
  <2>6. l \div 2 = r \div 2
    <3>1. a \div 2 \in 0..m /\ b \div 2 \in 0..m /\ c \div 2 \in 0..m
      OBVIOUS
    <3> QED
      BY <2>2, <2>3, <2>4, <2>5, <3>1 DEF XorOn
  <2>7. l % 2 = r % 2
    BY <2>1, <2>2, <2>3, <2>4, <2>5
  <2>8. l = r
    BY <2>4, <2>5, <2>6, <2>7, SameHalves
  <2> QED
    BY <2>8 DEF l, r, ab, bc
<1>4. \A a \in N : ByteXor(a, a) = 0 /\ ByteXor(0, a) = a
  <2> SUFFICES ASSUME NEW a \in N PROVE ByteXor(a, a) = 0 /\ ByteXor(0, a) = a
    OBVIOUS
  <2>1. a \div 2 \in 0..m /\ 0 \div 2 = 0 /\ 0 \in N /\ 0 \in 0..m
    OBVIOUS
  <2>2. ByteXor(a \div 2, a \div 2) = 0 /\ ByteXor(0, a \div 2) = a \div 2
    BY <2>1 DEF XorOn
  <2>3. ByteXor(a, a) = 2 * ByteXor(a \div 2, a \div 2) + ((a + a) % 2)
    BY XorHalves
  <2>4. ByteXor(0, a) = 2 * ByteXor(0 \div 2, a \div 2) + ((0 + a) % 2)
    BY <2>1, XorHalves
  <2> QED
    BY <2>1, <2>2, <2>3, <2>4
<1> QED
  BY <1>1, <1>2, <1>3, <1>4 DEF XorOn

\* The laws of bytes, and of the words of nine bits that doubling makes of them.
LEMMA XorLaws ==
    ASSUME IsExclusiveOr
    PROVE  XorOn(0) /\ XorOn(1) /\ XorOn(3) /\ XorOn(7) /\ XorOn(15) /\ XorOn(31) /\ XorOn(63)
           /\ XorOn(127) /\ XorOn(255) /\ XorOn(511)
<1>1. XorOn(0)
  <2>1. 0 \in 0..511 /\ \A a \in 0..0 : a = 0
    OBVIOUS
  <2>2. ByteXor(0, 0) = 0
    BY <2>1 DEF IsExclusiveOr
  <2> QED
    BY <2>1, <2>2 DEF XorOn
<1>2. \A m \in 0..255 : XorOn(m) => XorOn(2 * m + 1)
  BY XorDoubles
<1>3. /\ 2 * 0 + 1 = 1 /\ 2 * 1 + 1 = 3 /\ 2 * 3 + 1 = 7 /\ 2 * 7 + 1 = 15 /\ 2 * 15 + 1 = 31
      /\ 2 * 31 + 1 = 63 /\ 2 * 63 + 1 = 127 /\ 2 * 127 + 1 = 255 /\ 2 * 255 + 1 = 511
      /\ 0 \in 0..255 /\ 1 \in 0..255 /\ 3 \in 0..255 /\ 7 \in 0..255 /\ 15 \in 0..255
      /\ 31 \in 0..255 /\ 63 \in 0..255 /\ 127 \in 0..255 /\ 255 \in 0..255
  OBVIOUS
<1>4. XorOn(1) /\ XorOn(3) /\ XorOn(7)
  BY <1>1, <1>2, <1>3
<1>5. XorOn(15) /\ XorOn(31) /\ XorOn(63)
  BY <1>2, <1>3, <1>4
<1>6. XorOn(127) /\ XorOn(255) /\ XorOn(511)
  BY <1>2, <1>3, <1>5
<1> QED
  BY <1>1, <1>4, <1>5, <1>6

\* A power of two is put on top of a number below it.
LEMMA TopBit ==
    ASSUME IsExclusiveOr
    PROVE  /\ \A u \in 0..127 : ByteXor(128, u) = 128 + u
           /\ \A u \in 0..255 : ByteXor(256, u) = 256 + u
<1> DEFINE Top(m) == \A u \in 0..(m - 1) : ByteXor(m, u) = m + u
<1>1. ASSUME NEW m \in 1..255, NEW k \in 0..255, XorOn(k), m <= k, Top(m) PROVE Top(2 * m)
  <2> SUFFICES ASSUME NEW u \in 0..(2 * m - 1) PROVE ByteXor(2 * m, u) = 2 * m + u
    OBVIOUS
  <2>1. u \div 2 \in 0..(m - 1) /\ (2 * m) \div 2 = m /\ (2 * m + u) % 2 = u % 2
        /\ 2 * m \in 0..(2 * k + 1) /\ u \in 0..(2 * k + 1) /\ u = 2 * (u \div 2) + (u % 2)
    BY <1>1
  <2>2. ByteXor(2 * m, u) = 2 * ByteXor((2 * m) \div 2, u \div 2) + ((2 * m + u) % 2)
    BY <1>1, <2>1, XorHalves
  <2>3. ByteXor(m, u \div 2) = m + (u \div 2)
    BY <1>1, <2>1
  <2> QED
    BY <2>1, <2>2, <2>3
<1>2. Top(1)
  <2>1. 0 \in 0..1 /\ 1 \in 0..1 /\ \A u \in 0..(1 - 1) : u = 0
    OBVIOUS
  <2>2. XorOn(1)
    BY XorLaws
  <2>3. ByteXor(1, 0) = ByteXor(0, 1) /\ ByteXor(0, 1) = 1
    BY <2>1, <2>2 DEF XorOn
  <2> QED
    BY <2>1, <2>3
<1> HIDE DEF Top
<1>3. /\ 2 * 1 = 2 /\ 2 * 2 = 4 /\ 2 * 4 = 8 /\ 2 * 8 = 16 /\ 2 * 16 = 32 /\ 2 * 32 = 64
      /\ 2 * 64 = 128 /\ 2 * 128 = 256 /\ 255 \in 0..255 /\ XorOn(255)
      /\ \A m \in 1..255 : m <= 255
      /\ 1 \in 1..255 /\ 2 \in 1..255 /\ 4 \in 1..255 /\ 8 \in 1..255 /\ 16 \in 1..255
      /\ 32 \in 1..255 /\ 64 \in 1..255 /\ 128 \in 1..255
  BY XorLaws
<1>4. \A m \in 1..255 : Top(m) => Top(2 * m)
  BY <1>1, <1>3
<1>5. Top(2) /\ Top(4) /\ Top(8) /\ Top(16)
  BY <1>2, <1>3, <1>4
<1>6. Top(32) /\ Top(64) /\ Top(128) /\ Top(256)
  BY <1>3, <1>4, <1>5
<1> QED
  BY <1>6 DEF Top

-------------------------------------------------------------------------------
(* Doubling: linear, and without loss.                                     *)

\* The laws of bytes, as the later proofs use them.
LEMMA ByteLaws ==
    ASSUME IsExclusiveOr
    PROVE  /\ \A a, b \in Byte : ByteXor(a, b) \in Byte
           /\ \A a, b \in Byte : ByteXor(a, b) = ByteXor(b, a)
           /\ \A a, b, c \in Byte : ByteXor(ByteXor(a, b), c) = ByteXor(a, ByteXor(b, c))
           /\ \A a \in Byte : ByteXor(a, a) = 0 /\ ByteXor(0, a) = a /\ ByteXor(a, 0) = a
           /\ 0 \in Byte
<1>1. XorOn(255)
  BY XorLaws
<1>2. 0 \in 0..255
  OBVIOUS
<1>3. /\ \A a, b \in 0..255 : ByteXor(a, b) \in 0..255 /\ ByteXor(a, b) = ByteXor(b, a)
      /\ \A a, b, c \in 0..255 : ByteXor(ByteXor(a, b), c) = ByteXor(a, ByteXor(b, c))
      /\ \A a \in 0..255 : ByteXor(a, a) = 0 /\ ByteXor(0, a) = a
  BY <1>1, ZenonT(60) DEF XorOn
<1> QED
  BY <1>2, <1>3, ZenonT(60) DEF Byte

\* What was added twice is gone, and equal sums have equal parts.
LEMMA XorCancels ==
    ASSUME IsExclusiveOr
    PROVE  /\ \A a, b \in Byte : ByteXor(a, ByteXor(a, b)) = b
           /\ \A a, b \in Byte : ByteXor(a, b) = 0 => a = b
           /\ \A a, b, c, d \in Byte :
                ByteXor(ByteXor(a, b), ByteXor(c, d)) = ByteXor(ByteXor(a, c), ByteXor(b, d))
<1>1. /\ \A a, b \in Byte : ByteXor(a, b) \in Byte /\ ByteXor(a, b) = ByteXor(b, a)
      /\ \A a, b, c \in Byte : ByteXor(ByteXor(a, b), c) = ByteXor(a, ByteXor(b, c))
      /\ \A a \in Byte : ByteXor(a, a) = 0 /\ ByteXor(0, a) = a /\ ByteXor(a, 0) = a
  BY ByteLaws
<1>2. \A a, b \in Byte : ByteXor(a, ByteXor(a, b)) = b
  <2> SUFFICES ASSUME NEW a \in Byte, NEW b \in Byte PROVE ByteXor(a, ByteXor(a, b)) = b
    OBVIOUS
  <2>1. ByteXor(a, ByteXor(a, b)) = ByteXor(ByteXor(a, a), b)
    BY <1>1
  <2> QED
    BY <1>1, <2>1
<1>3. \A a, b \in Byte : ByteXor(a, b) = 0 => a = b
  BY <1>1, <1>2
<1>4. ASSUME NEW a \in Byte, NEW b \in Byte, NEW c \in Byte, NEW d \in Byte
      PROVE  ByteXor(ByteXor(a, b), ByteXor(c, d)) = ByteXor(ByteXor(a, c), ByteXor(b, d))
  <2>1. ByteXor(ByteXor(a, b), ByteXor(c, d)) = ByteXor(a, ByteXor(b, ByteXor(c, d)))
    BY <1>1
  <2>2. ByteXor(b, ByteXor(c, d)) = ByteXor(ByteXor(c, b), d)
    BY <1>1
  <2>3. ByteXor(ByteXor(c, b), d) = ByteXor(c, ByteXor(b, d))
    BY <1>1
  <2>4. ByteXor(a, ByteXor(c, ByteXor(b, d))) = ByteXor(ByteXor(a, c), ByteXor(b, d))
    BY <1>1
  <2> QED
    BY <2>1, <2>2, <2>3, <2>4
<1> QED
  BY <1>2, <1>3, <1>4

\* Doubling a byte whose top bit is set takes 29 from twice the rest.
LEMMA DoubledIs ==
    ASSUME IsExclusiveOr
    PROVE  /\ \A u \in 0..127 : Doubled(u) = 2 * u /\ Doubled(u) \in Byte
           /\ \A u \in 0..127 : /\ 128 + u \in Byte /\ 2 * u \in Byte /\ 29 \in Byte
                                /\ Doubled(128 + u) = ByteXor(2 * u, 29)
                                /\ Doubled(128 + u) \in Byte
           /\ \A b \in Byte : b \in 0..127 \/ \E u \in 0..127 : b = 128 + u
<1>1. \A u \in 0..127 : Doubled(u) = 2 * u /\ Doubled(u) \in Byte
  BY DEF Doubled, Byte
<1>2. ASSUME NEW u \in 0..127
      PROVE  /\ 128 + u \in Byte /\ 2 * u \in Byte /\ 29 \in Byte
             /\ Doubled(128 + u) = ByteXor(2 * u, 29)
             /\ Doubled(128 + u) \in Byte
  <2>1. /\ 2 * u \in 0..255 /\ 29 \in 0..255 /\ 2 * (128 + u) = 256 + 2 * u /\ 256 + 29 = 285
        /\ 2 * (128 + u) >= 256 /\ 128 + u \in 0..255
    OBVIOUS
  <2>2. Doubled(128 + u) = ByteXor(256 + 2 * u, 256 + 29)
    BY <2>1 DEF Doubled
  <2> DEFINE v == 2 * u
             N == 0..511
  <2>3. v \in N /\ v \in 0..255 /\ 29 \in N /\ 256 \in N /\ 0 \in N
    BY <2>1
  <2> HIDE DEF v, N
  <2>4. ByteXor(256, v) = 256 + v /\ ByteXor(256, 29) = 256 + 29
    BY <2>1, <2>3, TopBit
  <2>5. /\ \A a, b \in N : ByteXor(a, b) \in N
        /\ \A a, b \in N : ByteXor(a, b) = ByteXor(b, a)
        /\ \A a, b, c \in N : ByteXor(ByteXor(a, b), c) = ByteXor(a, ByteXor(b, c))
        /\ \A a \in N : ByteXor(a, a) = 0 /\ ByteXor(0, a) = a
    <3>1. XorOn(511)
      BY XorLaws
    <3> QED
      BY <3>1 DEF XorOn, N
  <2>6. ByteXor(ByteXor(256, v), ByteXor(256, 29)) = ByteXor(v, 29)
    <3> DEFINE w == ByteXor(256, 29)
    <3>0. w \in N
      BY <2>3, <2>5
    <3>1. ByteXor(ByteXor(256, v), w) = ByteXor(ByteXor(v, 256), w)
      BY <2>3, <2>5
    <3>2. ByteXor(ByteXor(v, 256), w) = ByteXor(v, ByteXor(256, w))
      <4> HIDE DEF w
      <4> QED
        BY <2>3, <2>5, <3>0
    <3>3. ByteXor(256, w) = ByteXor(ByteXor(256, 256), 29)
      BY <2>3, <2>5
    <3>4. ByteXor(256, 256) = 0 /\ ByteXor(0, 29) = 29
      BY <2>3, <2>5
    <3> QED
      BY <3>1, <3>2, <3>3, <3>4
  <2>7. Doubled(128 + u) = ByteXor(v, 29)
    BY <2>2, <2>4, <2>6 DEF v
  <2>8. v \in Byte /\ 29 \in Byte /\ ByteXor(v, 29) \in Byte
    <3>1. v \in Byte /\ 29 \in Byte
      BY <2>1 DEF Byte, v
    <3> QED
      BY <3>1, ByteLaws
  <2> QED
    BY <2>1, <2>7, <2>8 DEF Byte, v
<1>3. ASSUME NEW b \in Byte PROVE b \in 0..127 \/ \E u \in 0..127 : b = 128 + u
  <2>1. b \in 0..127 \/ (b - 128 \in 0..127 /\ b = 128 + (b - 128))
    BY DEF Byte
  <2> QED
    BY <2>1
<1> QED
  BY <1>1, <1>2, <1>3

\* Doubling is linear.
LEMMA DoubledSum ==
    ASSUME IsExclusiveOr, NEW a \in Byte, NEW b \in Byte
    PROVE  Doubled(ByteXor(a, b)) = ByteXor(Doubled(a), Doubled(b))
<1> DEFINE L == 0..127
<1>1. \A u, v \in L : ByteXor(u, v) \in L
  BY XorLaws DEF XorOn
<1>2. \A u \in L : u \in Byte /\ 2 * u \in Byte /\ 128 + u \in Byte
  BY DEF Byte
<1>3. \A u, v \in L : ByteXor(2 * u, 2 * v) = 2 * ByteXor(u, v)
  <2> SUFFICES ASSUME NEW u \in L, NEW v \in L PROVE ByteXor(2 * u, 2 * v) = 2 * ByteXor(u, v)
    OBVIOUS
  <2>1. /\ 127 \in 0..255 /\ 2 * u \in 0..(2 * 127 + 1) /\ 2 * v \in 0..(2 * 127 + 1) /\ (2 * u) \div 2 = u
        /\ (2 * v) \div 2 = v /\ (2 * u + 2 * v) % 2 = 0 /\ XorOn(127)
    BY XorLaws
  <2>2. ByteXor(2 * u, 2 * v) = 2 * ByteXor((2 * u) \div 2, (2 * v) \div 2) + ((2 * u + 2 * v) % 2)
    BY <2>1, XorHalves
  <2>3. ByteXor(u, v) \in L
    BY <1>1
  <2> QED
    BY <2>1, <2>2, <2>3
<1>4. \A u \in L : ByteXor(128, u) = 128 + u
  BY TopBit
<1>5. /\ \A u \in L : Doubled(u) = 2 * u
      /\ \A u \in L : Doubled(128 + u) = ByteXor(2 * u, 29)
      /\ a \in L \/ \E u \in L : a = 128 + u
      /\ b \in L \/ \E u \in L : b = 128 + u
      /\ 29 \in Byte /\ 128 \in Byte /\ 0 \in Byte
  <2>1. 29 \in Byte /\ 128 \in Byte /\ 0 \in Byte
    BY DEF Byte
  <2> QED
    BY <2>1, DoubledIs
<1>6. /\ \A x, y \in Byte : ByteXor(x, y) \in Byte /\ ByteXor(x, y) = ByteXor(y, x)
      /\ \A x, y, z \in Byte : ByteXor(ByteXor(x, y), z) = ByteXor(x, ByteXor(y, z))
      /\ \A x \in Byte : ByteXor(x, x) = 0 /\ ByteXor(0, x) = x /\ ByteXor(x, 0) = x
      /\ \A w, x, y, z \in Byte :
           ByteXor(ByteXor(w, x), ByteXor(y, z)) = ByteXor(ByteXor(w, y), ByteXor(x, z))
  BY ByteLaws, XorCancels
<1> HIDE DEF L
<1>7. ASSUME NEW u \in L, NEW v \in L
      PROVE  /\ Doubled(ByteXor(u, v)) = ByteXor(Doubled(u), Doubled(v))
             /\ Doubled(ByteXor(128 + u, v)) = ByteXor(Doubled(128 + u), Doubled(v))
             /\ Doubled(ByteXor(u, 128 + v)) = ByteXor(Doubled(u), Doubled(128 + v))
             /\ Doubled(ByteXor(128 + u, 128 + v)) = ByteXor(Doubled(128 + u), Doubled(128 + v))
  <2> DEFINE w == ByteXor(u, v)
             uu == 2 * u
             vv == 2 * v
  <2>1. w \in L /\ w \in Byte /\ u \in Byte /\ v \in Byte /\ uu \in Byte /\ vv \in Byte
    BY <1>1, <1>2
  <2>2. Doubled(w) = ByteXor(uu, vv)
    BY <1>3, <1>5, <2>1
  <2>3. /\ Doubled(128 + w) = ByteXor(ByteXor(uu, vv), 29) /\ Doubled(u) = uu /\ Doubled(v) = vv
        /\ Doubled(128 + u) = ByteXor(uu, 29) /\ Doubled(128 + v) = ByteXor(vv, 29)
    BY <1>3, <1>5, <2>1
  <2>4. ByteXor(128, u) = 128 + u /\ ByteXor(128, v) = 128 + v /\ ByteXor(128, w) = 128 + w
    BY <1>4, <2>1
  <2> HIDE DEF uu, vv
  <2>5. ByteXor(128 + u, v) = 128 + w
    BY <1>5, <1>6, <2>1, <2>4
  <2>6. ByteXor(u, 128 + v) = 128 + w
    <3>1. ByteXor(u, ByteXor(128, v)) = ByteXor(ByteXor(u, 128), v)
      BY <1>5, <1>6, <2>1
    <3>2. ByteXor(ByteXor(u, 128), v) = ByteXor(ByteXor(128, u), v)
      BY <1>5, <1>6, <2>1
    <3>3. ByteXor(ByteXor(128, u), v) = ByteXor(128, w)
      BY <1>5, <1>6, <2>1
    <3> QED
      BY <2>4, <3>1, <3>2, <3>3
  <2>7. ByteXor(128 + u, 128 + v) = w
    <3>1. ByteXor(ByteXor(128, u), ByteXor(128, v)) = ByteXor(ByteXor(128, 128), ByteXor(u, v))
      BY <1>5, <1>6, <2>1
    <3>2. ByteXor(128, 128) = 0 /\ ByteXor(0, w) = w
      BY <1>5, <1>6, <2>1
    <3> QED
      BY <2>4, <3>1, <3>2
  <2>8. ByteXor(ByteXor(uu, vv), 29) = ByteXor(ByteXor(uu, 29), vv)
    <3>1. ByteXor(ByteXor(uu, vv), 29) = ByteXor(uu, ByteXor(vv, 29))
      BY <1>5, <1>6, <2>1
    <3>2. ByteXor(vv, 29) = ByteXor(29, vv)
      BY <1>5, <1>6, <2>1
    <3>3. ByteXor(uu, ByteXor(29, vv)) = ByteXor(ByteXor(uu, 29), vv)
      BY <1>5, <1>6, <2>1
    <3> QED
      BY <3>1, <3>2, <3>3
  <2>9. ByteXor(ByteXor(uu, vv), 29) = ByteXor(uu, ByteXor(vv, 29))
    BY <1>5, <1>6, <2>1
  <2>10. ByteXor(ByteXor(uu, 29), ByteXor(vv, 29)) = ByteXor(uu, vv)
    <3>1. ByteXor(ByteXor(uu, 29), ByteXor(vv, 29)) = ByteXor(ByteXor(uu, vv), ByteXor(29, 29))
      BY <1>5, <1>6, <2>1
    <3>2. ByteXor(29, 29) = 0 /\ ByteXor(uu, vv) \in Byte
      BY <1>5, <1>6, <2>1
    <3> QED
      BY <1>6, <3>1, <3>2
  <2> HIDE DEF w
  <2>11. Doubled(ByteXor(u, v)) = ByteXor(Doubled(u), Doubled(v))
    BY <2>2, <2>3 DEF w
  <2>12. Doubled(ByteXor(128 + u, v)) = ByteXor(Doubled(128 + u), Doubled(v))
    BY <2>3, <2>5, <2>8
  <2>13. Doubled(ByteXor(u, 128 + v)) = ByteXor(Doubled(u), Doubled(128 + v))
    BY <2>3, <2>6, <2>9
  <2>14. Doubled(ByteXor(128 + u, 128 + v)) = ByteXor(Doubled(128 + u), Doubled(128 + v))
    BY <2>2, <2>3, <2>7, <2>10
  <2> QED
    BY <2>11, <2>12, <2>13, <2>14
<1> QED
  BY <1>5, <1>7

\* Different bytes stay different.
LEMMA DoubledApart ==
    ASSUME IsExclusiveOr
    PROVE  /\ \A a \in Byte : Doubled(a) \in Byte
           /\ Doubled(0) = 0
           /\ \A a, b \in Byte : Doubled(a) = Doubled(b) => a = b
<1>1. \A a \in Byte : Doubled(a) \in Byte
  BY DoubledIs
<1>2. Doubled(0) = 0
  BY DEF Doubled
<1>3. ASSUME NEW c \in Byte, Doubled(c) = 0 PROVE c = 0
  <2>1. CASE c \in 0..127
    BY <1>3, <2>1 DEF Doubled
  <2>2. CASE \E u \in 0..127 : c = 128 + u
    <3>1. PICK u \in 0..127 : c = 128 + u
      BY <2>2
    <3>2. 2 * u \in Byte /\ 29 \in Byte /\ ByteXor(2 * u, 29) = 0
      BY <1>3, <3>1, DoubledIs
    <3>3. 2 * u = 29
      BY <3>2, XorCancels
    <3> QED
      BY <3>3
  <2> QED
    BY <2>1, <2>2, DoubledIs
<1>4. ASSUME NEW a \in Byte, NEW b \in Byte, Doubled(a) = Doubled(b) PROVE a = b
  <2>1. ByteXor(a, b) \in Byte /\ Doubled(a) \in Byte
    BY <1>1, ByteLaws
  <2>2. Doubled(ByteXor(a, b)) = ByteXor(Doubled(a), Doubled(b))
    BY DoubledSum
  <2>3. Doubled(ByteXor(a, b)) = 0
    BY <1>4, <2>1, <2>2, ByteLaws
  <2>4. ByteXor(a, b) = 0
    BY <1>3, <2>1, <2>3
  <2> QED
    BY <2>4, XorCancels
<1> QED
  BY <1>1, <1>2, <1>4

-------------------------------------------------------------------------------
(* The product.                                                            *)
TimesOf(f, m, a) ==
  \A d \in 0..m : f[d] = IF d = 0 THEN 0
                         ELSE ByteXor(Doubled(f[d \div 2]), IF d % 2 = 1 THEN a ELSE 0)

\* A table of products has a next entry.
LEMMA TimesMore ==
    ASSUME IsExclusiveOr, NEW a \in Byte, NEW m \in Nat, NEW f \in [0..m -> Byte], TimesOf(f, m, a)
    PROVE  \E g \in [0..(m + 1) -> Byte] : TimesOf(g, m + 1, a)
<1> DEFINE h == f[(m + 1) \div 2]
           last == ByteXor(Doubled(h), IF (m + 1) % 2 = 1 THEN a ELSE 0)
           g == [d \in 0..(m + 1) |-> IF d = m + 1 THEN last ELSE f[d]]
<1>1. (m + 1) \div 2 \in 0..m /\ m + 1 \in Nat /\ m + 1 # 0
  OBVIOUS
<1>2. last \in Byte
  <2>1. h \in Byte
    BY <1>1
  <2> HIDE DEF h
  <2>2. Doubled(h) \in Byte /\ 0 \in Byte
    BY <2>1, DoubledApart, ByteLaws
  <2> QED
    BY <2>2, ByteLaws
<1> HIDE DEF last
<1>3. g \in [0..(m + 1) -> Byte]
  BY <1>2
<1>4. \A d \in 0..m : g[d] = f[d] /\ d \in 0..(m + 1)
  OBVIOUS
<1>5. g[m + 1] = last
  BY <1>1
<1> HIDE DEF g
<1>6. ASSUME NEW d \in 0..(m + 1)
      PROVE  g[d] = IF d = 0 THEN 0
                    ELSE ByteXor(Doubled(g[d \div 2]), IF d % 2 = 1 THEN a ELSE 0)
  <2>1. CASE d = m + 1
    <3>1. g[d \div 2] = h
      BY <1>1, <1>4, <2>1
    <3> QED
      BY <1>1, <1>5, <2>1, <3>1 DEF last
  <2>2. CASE d # m + 1
    <3>1. d \in 0..m /\ d \div 2 \in 0..m
      BY <2>2
    <3>2. g[d] = f[d] /\ g[d \div 2] = f[d \div 2]
      BY <1>4, <3>1
    <3>3. f[d] = IF d = 0 THEN 0 ELSE ByteXor(Doubled(f[d \div 2]), IF d % 2 = 1 THEN a ELSE 0)
      BY <3>1 DEF TimesOf
    <3> QED
      BY <3>2, <3>3
  <2> QED
    BY <2>1, <2>2
<1> QED
  BY <1>3, <1>6 DEF TimesOf

\* The table exists.
LEMMA TimesExists ==
    ASSUME IsExclusiveOr, NEW a \in Byte
    PROVE  \E f \in [0..255 -> Byte] : TimesOf(f, 255, a)
<1> DEFINE Made(m) == \E f \in [0..m -> Byte] : TimesOf(f, m, a)
           failing == {m \in Nat : ~Made(m)}
<1>1. Made(0)
  <2>1. [d \in 0..0 |-> 0] \in [0..0 -> Byte] /\ TimesOf([d \in 0..0 |-> 0], 0, a)
    BY ByteLaws DEF TimesOf
  <2> QED
    BY <2>1
<1>2. ASSUME NEW m \in Nat, Made(m) PROVE Made(m + 1)
  BY <1>2, TimesMore
<1> HIDE DEF Made
<1>3. failing = {}
  <2> SUFFICES ASSUME failing # {} PROVE FALSE
    OBVIOUS
  <2>1. failing \in SUBSET Nat
    OBVIOUS
  <2>2. PICK m \in failing : \A l \in failing : m <= l
    <3> HIDE DEF failing
    <3> QED
      BY <2>1, LeastNumber
  <2>3. m \in Nat /\ m # 0 /\ m - 1 \in Nat /\ (m - 1) + 1 = m
    BY <1>1, <2>2
  <2>4. m - 1 \notin failing
    BY <2>2, <2>3
  <2> QED
    BY <1>2, <2>2, <2>3, <2>4
<1>4. Made(255)
  BY <1>3
<1> QED
  BY <1>4 DEF Made

\* The product is what its equation says.
LEMMA GfMulIs ==
    ASSUME IsExclusiveOr, NEW a \in Byte
    PROVE  /\ GfMul(a, 0) = 0
           /\ \A b \in Byte : GfMul(a, b) \in Byte
           /\ \A b \in Byte : b # 0 =>
                /\ b \div 2 \in Byte
                /\ GfMul(a, b) = ByteXor(Doubled(GfMul(a, b \div 2)), IF b % 2 = 1 THEN a ELSE 0)
<1> DEFINE Step(f) == [d \in 0..255 |-> IF d = 0 THEN 0
                         ELSE ByteXor(Doubled(f[d \div 2]), IF d % 2 = 1 THEN a ELSE 0)]
           times == CHOOSE f : f = Step(f)
<1>1. PICK f \in [0..255 -> Byte] : TimesOf(f, 255, a)
  BY TimesExists
<1>2. f = Step(f)
  <2>1. f = [d \in 0..255 |-> f[d]]
    OBVIOUS
  <2> QED
    BY <1>1, <2>1 DEF TimesOf
<1>3. times = Step(times)
  <2> HIDE DEF Step
  <2> QED
    BY <1>2
<1>4. \A b \in 0..255 : GfMul(a, b) = times[b]
  BY DEF GfMul
<1>5. TimesOf(times, 255, a)
  <2> HIDE DEF times
  <2> QED
    BY <1>3 DEF TimesOf
<1> HIDE DEF times
<1>6. \A b \in 0..255 : times[b] = IF b = 0 THEN 0
                         ELSE ByteXor(Doubled(times[b \div 2]), IF b % 2 = 1 THEN a ELSE 0)
  BY <1>5 DEF TimesOf
<1>7. \A b \in 0..255 : times[b] \in Byte
  <2> DEFINE failing == {b \in 0..255 : times[b] \notin Byte}
  <2> SUFFICES ASSUME failing # {} PROVE FALSE
    OBVIOUS
  <2>1. failing \in SUBSET Nat
    OBVIOUS
  <2>2. PICK b \in failing : \A c \in failing : b <= c
    <3> HIDE DEF failing
    <3> QED
      BY <2>1, LeastNumber
  <2>3. b \in 0..255 /\ times[b] \notin Byte
    BY <2>2
  <2>4. b # 0
    BY <1>6, <2>3, ByteLaws
  <2>5. b \div 2 \in 0..255 /\ b \div 2 < b
    BY <2>3, <2>4
  <2>6. times[b \div 2] \in Byte
    BY <2>2, <2>3, <2>5
  <2>7. Doubled(times[b \div 2]) \in Byte
    BY <2>6, DoubledApart
  <2> HIDE DEF failing
  <2>8. times[b] = ByteXor(Doubled(times[b \div 2]), IF b % 2 = 1 THEN a ELSE 0)
    BY <1>6, <2>3, <2>4
  <2>9. (IF b % 2 = 1 THEN a ELSE 0) \in Byte
    BY ByteLaws
  <2>10. times[b] \in Byte
    <3> DEFINE x == IF b % 2 = 1 THEN a ELSE 0
               y == Doubled(times[b \div 2])
    <3>1. x \in Byte /\ y \in Byte /\ times[b] = ByteXor(y, x)
      BY <2>7, <2>8, <2>9
    <3> HIDE DEF x, y
    <3> QED
      BY <3>1, ByteLaws, SMTT(30)
  <2> QED
    BY <2>3, <2>10
<1>8. \A b \in 0..255 : b \div 2 \in 0..255
  OBVIOUS
<1>9. 0 \in 0..255
  OBVIOUS
<1> QED
  BY <1>4, <1>6, <1>7, <1>8, <1>9, ZenonT(60) DEF Byte

\* A property of every product with a, from that with half the other factor.
LEMMA ByHalves ==
    ASSUME NEW S \in SUBSET Byte, 0 \in S, \A b \in Byte : b # 0 /\ b \div 2 \in S => b \in S
    PROVE  S = Byte
<1> DEFINE failing == {b \in Byte : b \notin S}
<1> SUFFICES ASSUME failing # {} PROVE FALSE
  OBVIOUS
<1>1. failing \in SUBSET Nat
  BY DEF Byte
<1>2. PICK b \in failing : \A c \in failing : b <= c
  <2> HIDE DEF failing
  <2> QED
    BY <1>1, LeastNumber
<1>3. b \in 0..255 /\ b \notin S /\ b # 0
  BY <1>2 DEF Byte
<1>4. b \div 2 \in 0..255 /\ b \div 2 < b /\ ~(b <= b \div 2)
  BY <1>3
<1>5. b \div 2 \in S
  BY <1>2, <1>4 DEF Byte
<1> QED
  BY <1>3, <1>5 DEF Byte

\* The product is linear in its first factor.
LEMMA MulSum ==
    ASSUME IsExclusiveOr, NEW x \in Byte, NEW y \in Byte, NEW b \in Byte
    PROVE  GfMul(ByteXor(x, y), b) = ByteXor(GfMul(x, b), GfMul(y, b))
<1> DEFINE S == {c \in Byte : GfMul(ByteXor(x, y), c) = ByteXor(GfMul(x, c), GfMul(y, c))}
           z == ByteXor(x, y)
<1>1. z \in Byte /\ 0 \in Byte
  BY ByteLaws
<1>2. 0 \in S
  <2>1. GfMul(z, 0) = 0 /\ GfMul(x, 0) = 0 /\ GfMul(y, 0) = 0
    BY <1>1, GfMulIs
  <2> QED
    BY <1>1, <2>1, ByteLaws
<1>3. ASSUME NEW c \in Byte, c # 0, c \div 2 \in S PROVE c \in S
  <2> DEFINE h == c \div 2
             Rest(a) == IF c % 2 = 1 THEN a ELSE 0
             u == GfMul(x, h)
             v == GfMul(y, h)
             w == GfMul(z, h)
  <2>1. /\ h \in Byte /\ u \in Byte /\ v \in Byte
        /\ GfMul(x, c) = ByteXor(Doubled(u), Rest(x))
        /\ GfMul(y, c) = ByteXor(Doubled(v), Rest(y))
        /\ GfMul(z, c) = ByteXor(Doubled(w), Rest(z))
    <3> HIDE DEF z
    <3> QED
      BY <1>1, <1>3, GfMulIs
  <2>2. w = ByteXor(u, v)
    BY <1>3
  <2>3. Rest(z) = ByteXor(Rest(x), Rest(y)) /\ Rest(x) \in Byte /\ Rest(y) \in Byte
    <3>1. ByteXor(0, 0) = 0
      BY ByteLaws
    <3> QED
      BY <1>1, <3>1
  <2> HIDE DEF h, Rest, u, v, w, z
  <2>4. Doubled(u) \in Byte /\ Doubled(v) \in Byte /\ Doubled(w) = ByteXor(Doubled(u), Doubled(v))
    BY <2>1, <2>2, DoubledApart, DoubledSum
  <2>5. GfMul(z, c) = ByteXor(GfMul(x, c), GfMul(y, c))
    BY <2>1, <2>3, <2>4, XorCancels
  <2> QED
    BY <2>5 DEF z
<1> HIDE DEF S
<1>4. S = Byte
  <2>1. S \in SUBSET Byte
    BY DEF S
  <2> QED
    BY <1>2, <1>3, <2>1, ByHalves
<1> QED
  BY <1>4 DEF S

\* Twice a factor is twice the product.
LEMMA MulDoubled ==
    ASSUME IsExclusiveOr, NEW x \in Byte, NEW b \in Byte
    PROVE  GfMul(Doubled(x), b) = Doubled(GfMul(x, b))
<1> DEFINE S == {c \in Byte : GfMul(Doubled(x), c) = Doubled(GfMul(x, c))}
           z == Doubled(x)
<1>1. z \in Byte /\ 0 \in Byte
  BY ByteLaws, DoubledApart
<1>2. 0 \in S
  <2>1. GfMul(z, 0) = 0 /\ GfMul(x, 0) = 0
    BY <1>1, GfMulIs
  <2> QED
    BY <1>1, <2>1, DoubledApart
<1>3. ASSUME NEW c \in Byte, c # 0, c \div 2 \in S PROVE c \in S
  <2> DEFINE h == c \div 2
             Rest(a) == IF c % 2 = 1 THEN a ELSE 0
             u == GfMul(x, h)
             w == GfMul(z, h)
  <2>1. /\ h \in Byte /\ u \in Byte
        /\ GfMul(x, c) = ByteXor(Doubled(u), Rest(x))
        /\ GfMul(z, c) = ByteXor(Doubled(w), Rest(z))
    <3> HIDE DEF z
    <3> QED
      BY <1>1, <1>3, GfMulIs
  <2>2. w = Doubled(u)
    BY <1>3
  <2>3. Rest(z) = Doubled(Rest(x)) /\ Rest(x) \in Byte
    BY <1>1, DoubledApart
  <2> HIDE DEF h, Rest, u, w, z
  <2>4. Doubled(u) \in Byte
    BY <2>1, DoubledApart
  <2>5. Doubled(ByteXor(Doubled(u), Rest(x))) = ByteXor(Doubled(w), Rest(z))
    BY <2>2, <2>3, <2>4, DoubledSum
  <2>6. GfMul(z, c) = Doubled(GfMul(x, c))
    BY <2>1, <2>5
  <2> QED
    BY <2>6 DEF z
<1> HIDE DEF S
<1>4. S = Byte
  <2>1. S \in SUBSET Byte
    BY DEF S
  <2> QED
    BY <1>2, <1>3, <2>1, ByHalves
<1> QED
  BY <1>4 DEF S

\* One is the unit.
LEMMA MulOne ==
    ASSUME IsExclusiveOr, NEW b \in Byte
    PROVE  GfMul(1, b) = b /\ GfMul(b, 1) = b
<1> DEFINE S == {c \in Byte : GfMul(1, c) = c}
<1>1. 1 \in Byte /\ 0 \in Byte /\ 1 # 0 /\ 1 \div 2 = 0 /\ 1 % 2 = 1
  BY DEF Byte
<1>2. 0 \in S
  BY <1>1, GfMulIs
<1>3. ASSUME NEW c \in Byte, c # 0, c \div 2 \in S PROVE c \in S
  <2> DEFINE h == c \div 2
             r == c % 2
  <2>1. h \in 0..127 /\ r \in 0..1 /\ c = 2 * h + r /\ (r = 1 \/ r = 0)
    BY DEF Byte
  <2>2. GfMul(1, c) = ByteXor(Doubled(h), IF r = 1 THEN 1 ELSE 0)
    BY <1>1, <1>3, GfMulIs
  <2> HIDE DEF h, r
  <2>3. Doubled(h) = 2 * h /\ Doubled(h) \in Byte
    BY <2>1, DoubledIs
  <2>4. ByteXor(2 * h, r) = 2 * h + r
    <3>1. CASE r = 0
      BY <2>1, <2>3, <3>1, ByteLaws
    <3>2. CASE r = 1
      <4>1. /\ 127 \in 0..255 /\ XorOn(127) /\ 2 * h \in 0..(2 * 127 + 1) /\ 1 \in 0..(2 * 127 + 1)
            /\ (2 * h) \div 2 = h /\ 1 \div 2 = 0 /\ (2 * h + 1) % 2 = 1
        BY <2>1, XorLaws
      <4>2. ByteXor(2 * h, 1) = 2 * ByteXor((2 * h) \div 2, 1 \div 2) + ((2 * h + 1) % 2)
        BY <4>1, XorHalves
      <4>3. h \in Byte
        BY <2>1 DEF Byte
      <4>4. ByteXor(h, 0) = h
        BY <4>3, ByteLaws
      <4> QED
        BY <2>1, <3>2, <4>1, <4>2, <4>4
    <3> QED
      BY <2>1, <3>1, <3>2
  <2> QED
    BY <2>1, <2>2, <2>3, <2>4
<1> HIDE DEF S
<1>4. S = Byte
  <2>1. S \in SUBSET Byte
    BY DEF S
  <2> QED
    BY <1>2, <1>3, <2>1, ByHalves
<1>5. GfMul(b, 1) = b
  <2>1. GfMul(b, 1) = ByteXor(Doubled(GfMul(b, 0)), b) /\ GfMul(b, 0) = 0
    BY <1>1, GfMulIs
  <2> QED
    BY <2>1, DoubledApart, ByteLaws
<1> QED
  BY <1>4, <1>5 DEF S

\* The factors can be exchanged.
LEMMA MulCommutes ==
    ASSUME IsExclusiveOr, NEW b \in Byte, NEW x \in Byte
    PROVE  GfMul(x, b) = GfMul(b, x)
<1> DEFINE S == {c \in Byte : GfMul(c, b) = GfMul(b, c)}
<1>1. 1 \in Byte /\ 0 \in Byte
  BY DEF Byte
<1>2. GfMul(0, b) = 0
  <2>1. ByteXor(0, 0) = 0 /\ GfMul(0, b) \in Byte
    BY <1>1, ByteLaws, GfMulIs
  <2>2. GfMul(0, b) = ByteXor(GfMul(0, b), GfMul(0, b))
    BY <1>1, <2>1, MulSum
  <2> QED
    BY <2>1, <2>2, ByteLaws
<1>3. 0 \in S
  BY <1>1, <1>2, GfMulIs
<1>4. ASSUME NEW c \in Byte, c # 0, c \div 2 \in S PROVE c \in S
  <2> DEFINE h == c \div 2
             r == c % 2
  <2>1. h \in 0..127 /\ r \in 0..1 /\ c = 2 * h + r /\ (r = 1 \/ r = 0) /\ h \in Byte /\ r \in Byte
    BY DEF Byte
  <2>2. GfMul(b, c) = ByteXor(Doubled(GfMul(b, h)), IF r = 1 THEN b ELSE 0)
    BY <1>4, GfMulIs
  <2>3. GfMul(h, b) = GfMul(b, h)
    BY <1>4
  <2>4. GfMul(r, b) = IF r = 1 THEN b ELSE 0
    <3> HIDE DEF r
    <3> QED
      BY <1>2, <2>1, MulOne
  <2> HIDE DEF h, r
  <2>5. Doubled(h) = 2 * h /\ Doubled(h) \in Byte
    BY <2>1, DoubledIs
  <2>6. c = ByteXor(Doubled(h), r)
    <3>1. CASE r = 0
      BY <2>1, <2>5, <3>1, ByteLaws
    <3>2. CASE r = 1
      <4>1. GfMul(1, c) = c
        BY MulOne
      <4>2. c % 2 = 1 /\ c \div 2 = h
        BY <2>1, <3>2
      <4>3. GfMul(1, c) = ByteXor(Doubled(GfMul(1, h)), 1)
        BY <1>1, <1>4, <4>2, GfMulIs
      <4>4. GfMul(1, h) = h
        BY <2>1, MulOne
      <4> QED
        BY <3>2, <4>1, <4>3, <4>4
    <3> QED
      BY <2>1, <3>1, <3>2
  <2>7. GfMul(c, b) = ByteXor(GfMul(Doubled(h), b), GfMul(r, b))
    BY <2>1, <2>5, <2>6, MulSum
  <2>8. GfMul(Doubled(h), b) = Doubled(GfMul(h, b))
    BY <2>1, MulDoubled
  <2> QED
    BY <2>2, <2>3, <2>4, <2>7, <2>8
<1> HIDE DEF S
<1>5. S = Byte
  <2>1. S \in SUBSET Byte
    BY DEF S
  <2> QED
    BY <1>3, <1>4, <2>1, ByHalves
<1> QED
  BY <1>5 DEF S

-------------------------------------------------------------------------------
(* The powers of the generator.                                            *)

\* A power is twice the one before.
LEMMA PowIs ==
    ASSUME IsExclusiveOr
    PROVE  /\ GfPow(0) = 1
           /\ \A k \in 0..254 : GfPow(k) \in Byte
           /\ \A k \in 1..254 : GfPow(k) = Doubled(GfPow(k - 1))
<1> DEFINE Step(f) == [i \in 0..254 |-> IF i = 0 THEN 1 ELSE Doubled(f[i - 1])]
           power == CHOOSE f : f = Step(f)
           next == [x \in (1..254) \X Byte |-> Doubled(x[2])]
<1>0. 1 \in Byte
  BY DEF Byte
<1>1. next \in [(1..254) \X Byte -> Byte]
  BY DoubledApart
<1>2. PICK f \in [0..254 -> Byte] : Iterated(f, 1, 254, next)
  <2>1. 1 \in Byte /\ 254 \in Nat
    BY DEF Byte
  <2> HIDE DEF next
  <2> QED
    BY <1>1, <2>1, Iterates
<1>3. f[0] = 1 /\ \A i \in 1..254 : f[i] = Doubled(f[i - 1])
  <2>1. \A i \in 1..254 : i - 1 \in 0..254 /\ f[i - 1] \in Byte
    OBVIOUS
  <2>2. \A i \in 1..254 : f[i] = next[<<i, f[i - 1]>>]
    BY <1>2 DEF Iterated
  <2>3. \A i \in 1..254 : f[i] = Doubled(f[i - 1])
    BY <2>1, <2>2
  <2> QED
    BY <1>2, <2>3 DEF Iterated
<1>4. f = Step(f)
  <2>1. f = [i \in 0..254 |-> f[i]]
    OBVIOUS
  <2>2. \A i \in 0..254 : f[i] = IF i = 0 THEN 1 ELSE Doubled(f[i - 1])
    BY <1>3
  <2>3. [i \in 0..254 |-> f[i]] = Step(f)
    BY <2>2, Zenon
  <2> QED
    BY <2>1, <2>3, Zenon
<1>5. power = Step(power)
  <2> HIDE DEF Step
  <2> QED
    BY <1>4
<1>6. \A k \in 0..254 : GfPow(k) = power[k]
  <2>1. \A k \in 0..254 : k % 255 = k
    OBVIOUS
  <2> QED
    BY <2>1 DEF GfPow
<1> HIDE DEF power
<1>7. power[0] = 1 /\ \A k \in 1..254 : power[k] = Doubled(power[k - 1])
  <2> DEFINE other == Step(power)
  <2>1. \A k \in 0..254 : other[k] = IF k = 0 THEN 1 ELSE Doubled(power[k - 1])
    OBVIOUS
  <2>2. power = other
    BY <1>5
  <2> HIDE DEF other
  <2>3. \A k \in 0..254 : power[k] = IF k = 0 THEN 1 ELSE Doubled(power[k - 1])
    BY <2>1, <2>2, Zenon
  <2>4. 0 \in 0..254 /\ \A k \in 1..254 : k \in 0..254 /\ k # 0
    OBVIOUS
  <2> QED
    BY <2>3, <2>4, Zenon
<1>8. \A k \in 0..254 : power[k] \in Byte
  <2> DEFINE failing == {k \in 0..254 : power[k] \notin Byte}
  <2> SUFFICES ASSUME failing # {} PROVE FALSE
    OBVIOUS
  <2>1. failing \in SUBSET Nat
    OBVIOUS
  <2>2. PICK k \in failing : \A l \in failing : k <= l
    <3> HIDE DEF failing
    <3> QED
      BY <2>1, LeastNumber
  <2>3. k # 0
    BY <1>0, <1>7, <2>2
  <2>4. k \in 1..254 /\ k - 1 \in 0..254 /\ power[k - 1] \in Byte
    BY <2>2, <2>3
  <2> QED
    BY <1>7, <2>2, <2>4, DoubledApart, ZenonT(60)
<1>9. \A k \in 1..254 : k \in 0..254 /\ k - 1 \in 0..254
  OBVIOUS
<1>10. GfPow(0) = 1
  <2>1. 0 \in 0..254
    OBVIOUS
  <2> QED
    BY <1>6, <1>7, <2>1, Zenon
<1>11. \A k \in 0..254 : GfPow(k) \in Byte
  BY <1>6, <1>8, Zenon
<1>12. \A k \in 1..254 : GfPow(k) = Doubled(GfPow(k - 1))
  BY <1>6, <1>7, <1>9, Zenon
<1> QED
  BY <1>10, <1>11, <1>12, Zenon

\* Adding 29 turns over four bits.
LEMMA TwentyNine ==
    ASSUME IsExclusiveOr, NEW v \in Byte
    PROVE  ByteXor(v, 29) = 32 * (v \div 32) + 16 * (((v \div 16) + 1) % 2) + 8 * (((v \div 8) + 1) % 2)
                              + 4 * (((v \div 4) + 1) % 2) + 2 * ((v \div 2) % 2) + ((v + 1) % 2)
<1>1. XorOn(127) /\ XorOn(63) /\ XorOn(31) /\ XorOn(15) /\ XorOn(7)
  BY XorLaws
<1>2. v \in 0..255
  BY DEF Byte
<1> DEFINE v1 == v \div 2
           v2 == v1 \div 2
           v3 == v2 \div 2
           v4 == v3 \div 2
           v5 == v4 \div 2
<1>3. v1 \in 0..127 /\ v2 \in 0..63 /\ v3 \in 0..31 /\ v4 \in 0..15 /\ v5 \in 0..7
  BY <1>2
<1>4. \A x, y \in Byte : ByteXor(x, y) = 2 * ByteXor(x \div 2, y \div 2) + ((x + y) % 2)
  <2> SUFFICES ASSUME NEW x \in Byte, NEW y \in Byte
               PROVE  ByteXor(x, y) = 2 * ByteXor(x \div 2, y \div 2) + ((x + y) % 2)
    OBVIOUS
  <2>1. 127 \in 0..255 /\ XorOn(127)
    BY XorLaws
  <2>2. x \in 0..(2 * 127 + 1) /\ y \in 0..(2 * 127 + 1)
    BY DEF Byte
  <2> QED
    BY <2>1, <2>2, XorHalves
<1>5. /\ v \in Byte /\ v1 \in Byte /\ v2 \in Byte /\ v3 \in Byte /\ v4 \in Byte
      /\ 29 \in Byte /\ 14 \in Byte /\ 7 \in Byte /\ 3 \in Byte /\ 1 \in Byte
      /\ 29 \div 2 = 14 /\ 14 \div 2 = 7 /\ 7 \div 2 = 3 /\ 3 \div 2 = 1 /\ 1 \div 2 = 0
  BY <1>3 DEF Byte
<1>6. /\ ByteXor(v, 29) = 2 * ByteXor(v1, 14) + ((v + 29) % 2)
      /\ ByteXor(v1, 14) = 2 * ByteXor(v2, 7) + ((v1 + 14) % 2)
      /\ ByteXor(v2, 7) = 2 * ByteXor(v3, 3) + ((v2 + 7) % 2)
      /\ ByteXor(v3, 3) = 2 * ByteXor(v4, 1) + ((v3 + 3) % 2)
      /\ ByteXor(v4, 1) = 2 * ByteXor(v5, 0) + ((v4 + 1) % 2)
  <2>1. ByteXor(v, 29) = 2 * ByteXor(v1, 29 \div 2) + ((v + 29) % 2)
    BY <1>4, <1>5
  <2>2. ByteXor(v1, 14) = 2 * ByteXor(v2, 14 \div 2) + ((v1 + 14) % 2)
    <3> HIDE DEF v1
    <3> QED
      BY <1>4, <1>5
  <2>3. ByteXor(v2, 7) = 2 * ByteXor(v3, 7 \div 2) + ((v2 + 7) % 2)
    <3> HIDE DEF v2
    <3> QED
      BY <1>4, <1>5
  <2>4. ByteXor(v3, 3) = 2 * ByteXor(v4, 3 \div 2) + ((v3 + 3) % 2)
    <3> HIDE DEF v3
    <3> QED
      BY <1>4, <1>5
  <2>5. ByteXor(v4, 1) = 2 * ByteXor(v5, 1 \div 2) + ((v4 + 1) % 2)
    <3> HIDE DEF v4
    <3> QED
      BY <1>4, <1>5
  <2> HIDE DEF v1, v2, v3, v4, v5
  <2> QED
    BY <1>5, <2>1, <2>2, <2>3, <2>4, <2>5
<1> HIDE DEF v1, v2, v3, v4, v5
<1>9. ByteXor(v5, 0) = v5
  <2>1. v5 \in Byte
    BY <1>3 DEF Byte
  <2> QED
    BY <2>1, ByteLaws
<1>10. /\ v1 = v \div 2 /\ v2 = v \div 4 /\ v3 = v \div 8 /\ v4 = v \div 16 /\ v5 = v \div 32
  BY <1>2 DEF v1, v2, v3, v4, v5
<1>11. ByteXor(v, 29) = 32 * v5 + 16 * ((v4 + 1) % 2) + 8 * ((v3 + 3) % 2) + 4 * ((v2 + 7) % 2)
                        + 2 * ((v1 + 14) % 2) + ((v + 29) % 2)
  BY <1>3, <1>6, <1>9
<1>12. /\ (v3 + 3) % 2 = (v3 + 1) % 2 /\ (v2 + 7) % 2 = (v2 + 1) % 2
       /\ (v1 + 14) % 2 = v1 % 2 /\ (v + 29) % 2 = (v + 1) % 2
  BY <1>2, <1>3
<1>13. ByteXor(v, 29) = 32 * v5 + 16 * ((v4 + 1) % 2) + 8 * ((v3 + 1) % 2) + 4 * ((v2 + 1) % 2)
                        + 2 * (v1 % 2) + ((v + 1) % 2)
  BY <1>11, <1>12
<1> QED
  BY <1>10, <1>13

\* Doubling in digits.
Digits(v) ==
  32 * (v \div 32) + 16 * (((v \div 16) + 1) % 2) + 8 * (((v \div 8) + 1) % 2)
    + 4 * (((v \div 4) + 1) % 2) + 2 * ((v \div 2) % 2) + ((v + 1) % 2)

Twice(x) == IF x < 128 THEN 2 * x ELSE Digits(2 * x - 256)

\* Doubling, with its reduction worked out.
LEMMA TwiceIs ==
    ASSUME IsExclusiveOr, NEW x \in Byte
    PROVE  Doubled(x) = Twice(x)
<1>1. CASE x < 128
  BY <1>1 DEF Doubled, Byte, Twice
<1>2. CASE ~(x < 128)
  <2> DEFINE u == x - 128
  <2>1. u \in 0..127 /\ x = 128 + u /\ 2 * x - 256 = 2 * u
    BY <1>2 DEF Byte
  <2> HIDE DEF u
  <2>2. 2 * u \in Byte /\ Doubled(x) = ByteXor(2 * u, 29)
    BY <2>1, DoubledIs
  <2>3. ByteXor(2 * u, 29) = Digits(2 * u)
    BY <2>2, TwentyNine DEF Digits
  <2> QED
    BY <1>2, <2>1, <2>2, <2>3 DEF Twice
<1> QED
  BY <1>1, <1>2

\* The powers, as the program's table has them.
LEMMA PowerTable ==
    ASSUME IsExclusiveOr
    PROVE  \A k \in 1..254 : GfPow(k) # 1
<1>1. GfPow(0) = 1
  BY PowIs
<1>2. \A k \in 1..254 : GfPow(k) = Twice(GfPow(k - 1))
  BY PowIs, TwiceIs
<1>3. /\ GfPow(1) = 2 /\ GfPow(2) = 4 /\ GfPow(3) = 8 /\ GfPow(4) = 16 /\ GfPow(5) = 32
      /\ GfPow(6) = 64 /\ GfPow(7) = 128 /\ GfPow(8) = 29
  <2>1. /\ Twice(1) = 2 /\ Twice(2) = 4 /\ Twice(4) = 8 /\ Twice(8) = 16 /\ Twice(16) = 32
        /\ Twice(32) = 64 /\ Twice(64) = 128 /\ Twice(128) = 29
    BY DEF Twice, Digits
  <2> QED
    BY <1>1, <1>2, <2>1
<1>4. /\ GfPow(9) = 58 /\ GfPow(10) = 116 /\ GfPow(11) = 232 /\ GfPow(12) = 205
      /\ GfPow(13) = 135 /\ GfPow(14) = 19 /\ GfPow(15) = 38 /\ GfPow(16) = 76
  <2>1. /\ Twice(29) = 58 /\ Twice(58) = 116 /\ Twice(116) = 232 /\ Twice(232) = 205
        /\ Twice(205) = 135 /\ Twice(135) = 19 /\ Twice(19) = 38 /\ Twice(38) = 76
    BY DEF Twice, Digits
  <2> QED
    BY <1>3, <1>2, <2>1
<1>5. /\ GfPow(17) = 152 /\ GfPow(18) = 45 /\ GfPow(19) = 90 /\ GfPow(20) = 180
      /\ GfPow(21) = 117 /\ GfPow(22) = 234 /\ GfPow(23) = 201 /\ GfPow(24) = 143
  <2>1. /\ Twice(76) = 152 /\ Twice(152) = 45 /\ Twice(45) = 90 /\ Twice(90) = 180
        /\ Twice(180) = 117 /\ Twice(117) = 234 /\ Twice(234) = 201 /\ Twice(201) = 143
    BY DEF Twice, Digits
  <2> QED
    BY <1>4, <1>2, <2>1
<1>6. /\ GfPow(25) = 3 /\ GfPow(26) = 6 /\ GfPow(27) = 12 /\ GfPow(28) = 24 /\ GfPow(29) = 48
      /\ GfPow(30) = 96 /\ GfPow(31) = 192 /\ GfPow(32) = 157
  <2>1. /\ Twice(143) = 3 /\ Twice(3) = 6 /\ Twice(6) = 12 /\ Twice(12) = 24 /\ Twice(24) = 48
        /\ Twice(48) = 96 /\ Twice(96) = 192 /\ Twice(192) = 157
    BY DEF Twice, Digits
  <2> QED
    BY <1>5, <1>2, <2>1
<1>7. /\ GfPow(33) = 39 /\ GfPow(34) = 78 /\ GfPow(35) = 156 /\ GfPow(36) = 37 /\ GfPow(37) = 74
      /\ GfPow(38) = 148 /\ GfPow(39) = 53 /\ GfPow(40) = 106
  <2>1. /\ Twice(157) = 39 /\ Twice(39) = 78 /\ Twice(78) = 156 /\ Twice(156) = 37
        /\ Twice(37) = 74 /\ Twice(74) = 148 /\ Twice(148) = 53 /\ Twice(53) = 106
    BY DEF Twice, Digits
  <2> QED
    BY <1>6, <1>2, <2>1
<1>8. /\ GfPow(41) = 212 /\ GfPow(42) = 181 /\ GfPow(43) = 119 /\ GfPow(44) = 238
      /\ GfPow(45) = 193 /\ GfPow(46) = 159 /\ GfPow(47) = 35 /\ GfPow(48) = 70
  <2>1. /\ Twice(106) = 212 /\ Twice(212) = 181 /\ Twice(181) = 119 /\ Twice(119) = 238
        /\ Twice(238) = 193 /\ Twice(193) = 159 /\ Twice(159) = 35 /\ Twice(35) = 70
    BY DEF Twice, Digits
  <2> QED
    BY <1>7, <1>2, <2>1
<1>9. /\ GfPow(49) = 140 /\ GfPow(50) = 5 /\ GfPow(51) = 10 /\ GfPow(52) = 20 /\ GfPow(53) = 40
      /\ GfPow(54) = 80 /\ GfPow(55) = 160 /\ GfPow(56) = 93
  <2>1. /\ Twice(70) = 140 /\ Twice(140) = 5 /\ Twice(5) = 10 /\ Twice(10) = 20 /\ Twice(20) = 40
        /\ Twice(40) = 80 /\ Twice(80) = 160 /\ Twice(160) = 93
    BY DEF Twice, Digits
  <2> QED
    BY <1>8, <1>2, <2>1
<1>10. /\ GfPow(57) = 186 /\ GfPow(58) = 105 /\ GfPow(59) = 210 /\ GfPow(60) = 185
       /\ GfPow(61) = 111 /\ GfPow(62) = 222 /\ GfPow(63) = 161 /\ GfPow(64) = 95
  <2>1. /\ Twice(93) = 186 /\ Twice(186) = 105 /\ Twice(105) = 210 /\ Twice(210) = 185
        /\ Twice(185) = 111 /\ Twice(111) = 222 /\ Twice(222) = 161 /\ Twice(161) = 95
    BY DEF Twice, Digits
  <2> QED
    BY <1>9, <1>2, <2>1
<1>11. /\ GfPow(65) = 190 /\ GfPow(66) = 97 /\ GfPow(67) = 194 /\ GfPow(68) = 153
       /\ GfPow(69) = 47 /\ GfPow(70) = 94 /\ GfPow(71) = 188 /\ GfPow(72) = 101
  <2>1. /\ Twice(95) = 190 /\ Twice(190) = 97 /\ Twice(97) = 194 /\ Twice(194) = 153
        /\ Twice(153) = 47 /\ Twice(47) = 94 /\ Twice(94) = 188 /\ Twice(188) = 101
    BY DEF Twice, Digits
  <2> QED
    BY <1>10, <1>2, <2>1
<1>12. /\ GfPow(73) = 202 /\ GfPow(74) = 137 /\ GfPow(75) = 15 /\ GfPow(76) = 30 /\ GfPow(77) = 60
       /\ GfPow(78) = 120 /\ GfPow(79) = 240 /\ GfPow(80) = 253
  <2>1. /\ Twice(101) = 202 /\ Twice(202) = 137 /\ Twice(137) = 15 /\ Twice(15) = 30
        /\ Twice(30) = 60 /\ Twice(60) = 120 /\ Twice(120) = 240 /\ Twice(240) = 253
    BY DEF Twice, Digits
  <2> QED
    BY <1>11, <1>2, <2>1
<1>13. /\ GfPow(81) = 231 /\ GfPow(82) = 211 /\ GfPow(83) = 187 /\ GfPow(84) = 107
       /\ GfPow(85) = 214 /\ GfPow(86) = 177 /\ GfPow(87) = 127 /\ GfPow(88) = 254
  <2>1. /\ Twice(253) = 231 /\ Twice(231) = 211 /\ Twice(211) = 187 /\ Twice(187) = 107
        /\ Twice(107) = 214 /\ Twice(214) = 177 /\ Twice(177) = 127 /\ Twice(127) = 254
    BY DEF Twice, Digits
  <2> QED
    BY <1>12, <1>2, <2>1
<1>14. /\ GfPow(89) = 225 /\ GfPow(90) = 223 /\ GfPow(91) = 163 /\ GfPow(92) = 91
       /\ GfPow(93) = 182 /\ GfPow(94) = 113 /\ GfPow(95) = 226 /\ GfPow(96) = 217
  <2>1. /\ Twice(254) = 225 /\ Twice(225) = 223 /\ Twice(223) = 163 /\ Twice(163) = 91
        /\ Twice(91) = 182 /\ Twice(182) = 113 /\ Twice(113) = 226 /\ Twice(226) = 217
    BY DEF Twice, Digits
  <2> QED
    BY <1>13, <1>2, <2>1
<1>15. /\ GfPow(97) = 175 /\ GfPow(98) = 67 /\ GfPow(99) = 134 /\ GfPow(100) = 17
       /\ GfPow(101) = 34 /\ GfPow(102) = 68 /\ GfPow(103) = 136 /\ GfPow(104) = 13
  <2>1. /\ Twice(217) = 175 /\ Twice(175) = 67 /\ Twice(67) = 134 /\ Twice(134) = 17
        /\ Twice(17) = 34 /\ Twice(34) = 68 /\ Twice(68) = 136 /\ Twice(136) = 13
    BY DEF Twice, Digits
  <2> QED
    BY <1>14, <1>2, <2>1
<1>16. /\ GfPow(105) = 26 /\ GfPow(106) = 52 /\ GfPow(107) = 104 /\ GfPow(108) = 208
       /\ GfPow(109) = 189 /\ GfPow(110) = 103 /\ GfPow(111) = 206 /\ GfPow(112) = 129
  <2>1. /\ Twice(13) = 26 /\ Twice(26) = 52 /\ Twice(52) = 104 /\ Twice(104) = 208
        /\ Twice(208) = 189 /\ Twice(189) = 103 /\ Twice(103) = 206 /\ Twice(206) = 129
    BY DEF Twice, Digits
  <2> QED
    BY <1>15, <1>2, <2>1
<1>17. /\ GfPow(113) = 31 /\ GfPow(114) = 62 /\ GfPow(115) = 124 /\ GfPow(116) = 248
       /\ GfPow(117) = 237 /\ GfPow(118) = 199 /\ GfPow(119) = 147 /\ GfPow(120) = 59
  <2>1. /\ Twice(129) = 31 /\ Twice(31) = 62 /\ Twice(62) = 124 /\ Twice(124) = 248
        /\ Twice(248) = 237 /\ Twice(237) = 199 /\ Twice(199) = 147 /\ Twice(147) = 59
    BY DEF Twice, Digits
  <2> QED
    BY <1>16, <1>2, <2>1
<1>18. /\ GfPow(121) = 118 /\ GfPow(122) = 236 /\ GfPow(123) = 197 /\ GfPow(124) = 151
       /\ GfPow(125) = 51 /\ GfPow(126) = 102 /\ GfPow(127) = 204 /\ GfPow(128) = 133
  <2>1. /\ Twice(59) = 118 /\ Twice(118) = 236 /\ Twice(236) = 197 /\ Twice(197) = 151
        /\ Twice(151) = 51 /\ Twice(51) = 102 /\ Twice(102) = 204 /\ Twice(204) = 133
    BY DEF Twice, Digits
  <2> QED
    BY <1>17, <1>2, <2>1
<1>19. /\ GfPow(129) = 23 /\ GfPow(130) = 46 /\ GfPow(131) = 92 /\ GfPow(132) = 184
       /\ GfPow(133) = 109 /\ GfPow(134) = 218 /\ GfPow(135) = 169 /\ GfPow(136) = 79
  <2>1. /\ Twice(133) = 23 /\ Twice(23) = 46 /\ Twice(46) = 92 /\ Twice(92) = 184
        /\ Twice(184) = 109 /\ Twice(109) = 218 /\ Twice(218) = 169 /\ Twice(169) = 79
    BY DEF Twice, Digits
  <2> QED
    BY <1>18, <1>2, <2>1
<1>20. /\ GfPow(137) = 158 /\ GfPow(138) = 33 /\ GfPow(139) = 66 /\ GfPow(140) = 132
       /\ GfPow(141) = 21 /\ GfPow(142) = 42 /\ GfPow(143) = 84 /\ GfPow(144) = 168
  <2>1. /\ Twice(79) = 158 /\ Twice(158) = 33 /\ Twice(33) = 66 /\ Twice(66) = 132
        /\ Twice(132) = 21 /\ Twice(21) = 42 /\ Twice(42) = 84 /\ Twice(84) = 168
    BY DEF Twice, Digits
  <2> QED
    BY <1>19, <1>2, <2>1
<1>21. /\ GfPow(145) = 77 /\ GfPow(146) = 154 /\ GfPow(147) = 41 /\ GfPow(148) = 82
       /\ GfPow(149) = 164 /\ GfPow(150) = 85 /\ GfPow(151) = 170 /\ GfPow(152) = 73
  <2>1. /\ Twice(168) = 77 /\ Twice(77) = 154 /\ Twice(154) = 41 /\ Twice(41) = 82
        /\ Twice(82) = 164 /\ Twice(164) = 85 /\ Twice(85) = 170 /\ Twice(170) = 73
    BY DEF Twice, Digits
  <2> QED
    BY <1>20, <1>2, <2>1
<1>22. /\ GfPow(153) = 146 /\ GfPow(154) = 57 /\ GfPow(155) = 114 /\ GfPow(156) = 228
       /\ GfPow(157) = 213 /\ GfPow(158) = 183 /\ GfPow(159) = 115 /\ GfPow(160) = 230
  <2>1. /\ Twice(73) = 146 /\ Twice(146) = 57 /\ Twice(57) = 114 /\ Twice(114) = 228
        /\ Twice(228) = 213 /\ Twice(213) = 183 /\ Twice(183) = 115 /\ Twice(115) = 230
    BY DEF Twice, Digits
  <2> QED
    BY <1>21, <1>2, <2>1
<1>23. /\ GfPow(161) = 209 /\ GfPow(162) = 191 /\ GfPow(163) = 99 /\ GfPow(164) = 198
       /\ GfPow(165) = 145 /\ GfPow(166) = 63 /\ GfPow(167) = 126 /\ GfPow(168) = 252
  <2>1. /\ Twice(230) = 209 /\ Twice(209) = 191 /\ Twice(191) = 99 /\ Twice(99) = 198
        /\ Twice(198) = 145 /\ Twice(145) = 63 /\ Twice(63) = 126 /\ Twice(126) = 252
    BY DEF Twice, Digits
  <2> QED
    BY <1>22, <1>2, <2>1
<1>24. /\ GfPow(169) = 229 /\ GfPow(170) = 215 /\ GfPow(171) = 179 /\ GfPow(172) = 123
       /\ GfPow(173) = 246 /\ GfPow(174) = 241 /\ GfPow(175) = 255 /\ GfPow(176) = 227
  <2>1. /\ Twice(252) = 229 /\ Twice(229) = 215 /\ Twice(215) = 179 /\ Twice(179) = 123
        /\ Twice(123) = 246 /\ Twice(246) = 241 /\ Twice(241) = 255 /\ Twice(255) = 227
    BY DEF Twice, Digits
  <2> QED
    BY <1>23, <1>2, <2>1
<1>25. /\ GfPow(177) = 219 /\ GfPow(178) = 171 /\ GfPow(179) = 75 /\ GfPow(180) = 150
       /\ GfPow(181) = 49 /\ GfPow(182) = 98 /\ GfPow(183) = 196 /\ GfPow(184) = 149
  <2>1. /\ Twice(227) = 219 /\ Twice(219) = 171 /\ Twice(171) = 75 /\ Twice(75) = 150
        /\ Twice(150) = 49 /\ Twice(49) = 98 /\ Twice(98) = 196 /\ Twice(196) = 149
    BY DEF Twice, Digits
  <2> QED
    BY <1>24, <1>2, <2>1
<1>26. /\ GfPow(185) = 55 /\ GfPow(186) = 110 /\ GfPow(187) = 220 /\ GfPow(188) = 165
       /\ GfPow(189) = 87 /\ GfPow(190) = 174 /\ GfPow(191) = 65 /\ GfPow(192) = 130
  <2>1. /\ Twice(149) = 55 /\ Twice(55) = 110 /\ Twice(110) = 220 /\ Twice(220) = 165
        /\ Twice(165) = 87 /\ Twice(87) = 174 /\ Twice(174) = 65 /\ Twice(65) = 130
    BY DEF Twice, Digits
  <2> QED
    BY <1>25, <1>2, <2>1
<1>27. /\ GfPow(193) = 25 /\ GfPow(194) = 50 /\ GfPow(195) = 100 /\ GfPow(196) = 200
       /\ GfPow(197) = 141 /\ GfPow(198) = 7 /\ GfPow(199) = 14 /\ GfPow(200) = 28
  <2>1. /\ Twice(130) = 25 /\ Twice(25) = 50 /\ Twice(50) = 100 /\ Twice(100) = 200
        /\ Twice(200) = 141 /\ Twice(141) = 7 /\ Twice(7) = 14 /\ Twice(14) = 28
    BY DEF Twice, Digits
  <2> QED
    BY <1>26, <1>2, <2>1
<1>28. /\ GfPow(201) = 56 /\ GfPow(202) = 112 /\ GfPow(203) = 224 /\ GfPow(204) = 221
       /\ GfPow(205) = 167 /\ GfPow(206) = 83 /\ GfPow(207) = 166 /\ GfPow(208) = 81
  <2>1. /\ Twice(28) = 56 /\ Twice(56) = 112 /\ Twice(112) = 224 /\ Twice(224) = 221
        /\ Twice(221) = 167 /\ Twice(167) = 83 /\ Twice(83) = 166 /\ Twice(166) = 81
    BY DEF Twice, Digits
  <2> QED
    BY <1>27, <1>2, <2>1
<1>29. /\ GfPow(209) = 162 /\ GfPow(210) = 89 /\ GfPow(211) = 178 /\ GfPow(212) = 121
       /\ GfPow(213) = 242 /\ GfPow(214) = 249 /\ GfPow(215) = 239 /\ GfPow(216) = 195
  <2>1. /\ Twice(81) = 162 /\ Twice(162) = 89 /\ Twice(89) = 178 /\ Twice(178) = 121
        /\ Twice(121) = 242 /\ Twice(242) = 249 /\ Twice(249) = 239 /\ Twice(239) = 195
    BY DEF Twice, Digits
  <2> QED
    BY <1>28, <1>2, <2>1
<1>30. /\ GfPow(217) = 155 /\ GfPow(218) = 43 /\ GfPow(219) = 86 /\ GfPow(220) = 172
       /\ GfPow(221) = 69 /\ GfPow(222) = 138 /\ GfPow(223) = 9 /\ GfPow(224) = 18
  <2>1. /\ Twice(195) = 155 /\ Twice(155) = 43 /\ Twice(43) = 86 /\ Twice(86) = 172
        /\ Twice(172) = 69 /\ Twice(69) = 138 /\ Twice(138) = 9 /\ Twice(9) = 18
    BY DEF Twice, Digits
  <2> QED
    BY <1>29, <1>2, <2>1
<1>31. /\ GfPow(225) = 36 /\ GfPow(226) = 72 /\ GfPow(227) = 144 /\ GfPow(228) = 61
       /\ GfPow(229) = 122 /\ GfPow(230) = 244 /\ GfPow(231) = 245 /\ GfPow(232) = 247
  <2>1. /\ Twice(18) = 36 /\ Twice(36) = 72 /\ Twice(72) = 144 /\ Twice(144) = 61
        /\ Twice(61) = 122 /\ Twice(122) = 244 /\ Twice(244) = 245 /\ Twice(245) = 247
    BY DEF Twice, Digits
  <2> QED
    BY <1>30, <1>2, <2>1
<1>32. /\ GfPow(233) = 243 /\ GfPow(234) = 251 /\ GfPow(235) = 235 /\ GfPow(236) = 203
       /\ GfPow(237) = 139 /\ GfPow(238) = 11 /\ GfPow(239) = 22 /\ GfPow(240) = 44
  <2>1. /\ Twice(247) = 243 /\ Twice(243) = 251 /\ Twice(251) = 235 /\ Twice(235) = 203
        /\ Twice(203) = 139 /\ Twice(139) = 11 /\ Twice(11) = 22 /\ Twice(22) = 44
    BY DEF Twice, Digits
  <2> QED
    BY <1>31, <1>2, <2>1
<1>33. /\ GfPow(241) = 88 /\ GfPow(242) = 176 /\ GfPow(243) = 125 /\ GfPow(244) = 250
       /\ GfPow(245) = 233 /\ GfPow(246) = 207 /\ GfPow(247) = 131 /\ GfPow(248) = 27
  <2>1. /\ Twice(44) = 88 /\ Twice(88) = 176 /\ Twice(176) = 125 /\ Twice(125) = 250
        /\ Twice(250) = 233 /\ Twice(233) = 207 /\ Twice(207) = 131 /\ Twice(131) = 27
    BY DEF Twice, Digits
  <2> QED
    BY <1>32, <1>2, <2>1
<1>34. /\ GfPow(249) = 54 /\ GfPow(250) = 108 /\ GfPow(251) = 216 /\ GfPow(252) = 173
       /\ GfPow(253) = 71 /\ GfPow(254) = 142
  <2>1. /\ Twice(27) = 54 /\ Twice(54) = 108 /\ Twice(108) = 216 /\ Twice(216) = 173
        /\ Twice(173) = 71 /\ Twice(71) = 142
    BY DEF Twice, Digits
  <2> QED
    BY <1>33, <1>2, <2>1
<1>35. SUFFICES ASSUME NEW k \in 1..254 PROVE GfPow(k) # 1
  OBVIOUS
<1> QED
  BY <1>3, <1>4, <1>5, <1>6, <1>7, <1>8, <1>9, <1>10, <1>11, <1>12, <1>13, <1>14, <1>15,
  <1>16, <1>17, <1>18, <1>19, <1>20, <1>21, <1>22, <1>23, <1>24, <1>25, <1>26, <1>27, <1>28,
  <1>29, <1>30, <1>31, <1>32, <1>33, <1>34

-------------------------------------------------------------------------------
(* What division undoes.                                                   *)

\* Multiplying by a power keeps bytes apart.
LEMMA PowerCancels ==
    ASSUME IsExclusiveOr
    PROVE  \A k \in 0..254 : \A x, y \in Byte : GfMul(GfPow(k), x) = GfMul(GfPow(k), y) => x = y
<1> DEFINE Apart(k) == \A x, y \in Byte : GfMul(GfPow(k), x) = GfMul(GfPow(k), y) => x = y
           failing == {k \in 0..254 : ~Apart(k)}
<1>1. Apart(0)
  BY PowIs, MulOne
<1>2. ASSUME NEW k \in 1..254, Apart(k - 1) PROVE Apart(k)
  <2> SUFFICES ASSUME NEW x \in Byte, NEW y \in Byte, GfMul(GfPow(k), x) = GfMul(GfPow(k), y)
               PROVE  x = y
    OBVIOUS
  <2> DEFINE p == GfPow(k - 1)
  <2>1. p \in Byte /\ GfPow(k) = Doubled(p)
    <3>1. k - 1 \in 0..254
      OBVIOUS
    <3> QED
      BY <3>1, PowIs
  <2>2. GfMul(p, x) \in Byte /\ GfMul(p, y) \in Byte
    BY <2>1, GfMulIs
  <2>3. Doubled(GfMul(p, x)) = Doubled(GfMul(p, y))
    BY <2>1, MulDoubled
  <2>4. GfMul(p, x) = GfMul(p, y)
    BY <2>2, <2>3, DoubledApart
  <2> QED
    BY <1>2, <2>4
<1> HIDE DEF Apart
<1>3. failing = {}
  <2> SUFFICES ASSUME failing # {} PROVE FALSE
    OBVIOUS
  <2>1. failing \in SUBSET Nat
    OBVIOUS
  <2>2. PICK k \in failing : \A l \in failing : k <= l
    <3> HIDE DEF failing
    <3> QED
      BY <2>1, LeastNumber
  <2>3. k \in 1..254 /\ k - 1 \in 0..254 /\ ~(k <= k - 1) /\ ~Apart(k)
    BY <1>1, <2>2
  <2>4. Apart(k - 1)
    BY <2>2, <2>3
  <2> QED
    BY <1>2, <2>3, <2>4
<1> QED
  BY <1>3 DEF Apart

\* The powers are different.
LEMMA PowersApart ==
    ASSUME IsExclusiveOr
    PROVE  \A i, j \in 0..254 : i < j => GfPow(i) # GfPow(j)
<1> DEFINE Apart(i) == \A j \in 0..254 : i < j => GfPow(i) # GfPow(j)
           failing == {i \in 0..254 : ~Apart(i)}
<1>1. Apart(0)
  <2>1. \A j \in 0..254 : 0 < j => j \in 1..254
    OBVIOUS
  <2> QED
    BY <2>1, PowIs, PowerTable
<1>2. ASSUME NEW i \in 1..254, Apart(i - 1) PROVE Apart(i)
  <2> SUFFICES ASSUME NEW j \in 0..254, i < j, GfPow(i) = GfPow(j) PROVE FALSE
    OBVIOUS
  <2>1. /\ i - 1 \in 0..254 /\ j - 1 \in 0..254 /\ i - 1 < j - 1 /\ j \in 1..254
    OBVIOUS
  <2>2. /\ GfPow(i) = Doubled(GfPow(i - 1)) /\ GfPow(j) = Doubled(GfPow(j - 1))
        /\ GfPow(i - 1) \in Byte /\ GfPow(j - 1) \in Byte
    BY <2>1, PowIs
  <2>3. GfPow(i - 1) = GfPow(j - 1)
    BY <2>2, DoubledApart
  <2> QED
    BY <1>2, <2>1, <2>3
<1> HIDE DEF Apart
<1>3. failing = {}
  <2> SUFFICES ASSUME failing # {} PROVE FALSE
    OBVIOUS
  <2>1. failing \in SUBSET Nat
    OBVIOUS
  <2>2. PICK k \in failing : \A l \in failing : k <= l
    <3> HIDE DEF failing
    <3> QED
      BY <2>1, LeastNumber
  <2>3. k \in 1..254 /\ k - 1 \in 0..254 /\ ~(k <= k - 1) /\ ~Apart(k)
    BY <1>1, <2>2
  <2>4. Apart(k - 1)
    BY <2>2, <2>3
  <2> QED
    BY <1>2, <2>3, <2>4
<1> QED
  BY <1>3 DEF Apart

\* No power is zero.
LEMMA PowersPositive ==
    ASSUME IsExclusiveOr, NEW k \in 0..254
    PROVE  GfPow(k) \in 1..255
<1>1. GfPow(k) \in Byte /\ 1 \in Byte /\ 0 \in Byte
  <2>1. 1 \in Byte /\ 0 \in Byte
    BY DEF Byte
  <2> QED
    BY <2>1, PowIs
<1>2. ASSUME GfPow(k) = 0 PROVE FALSE
  <2>1. GfMul(0, 1) = 0 /\ GfMul(0, 0) = 0
    <3>1. GfMul(0, 1) = 0
      BY <1>1, MulOne
    <3>2. GfMul(0, 0) = 0
      BY <1>1, GfMulIs
    <3> QED
      BY <3>1, <3>2
  <2>2. 1 = 0
    BY <1>1, <1>2, <2>1, PowerCancels
  <2> QED
    BY <2>2
<1> QED
  BY <1>1, <1>2 DEF Byte

\* Every byte but zero is a power.
LEMMA PowersAll ==
    ASSUME IsExclusiveOr, NEW b \in 1..255
    PROVE  \E k \in 0..254 : b = GfPow(k)
<1> DEFINE f == [k \in 0..254 |-> GfPow(k)]
           T == 0..254
           S == 1..255
<1>1. \A k \in T : f[k] = GfPow(k) /\ GfPow(k) \in S
  BY PowersPositive
<1>2. f \in [T -> S]
  <2>1. f = [k \in T |-> f[k]]
    OBVIOUS
  <2> HIDE DEF f, T, S
  <2>2. \A k \in T : f[k] \in S
    BY <1>1
  <2> QED
    BY <2>1, <2>2
<1>3. ASSUME NEW i \in T, NEW j \in T, f[i] = f[j] PROVE i = j
  <2>1. GfPow(i) = GfPow(j)
    BY <1>1, <1>3
  <2>2. ~(i < j) /\ ~(j < i)
    BY <2>1, PowersApart
  <2> QED
    BY <2>2
<1>4. IsFiniteSet(S) /\ Cardinality(S) = 255 /\ Cardinality(T) = 255
  <2>1. IsFiniteSet(S) /\ Cardinality(S) = IF 1 > 255 THEN 0 ELSE 255 - 1 + 1
    <3>1. 1 \in Int /\ 255 \in Int
      OBVIOUS
    <3> QED
      BY <3>1, FS_Interval
  <2>2. Cardinality(T) = IF 0 > 254 THEN 0 ELSE 254 - 0 + 1
    <3>1. 0 \in Int /\ 254 \in Int
      OBVIOUS
    <3> QED
      BY <3>1, FS_Interval
  <2> HIDE DEF S, T
  <2> QED
    BY <2>1, <2>2
<1> HIDE DEF f, T
<1>5. f \in Injection(T, S)
  <2> HIDE DEF S
  <2> QED
    BY <1>2, <1>3 DEF Injection, IsInjective
<1>6. f \in Surjection(T, S)
  <2> HIDE DEF S
  <2> QED
    BY <1>4, <1>5, FS_Injection
<1>7. \E k \in T : f[k] = b
  <2> HIDE DEF S
  <2>1. b \in S
    BY DEF S
  <2> QED
    BY <1>6, <2>1 DEF Surjection
<1> QED
  BY <1>1, <1>7 DEF T

\* Division by a byte other than zero undoes the product.
LEMMA GfDivIs ==
    ASSUME IsExclusiveOr, NEW b \in 1..255, NEW d \in Byte
    PROVE  GfDiv(GfMul(b, d), b) = d
<1>1. b \in Byte
  BY DEF Byte
<1>2. PICK k \in 0..254 : b = GfPow(k)
  BY PowersAll
<1>3. \A x \in Byte : GfMul(x, b) = GfMul(b, x)
  BY <1>1, MulCommutes
<1>4. \A x \in Byte : GfMul(x, b) = GfMul(b, d) <=> x = d
  BY <1>2, <1>3, PowerCancels
<1> DEFINE x == CHOOSE x \in 0..255 : GfMul(x, b) = GfMul(b, d)
<1>5. d \in 0..255 /\ GfMul(d, b) = GfMul(b, d)
  BY <1>3 DEF Byte
<1>6. x \in 0..255 /\ GfMul(x, b) = GfMul(b, d)
  BY <1>5
<1> HIDE DEF x
<1>7. x = d
  BY <1>4, <1>6 DEF Byte
<1> QED
  BY <1>7 DEF GfDiv, x

\* Two unknown bytes of a row, from their sum and their weighed sum.
LEMMA TwoUnknown ==
    ASSUME IsExclusiveOr, NEW x \in Byte, NEW y \in Byte, x # y, NEW d \in Byte, NEW e \in Byte
    PROVE  GfDiv(ByteXor(ByteXor(GfMul(x, d), GfMul(y, e)), GfMul(y, ByteXor(d, e))), ByteXor(x, y)) = d
<1> DEFINE s == ByteXor(x, y)
           xd == GfMul(x, d)
           yd == GfMul(y, d)
           ye == GfMul(y, e)
<1>1. s \in Byte /\ ByteXor(d, e) \in Byte /\ xd \in Byte /\ yd \in Byte /\ ye \in Byte /\ 0 \in Byte
  BY ByteLaws, GfMulIs
<1>2. s \in 1..255
  <2>1. s # 0
    BY XorCancels
  <2> QED
    BY <1>1, <2>1 DEF Byte
<1>3. GfMul(y, ByteXor(d, e)) = ByteXor(yd, ye)
  <2>1. GfMul(y, ByteXor(d, e)) = GfMul(ByteXor(d, e), y)
    BY <1>1, MulCommutes
  <2>2. GfMul(ByteXor(d, e), y) = ByteXor(GfMul(d, y), GfMul(e, y))
    BY MulSum
  <2>3. GfMul(d, y) = yd /\ GfMul(e, y) = ye
    BY MulCommutes
  <2> QED
    BY <2>1, <2>2, <2>3
<1>4. GfMul(s, d) = ByteXor(xd, yd)
  BY MulSum
<1> HIDE DEF s, xd, yd, ye
<1>5. ByteXor(ByteXor(xd, ye), ByteXor(yd, ye)) = ByteXor(xd, yd)
  <2>1. ByteXor(ByteXor(xd, ye), ByteXor(yd, ye)) = ByteXor(ByteXor(xd, yd), ByteXor(ye, ye))
    BY <1>1, XorCancels
  <2>2. ByteXor(ye, ye) = 0 /\ ByteXor(xd, yd) \in Byte
    BY <1>1, ByteLaws
  <2> QED
    BY <2>1, <2>2, ByteLaws
<1>6. GfDiv(GfMul(s, d), s) = d
  BY <1>2, GfDivIs
<1> QED
  BY <1>3, <1>4, <1>5, <1>6 DEF s, xd, yd, ye

-------------------------------------------------------------------------------
(* An array of whole rows.                                                 *)
Striped(array) == array.level \in {"Raid0", "Raid5", "Raid6"}

\* What each member holds behind the data offset, and how many rows that is.
Size(array) == Len(array.data) \div Width(array)
Rows(array) == Size(array) \div array.stripe

\* Bytes are none of the marks a read can give.
LEMMA MarksAre == EndOfMember \notin Byte /\ RaidFailed \notin Byte
BY DEF EndOfMember, RaidFailed, Byte

\* An array has whole rows of at least one column of data.
LEMMA ArrayIs ==
    ASSUME NEW array, IsArray(array)
    PROVE  /\ array.n \in Nat /\ array.n >= 2 /\ array.stripe \in Nat \ {0} /\ array.offset \in Nat
           /\ Width(array) \in Nat \ {0} /\ Width(array) <= array.n
           /\ array.data \in Seq(Byte) /\ Len(array.data) \in Nat
           /\ Size(array) \in Nat \ {0} /\ Len(array.data) = Width(array) * Size(array)
           /\ Striped(array) => Rows(array) \in Nat \ {0} /\ Size(array) = Rows(array) * array.stripe
<1> DEFINE n == array.n
           w == Width(array)
           u == Unit(array)
           l == Len(array.data)
<1>1. /\ n \in Nat /\ n >= 2 /\ array.stripe \in Nat \ {0} /\ array.offset \in Nat
      /\ array.data \in Seq(Byte) /\ array.data # <<>> /\ l % (w * u) = 0
  BY DEF IsArray
<1>2. w \in Nat \ {0} /\ w <= n
  <2>1. CASE array.level = "Raid5"
    BY <1>1, <2>1 DEF Width, IsArray
  <2>2. CASE array.level = "Raid6"
    <3>1. n \in Nat /\ n >= 4
      <4>1. array.n \in 4..256
        BY <2>2 DEF IsArray
      <4> QED
        BY <4>1
    <3>2. w = n - 2
      BY <2>2 DEF Width
    <3> HIDE DEF n, w
    <3> QED
      BY <3>1, <3>2
  <2>3. CASE array.level = "Raid1"
    BY <1>1, <2>3 DEF Width
  <2>4. CASE array.level \in {"Raid0", "Jbod"}
    BY <1>1, <2>4 DEF Width
  <2> QED
    BY <2>1, <2>2, <2>3, <2>4 DEF IsArray
<1>3. u \in Nat \ {0} /\ (Striped(array) => u = array.stripe)
  BY <1>1 DEF Unit, Striped
<1>4. l \in Nat /\ l # 0
  BY <1>1
<1> HIDE DEF n, w, u, l
<1> DEFINE q == l \div (w * u)
<1>5. q \in Nat \ {0} /\ l = (w * u) * q
  <2> DEFINE wu == w * u
  <2>1. wu \in Nat \ {0}
    BY <1>2, <1>3
  <2> HIDE DEF wu
  <2>2. l \div wu \in Nat /\ l = wu * (l \div wu) + (l % wu)
    BY <1>4, <2>1, DivMod
  <2>3. l = wu * (l \div wu) /\ l \div wu # 0
    <3>1. l % wu = 0
      BY <1>1 DEF wu
    <3> QED
      BY <1>4, <2>1, <2>2, <3>1
  <2> QED
    BY <2>2, <2>3 DEF wu
<1> HIDE DEF q
<1>6. l \div w = u * q /\ l = w * (u * q) /\ u * q \in Nat \ {0}
  <2> DEFINE uq == u * q
  <2>1. uq \in Nat \ {0} /\ l = w * uq
    BY <1>2, <1>3, <1>5
  <2> HIDE DEF uq
  <2>2. (w * uq + 0) \div w = uq /\ w * uq + 0 = w * uq
    BY <1>2, <2>1, DivUnique
  <2> QED
    BY <2>1, <2>2 DEF uq
<1>7. Striped(array) => Size(array) \div array.stripe = q /\ Size(array) = q * array.stripe
  <2> SUFFICES ASSUME Striped(array)
               PROVE  Size(array) \div array.stripe = q /\ Size(array) = q * array.stripe
    OBVIOUS
  <2>1. u = array.stripe /\ Size(array) = u * q
    BY <1>3, <1>6 DEF Size, l, w
  <2>2. (u * q + 0) \div u = q /\ u * q + 0 = u * q /\ u * q = q * u
    BY <1>3, <1>5, DivUnique
  <2> QED
    BY <2>1, <2>2
<1> QED
  BY <1>1, <1>2, <1>4, <1>5, <1>6, <1>7 DEF Size, Rows, l, n, w

\* A remainder below its divisor.
LEMMA RemIs ==
    ASSUME NEW n \in Nat \ {0}, NEW r \in 0..(n - 1)
    PROVE  r % n = r
<1>1. (n * 0 + r) % n = r
  BY DivUnique
<1>2. n * 0 + r = r
  OBVIOUS
<1> QED
  BY <1>1, <1>2

\* The k-th column from the right, moving to the left from row to row.
LEMMA Rotates ==
    ASSUME NEW n \in Nat \ {0}, NEW row \in Nat, NEW k \in 1..n, NEW j \in 1..2,
           row % n <= n - k \/ j = 2
    PROVE  (n * (row + j) - k - row) % n
             = IF row % n <= n - k THEN n - k - (row % n) ELSE 2 * n - k - (row % n)
<1> DEFINE a == row \div n
           m == row % n
<1>1. a \in Nat /\ m \in 0..(n - 1) /\ row = n * a + m
  BY DivMod
<1> HIDE DEF a, m
<1>2. row - a \in Nat
  <2> DEFINE y == n * a
  <2>1. y \in Nat /\ y >= a /\ row = y + m
    <3>1. n * a >= 1 * a
      <4>1. n >= 1
        OBVIOUS
      <4>2. a * n >= a * 1
        BY <1>1, <4>1, ProductGrows
      <4> QED
        BY <1>1, <4>2
    <3> QED
      BY <1>1, <3>1
  <2> HIDE DEF y
  <2> QED
    BY <1>1, <2>1
<1> DEFINE b == row - a
<1>3. b \in Nat
  BY <1>2
<1>4. n * (row + j) - k - row = n * (b + j) - k - m
  <2>1. n * (row + j) = n * row + n * j /\ n * (b + j) = n * row - n * a + n * j
    BY <1>1
  <2> DEFINE x == n * row
             y == n * a
             z == n * j
  <2>2. x \in Int /\ y \in Int /\ z \in Int /\ n * (row + j) = x + z /\ n * (b + j) = x - y + z
        /\ row = y + m
    BY <1>1, <2>1
  <2> HIDE DEF x, y, z, b
  <2> QED
    BY <1>1, <2>2
<1> HIDE DEF b
<1>5. CASE m <= n - k
  <2> DEFINE q == b + j - 1
             r == n - k - m
  <2>1. q \in Nat /\ r \in 0..(n - 1) /\ b + j = q + 1
    BY <1>1, <1>3, <1>5
  <2>2. n * (b + j) - k - m = n * q + r
    <3>1. n * (b + j) = n * q + n
      BY <2>1
    <3> DEFINE y == n * q
    <3>2. y \in Int /\ n * (b + j) = y + n
      BY <2>1, <3>1
    <3> HIDE DEF y
    <3>3. n * (b + j) - k - m = y + (n - k - m)
      BY <1>1, <3>2
    <3> QED
      BY <3>3 DEF y
  <2> HIDE DEF q, r
  <2>3. (n * q + r) % n = r
    BY <2>1, DivUnique
  <2> QED
    BY <1>4, <1>5, <2>2, <2>3 DEF r, m
<1>6. CASE ~(m <= n - k)
  <2>0. j = 2
    BY <1>6 DEF m
  <2> DEFINE r == 2 * n - k - m
  <2>1. r \in 0..(n - 1)
    BY <1>1, <1>6
  <2>2. n * (b + j) - k - m = n * b + r
    <3>1. n * (b + j) = n * b + 2 * n
      BY <1>3, <2>0
    <3> DEFINE y == n * b
    <3>2. y \in Int /\ n * (b + j) = y + 2 * n
      BY <1>3, <3>1
    <3> HIDE DEF y
    <3>3. n * (b + j) - k - m = y + (2 * n - k - m)
      BY <1>1, <3>2
    <3> QED
      BY <3>3 DEF y
  <2> HIDE DEF r
  <2>3. (n * b + r) % n = r
    BY <1>3, <2>1, DivUnique
  <2> QED
    BY <1>4, <1>6, <2>2, <2>3 DEF r, m
<1> QED
  BY <1>5, <1>6

(* The parities of a row are where the program looks for them.             *)
LEMMA ParityIs ==
    ASSUME NEW n \in Nat, n >= 2, NEW row \in Nat
    PROVE  /\ ParityColumn(n, row) = n - 1 - (row % n) /\ row % n \in 0..(n - 1)
           /\ ParityColumn(n, row) = (n * (row + 1) - 1 - row) % n
           /\ ParityColumn(n, row) = (n * (row + 2) - 1 - row) % n
           /\ WordModulo(n) = 0 =>
                /\ SecondParityColumn(n, row) = IF row % n <= n - 2 THEN n - 2 - (row % n) ELSE n - 1
                /\ SecondParityColumn(n, row) = (n * (row + 2) - 2 - row) % n
<1> DEFINE m == row % n
<1>1. m \in 0..(n - 1)
  BY DivMod
<1>2. (n - 1 - m) % n = n - 1 - m
  <2> DEFINE r == n - 1 - m
  <2> HIDE DEF m
  <2>1. r \in 0..(n - 1)
    BY <1>1
  <2> HIDE DEF r
  <2>2. r % n = r
    BY <2>1, RemIs
  <2> QED
    BY <2>2 DEF r
<1>3. /\ (n * (row + 1) - 1 - row) % n = n - 1 - m
      /\ (n * (row + 2) - 1 - row) % n = n - 1 - m
  <2>1. 1 \in 1..n /\ 1 \in 1..2 /\ 2 \in 1..2 /\ m <= n - 1 /\ n \in Nat \ {0}
    BY <1>1
  <2> QED
    BY <2>1, Rotates
<1>4. (n * (row + 2) - 2 - row) % n = IF m <= n - 2 THEN n - 2 - m ELSE n - 1
  <2>1. 2 \in 1..n /\ 2 \in 1..2 /\ n \in Nat \ {0}
    OBVIOUS
  <2>2. (n * (row + 2) - 2 - row) % n = IF m <= n - 2 THEN n - 2 - m ELSE 2 * n - 2 - m
    BY <2>1, Rotates
  <2> HIDE DEF m
  <2>3. ~(m <= n - 2) => 2 * n - 2 - m = n - 1
    BY <1>1
  <2> QED
    BY <2>2, <2>3
<1>5. WordModulo(n) = 0 => SecondParityColumn(n, row) = IF m <= n - 2 THEN n - 2 - m ELSE n - 1
  <2> SUFFICES ASSUME WordModulo(n) = 0
               PROVE  SecondParityColumn(n, row) = IF m <= n - 2 THEN n - 2 - m ELSE n - 1
    OBVIOUS
  <2>1. (WordModulo(n) + n - 1) % n = n - 1
    <3>1. WordModulo(n) + n - 1 = n - 1
      OBVIOUS
    <3>2. (n - 1) % n = n - 1
      <4> DEFINE r == n - 1
      <4>1. r \in 0..(n - 1)
        OBVIOUS
      <4> HIDE DEF r
      <4>2. r % n = r
        BY <4>1, RemIs
      <4> QED
        BY <4>2 DEF r
    <3> QED
      BY <3>1, <3>2
  <2> QED
    BY <2>1 DEF SecondParityColumn
<1> QED
  BY <1>1, <1>2, <1>3, <1>4, <1>5 DEF ParityColumn

(* The parities of a row of each level.                                    *)
Parities(array, row) ==
  CASE array.level = "Raid5" -> {ParityColumn(array.n, row)}
    [] array.level = "Raid6" -> {ParityColumn(array.n, row), SecondParityColumn(array.n, row)}
    [] OTHER -> {}

\* The parity columns the array was written with are those the code looks in.
LEMMA ParitiesAre ==
    ASSUME NEW array, IsArray(array), NEW row \in Nat
    PROVE  ParityColumns(array, row) = Parities(array, row)
<1> DEFINE n == array.n
<1>1. n \in Nat /\ n >= 2 /\ (array.level = "Raid6" => WordModulo(n) = 0)
  BY DEF IsArray
<1>2. CASE array.level = "Raid5"
  BY <1>1, <1>2, ParityIs DEF ParityColumns, Parities
<1>3. CASE array.level = "Raid6"
  <2>1. ParityColumns(array, row) = {(n * (row + 2) - k - row) % n : k \in {1, 2}}
    BY <1>3 DEF ParityColumns
  <2>2. /\ ParityColumn(n, row) = (n * (row + 2) - 1 - row) % n
        /\ SecondParityColumn(n, row) = (n * (row + 2) - 2 - row) % n
    BY <1>1, <1>3, ParityIs
  <2>3. Parities(array, row) = {ParityColumn(n, row), SecondParityColumn(n, row)}
    BY <1>3 DEF Parities
  <2> HIDE DEF n
  <2> QED
    BY <2>1, <2>2, <2>3
<1>4. CASE array.level \notin {"Raid5", "Raid6"}
  BY <1>4 DEF ParityColumns, Parities
<1> QED
  BY <1>2, <1>3, <1>4

\* The two parities of a RAID 6 row stand next to each other, round the corner in
\* the last row of a rotation.
LEMMA TwoParities ==
    ASSUME NEW array, IsArray(array), array.level = "Raid6", NEW row \in Nat
    PROVE  LET p == ParityColumn(array.n, row)
               q == SecondParityColumn(array.n, row)
           IN  /\ array.n \in 4..256
               /\ p \in 0..(array.n - 1) /\ q \in 0..(array.n - 1) /\ p # q
               /\ p = (array.n * (row + 1) - 1 - row) % array.n
               /\ ParityColumns(array, row) = {p, q}
<1> DEFINE n == array.n
           p == ParityColumn(n, row)
           q == SecondParityColumn(n, row)
           m == row % n
<1>1. n \in 4..256 /\ n \in Nat /\ n >= 2 /\ WordModulo(n) = 0
  BY DEF IsArray
<1>2. ParityColumns(array, row) = {p, q}
  BY ParitiesAre DEF Parities
<1>3. /\ p = n - 1 - m /\ m \in 0..(n - 1) /\ p = (n * (row + 1) - 1 - row) % n
      /\ q = IF m <= n - 2 THEN n - 2 - m ELSE n - 1
  BY <1>1, ParityIs
<1> HIDE DEF p, q, m, n
<1>4. p \in 0..(n - 1) /\ q \in 0..(n - 1) /\ p # q
  BY <1>1, <1>3
<1> QED
  BY <1>1, <1>2, <1>3, <1>4 DEF n, p, q

\* The parity of a RAID 5 row.
LEMMA OneParity ==
    ASSUME NEW array, IsArray(array), array.level = "Raid5", NEW row \in Nat
    PROVE  LET p == ParityColumn(array.n, row)
           IN  /\ array.n \in Nat /\ array.n >= 3
               /\ p \in 0..(array.n - 1)
               /\ p = (array.n * (row + 1) - 1 - row) % array.n
               /\ ParityColumns(array, row) = {p}
<1> DEFINE n == array.n
           p == ParityColumn(n, row)
           m == row % n
<1>1. n \in Nat /\ n >= 2 /\ n >= 3
  BY DEF IsArray
<1>2. ParityColumns(array, row) = {p}
  BY ParitiesAre DEF Parities
<1>3. p = n - 1 - m /\ m \in 0..(n - 1) /\ p = (n * (row + 1) - 1 - row) % n
  BY <1>1, ParityIs
<1> HIDE DEF p, m, n
<1>4. p \in 0..(n - 1)
  BY <1>1, <1>3
<1> QED
  BY <1>1, <1>2, <1>3, <1>4 DEF n, p

\* The columns below one, without one or two of them.
Below(c, p) == IF p < c THEN 1 ELSE 0

\* How many columns are below one.
LEMMA BelowColumn ==
    ASSUME NEW c \in Nat
    PROVE  IsFiniteSet(0..(c - 1)) /\ Cardinality(0..(c - 1)) = c
<1>1. IsFiniteSet(0..(c - 1)) /\ Cardinality(0..(c - 1)) = IF 0 > c - 1 THEN 0 ELSE (c - 1) - 0 + 1
  BY FS_Interval
<1> QED
  BY <1>1

\* How many of them are not a given one.
LEMMA BelowWithout ==
    ASSUME NEW c \in Nat, NEW p \in Nat
    PROVE  /\ IsFiniteSet((0..(c - 1)) \ {p})
           /\ Cardinality((0..(c - 1)) \ {p}) = c - Below(c, p)
<1> DEFINE S == 0..(c - 1)
<1>1. IsFiniteSet(S) /\ Cardinality(S) = c
  BY BelowColumn
<1>2. p \in S <=> p < c
  OBVIOUS
<1> HIDE DEF S
<1>3. IsFiniteSet(S \ {p}) /\ Cardinality(S \ {p}) = IF p \in S THEN Cardinality(S) - 1 ELSE Cardinality(S)
  BY <1>1, FS_RemoveElement
<1>4. Cardinality(S \ {p}) = c - Below(c, p)
  BY <1>1, <1>2, <1>3 DEF Below
<1> QED
  BY <1>3, <1>4 DEF S

\* How many of them are neither of two given ones.
LEMMA BelowWithoutTwo ==
    ASSUME NEW c \in Nat, NEW p \in Nat, NEW q \in Nat, p # q
    PROVE  Cardinality((0..(c - 1)) \ {p, q}) = c - Below(c, p) - Below(c, q)
<1> DEFINE S == (0..(c - 1)) \ {p}
<1>1. IsFiniteSet(S) /\ Cardinality(S) = c - Below(c, p)
  BY BelowWithout
<1>2. q \in S <=> q < c
  OBVIOUS
<1>3. (0..(c - 1)) \ {p, q} = S \ {q}
  OBVIOUS
<1> HIDE DEF S
<1>4. Cardinality(S \ {q}) = IF q \in S THEN Cardinality(S) - 1 ELSE Cardinality(S)
  BY <1>1, FS_RemoveElement
<1>5. Below(c, p) \in 0..1
  BY DEF Below
<1>6. Cardinality(S \ {q}) = c - Below(c, p) - Below(c, q)
  BY <1>1, <1>2, <1>4, <1>5 DEF Below
<1> QED
  BY <1>3, <1>6

\* The number of a column among the data columns.
LEMMA IndexIs ==
    ASSUME NEW array, IsArray(array), NEW row \in Nat, NEW c \in Nat
    PROVE  IndexIn(array, c, row)
             = CASE array.level = "Raid5" -> c - Below(c, ParityColumn(array.n, row))
                 [] array.level = "Raid6" -> c - Below(c, ParityColumn(array.n, row))
                                               - Below(c, SecondParityColumn(array.n, row))
                 [] OTHER -> c
<1> DEFINE p == ParityColumn(array.n, row)
           q == SecondParityColumn(array.n, row)
<1>1. CASE array.level = "Raid5"
  <2>1. p \in Nat /\ ParityColumns(array, row) = {p}
    BY <1>1, OneParity
  <2>2. IndexIn(array, c, row) = Cardinality((0..(c - 1)) \ {p})
    BY <2>1 DEF IndexIn
  <2> HIDE DEF p
  <2>3. Cardinality((0..(c - 1)) \ {p}) = c - Below(c, p)
    BY <2>1, BelowWithout
  <2> QED
    BY <1>1, <2>2, <2>3 DEF p
<1>2. CASE array.level = "Raid6"
  <2>1. p \in Nat /\ q \in Nat /\ p # q /\ ParityColumns(array, row) = {p, q}
    <3>1. /\ array.n \in 4..256 /\ p \in 0..(array.n - 1) /\ q \in 0..(array.n - 1) /\ p # q
          /\ ParityColumns(array, row) = {p, q}
      BY <1>2, TwoParities
    <3> HIDE DEF p, q
    <3> QED
      BY <3>1
  <2>2. IndexIn(array, c, row) = Cardinality((0..(c - 1)) \ {p, q})
    BY <2>1 DEF IndexIn
  <2> HIDE DEF p, q
  <2>3. Cardinality((0..(c - 1)) \ {p, q}) = c - Below(c, p) - Below(c, q)
    BY <2>1, BelowWithoutTwo
  <2> QED
    BY <1>2, <2>2, <2>3 DEF p, q
<1>3. CASE array.level \notin {"Raid5", "Raid6"}
  <2>1. ParityColumns(array, row) = {}
    BY <1>3, ParitiesAre DEF Parities
  <2>2. IndexIn(array, c, row) = Cardinality(0..(c - 1))
    <3>1. (0..(c - 1)) \ {} = 0..(c - 1)
      OBVIOUS
    <3> QED
      BY <2>1, <3>1 DEF IndexIn
  <2> QED
    BY <1>3, <2>2, BelowColumn
<1> QED
  BY <1>1, <1>2, <1>3

\* A row has as many data columns as it is wide.
LEMMA DataColumnIs ==
    ASSUME NEW array, IsArray(array), Striped(array), NEW row \in Nat, NEW c \in DataColumns(array, row)
    PROVE  /\ c \in 0..(array.n - 1) /\ c \notin ParityColumns(array, row)
           /\ IndexIn(array, c, row) \in 0..(Width(array) - 1)
<1> DEFINE n == array.n
           p == ParityColumn(n, row)
           q == SecondParityColumn(n, row)
           i == IndexIn(array, c, row)
<1>1. c \in 0..(n - 1) /\ c \notin ParityColumns(array, row) /\ n \in Nat /\ n >= 2
  BY DEF DataColumns, IsArray
<1>2. c \in Nat
  BY <1>1
<1>3. CASE array.level = "Raid5"
  <2>1. p \in 0..(n - 1) /\ c # p
    BY <1>1, <1>3, OneParity
  <2>2. i = c - Below(c, p) /\ Width(array) = n - 1
    BY <1>2, <1>3, IndexIs DEF Width
  <2> HIDE DEF p, n, i
  <2>3. i \in 0..(Width(array) - 1)
    BY <1>1, <2>1, <2>2 DEF Below
  <2> QED
    BY <1>1, <2>3 DEF i, n
<1>4. CASE array.level = "Raid6"
  <2>1. p \in 0..(n - 1) /\ q \in 0..(n - 1) /\ p # q /\ c # p /\ c # q
    BY <1>1, <1>4, TwoParities
  <2>2. i = c - Below(c, p) - Below(c, q) /\ Width(array) = n - 2
    BY <1>2, <1>4, IndexIs DEF Width
  <2> HIDE DEF p, q, n, i
  <2>3. i \in 0..(Width(array) - 1)
    <3>1. CASE p < c /\ q < c
      BY <1>1, <2>1, <2>2, <3>1 DEF Below
    <3>2. CASE ~(p < c) /\ q < c
      BY <1>1, <2>1, <2>2, <3>2 DEF Below
    <3>3. CASE p < c /\ ~(q < c)
      BY <1>1, <2>1, <2>2, <3>3 DEF Below
    <3>4. CASE ~(p < c) /\ ~(q < c)
      BY <1>1, <2>1, <2>2, <3>4 DEF Below
    <3> QED
      BY <3>1, <3>2, <3>3, <3>4
  <2> QED
    BY <1>1, <2>3 DEF i, n
<1>5. CASE array.level = "Raid0"
  <2>1. i = c /\ Width(array) = n
    BY <1>2, <1>5, IndexIs DEF Width
  <2> QED
    BY <1>1, <2>1
<1> QED
  BY <1>3, <1>4, <1>5 DEF Striped

\* Two data columns have different numbers.
LEMMA IndicesApart ==
    ASSUME NEW array, IsArray(array), array.level = "Raid6", NEW row \in Nat,
           NEW c \in DataColumns(array, row), NEW d \in DataColumns(array, row), c # d
    PROVE  IndexIn(array, c, row) # IndexIn(array, d, row)
<1> DEFINE n == array.n
           p == ParityColumn(n, row)
           q == SecondParityColumn(n, row)
<1>1. c \in 0..(n - 1) /\ d \in 0..(n - 1) /\ n \in 4..256
      /\ p \in 0..(n - 1) /\ q \in 0..(n - 1) /\ p # q
      /\ c # p /\ c # q /\ d # p /\ d # q
  BY TwoParities DEF DataColumns
<1>2. c \in Nat /\ d \in Nat
  BY <1>1
<1>3. /\ IndexIn(array, c, row) = c - Below(c, p) - Below(c, q)
      /\ IndexIn(array, d, row) = d - Below(d, p) - Below(d, q)
  BY <1>2, IndexIs
<1> HIDE DEF n, p, q
<1>4. \A x, y \in 0..(n - 1) : x < y /\ x # p /\ x # q => x - Below(x, p) - Below(x, q) < y - Below(y, p) - Below(y, q)
  <2> SUFFICES ASSUME NEW x \in 0..(n - 1), NEW y \in 0..(n - 1), x < y, x # p, x # q
               PROVE  x - Below(x, p) - Below(x, q) < y - Below(y, p) - Below(y, q)
    OBVIOUS
  <2>1. Below(y, p) - Below(x, p) = (IF x < p /\ p < y THEN 1 ELSE 0) /\ Below(x, p) \in 0..1
    BY <1>1 DEF Below
  <2>2. Below(y, q) - Below(x, q) = (IF x < q /\ q < y THEN 1 ELSE 0) /\ Below(x, q) \in 0..1
    BY <1>1 DEF Below
  <2>3. Below(y, p) \in 0..1 /\ Below(y, q) \in 0..1
    BY DEF Below
  <2>4. (IF x < p /\ p < y THEN 1 ELSE 0) + (IF x < q /\ q < y THEN 1 ELSE 0) < y - x
    BY <1>1
  <2> QED
    BY <2>1, <2>2, <2>3, <2>4
<1>5. CASE c < d
  <2>1. c - Below(c, p) - Below(c, q) < d - Below(d, p) - Below(d, q)
    BY <1>1, <1>4, <1>5
  <2>2. Below(c, p) \in 0..1 /\ Below(c, q) \in 0..1 /\ Below(d, p) \in 0..1 /\ Below(d, q) \in 0..1
    BY DEF Below
  <2> QED
    BY <1>1, <1>2, <1>3, <2>1, <2>2
<1>6. CASE d < c
  <2>1. d - Below(d, p) - Below(d, q) < c - Below(c, p) - Below(c, q)
    BY <1>1, <1>4, <1>6
  <2>2. Below(c, p) \in 0..1 /\ Below(c, q) \in 0..1 /\ Below(d, p) \in 0..1 /\ Below(d, q) \in 0..1
    BY DEF Below
  <2> QED
    BY <1>1, <1>2, <1>3, <2>1, <2>2
<1> QED
  BY <1>1, <1>5, <1>6

-------------------------------------------------------------------------------
(* The running exclusive-or of the blocks of a row.                        *)
Summed(sum, n, C, bytes) ==
  /\ sum[0] = 0
  /\ \A c \in 0..n : sum[c] \in Byte
  /\ \A c \in 1..n : sum[c] = IF c - 1 \in C THEN ByteXor(sum[c - 1], bytes[c - 1]) ELSE sum[c - 1]

\* The recursive sum is what its equation says.
LEMMA XorUpToIs ==
    ASSUME IsExclusiveOr, NEW n \in Nat, NEW C, NEW bytes \in [C -> Byte]
    PROVE  Summed(XorUpTo(n, bytes), n, C, bytes)
<1> DEFINE Step(f) == [c \in 0..n |-> IF c = 0 THEN 0
                                      ELSE IF c - 1 \in DOMAIN bytes THEN ByteXor(f[c - 1], bytes[c - 1])
                                      ELSE f[c - 1]]
           next == [x \in (1..n) \X Byte |-> IF x[1] - 1 \in C THEN ByteXor(x[2], bytes[x[1] - 1]) ELSE x[2]]
<1>1. next \in [(1..n) \X Byte -> Byte]
  <2>1. \A c \in 1..n, b \in Byte : c - 1 \in C => ByteXor(b, bytes[c - 1]) \in Byte
    BY ByteLaws
  <2> QED
    BY <2>1
<1>2. PICK f \in [0..n -> Byte] : Iterated(f, 0, n, next)
  <2> HIDE DEF next
  <2>1. 0 \in Byte
    BY ByteLaws
  <2> QED
    BY <1>1, <2>1, Iterates
<1>3. \A c \in 1..n : f[c] = IF c - 1 \in C THEN ByteXor(f[c - 1], bytes[c - 1]) ELSE f[c - 1]
  <2> SUFFICES ASSUME NEW c \in 1..n
               PROVE  f[c] = IF c - 1 \in C THEN ByteXor(f[c - 1], bytes[c - 1]) ELSE f[c - 1]
    OBVIOUS
  <2>1. c - 1 \in 0..n /\ f[c - 1] \in Byte
    OBVIOUS
  <2>2. f[c] = next[<<c, f[c - 1]>>]
    BY <1>2 DEF Iterated
  <2> QED
    BY <2>1, <2>2
<1>4. f = Step(f)
  <2>1. f[0] = 0
    BY <1>2 DEF Iterated
  <2>2. \A c \in 0..n : f[c] = IF c = 0 THEN 0
                               ELSE IF c - 1 \in DOMAIN bytes THEN ByteXor(f[c - 1], bytes[c - 1])
                               ELSE f[c - 1]
    BY <1>3, <2>1
  <2>3. f = [c \in 0..n |-> f[c]]
    OBVIOUS
  <2> QED
    BY <2>2, <2>3
<1>5. XorUpTo(n, bytes) = CHOOSE g : g = Step(g)
  BY DEF XorUpTo
<1>6. XorUpTo(n, bytes) = Step(XorUpTo(n, bytes))
  <2> HIDE DEF Step
  <2> QED
    BY <1>4, <1>5, Zenon
<1> DEFINE sum == XorUpTo(n, bytes)
<1>7. /\ sum[0] = 0
      /\ \A c \in 1..n : sum[c] = IF c - 1 \in C THEN ByteXor(sum[c - 1], bytes[c - 1]) ELSE sum[c - 1]
  <2>1. \A c \in 0..n : sum[c] = IF c = 0 THEN 0
                                 ELSE IF c - 1 \in DOMAIN bytes THEN ByteXor(sum[c - 1], bytes[c - 1])
                                 ELSE sum[c - 1]
    BY <1>6
  <2> HIDE DEF sum
  <2> QED
    BY <2>1
<1> HIDE DEF sum
<1>8. \A c \in 0..n : sum[c] \in Byte
  <2> DEFINE failing == {c \in 0..n : sum[c] \notin Byte}
  <2> SUFFICES ASSUME failing # {} PROVE FALSE
    OBVIOUS
  <2>1. PICK m \in failing : \A c \in failing : m <= c
    <3>1. failing \in SUBSET Nat
      OBVIOUS
    <3> HIDE DEF failing
    <3> QED
      BY <3>1, LeastNumber
  <2>2. m # 0
    BY <1>7, <2>1, ByteLaws
  <2>3. m \in 1..n /\ m - 1 \in 0..n /\ sum[m - 1] \in Byte /\ sum[m] \notin Byte
    BY <2>1, <2>2
  <2>4. m - 1 \in C => bytes[m - 1] \in Byte
    OBVIOUS
  <2> QED
    BY <1>7, <2>3, <2>4, ByteLaws, SMTT(30)
<1> QED
  BY <1>7, <1>8 DEF Summed, sum

\* A sum of bytes is a byte.
LEMMA XorOfIs ==
    ASSUME IsExclusiveOr, NEW n \in Nat, NEW C, NEW bytes \in [C -> Byte]
    PROVE  XorOf(n, bytes) \in Byte
<1>1. Summed(XorUpTo(n, bytes), n, C, bytes)
  BY XorUpToIs
<1> QED
  BY <1>1 DEF Summed, XorOf

(* One block more.                                                         *)
OneMore(n, C, more, d, less) ==
  /\ n \in Nat /\ d \in 0..(n - 1) /\ d \in C
  /\ more \in [C -> Byte] /\ less \in [C \ {d} -> Byte]
  /\ \A c \in C \ {d} : less[c] = more[c]

\* A column more adds its byte to the sum, wherever it stands.
LEMMA XorOfMore ==
    ASSUME IsExclusiveOr, NEW n, NEW C, NEW more, NEW d, NEW less,
           OneMore(n, C, more, d, less)
    PROVE  XorOf(n, more) = ByteXor(XorOf(n, less), more[d])
<1> DEFINE B == C \ {d}
           f == XorUpTo(n, less)
           g == XorUpTo(n, more)
           After(c) == IF c <= d THEN f[c] ELSE ByteXor(f[c], more[d])
<1>1. /\ n \in Nat /\ d \in 0..(n - 1) /\ more \in [C -> Byte] /\ less \in [B -> Byte]
      /\ more[d] \in Byte /\ \A c \in B : less[c] = more[c]
  BY DEF OneMore
<1>2. /\ f[0] = 0
      /\ \A c \in 0..n : f[c] \in Byte
      /\ \A c \in 1..n : f[c] = IF c - 1 \in B THEN ByteXor(f[c - 1], more[c - 1]) ELSE f[c - 1]
  <2>1. Summed(f, n, B, less)
    <3> HIDE DEF B
    <3> QED
      BY <1>1, XorUpToIs
  <2> HIDE DEF B, f
  <2> QED
    BY <1>1, <2>1 DEF Summed
<1>3. /\ g[0] = 0
      /\ \A c \in 1..n : g[c] = IF c - 1 \in C THEN ByteXor(g[c - 1], more[c - 1]) ELSE g[c - 1]
  <2>1. Summed(g, n, C, more)
    BY <1>1, XorUpToIs
  <2> HIDE DEF g
  <2> QED
    BY <2>1 DEF Summed
<1>4. \A c : c \in C <=> c \in B \/ c = d
  BY DEF OneMore
<1>5. d \notin B
  OBVIOUS
<1> HIDE DEF f, g, B
<1>6. \A c \in 0..n : g[c] = After(c)
  <2> DEFINE failing == {c \in 0..n : g[c] # After(c)}
  <2> SUFFICES ASSUME failing # {} PROVE FALSE
    OBVIOUS
  <2>1. PICK m \in failing : \A c \in failing : m <= c
    <3>1. failing \in SUBSET Nat
      OBVIOUS
    <3> HIDE DEF failing
    <3> QED
      BY <3>1, LeastNumber
  <2>2. m # 0
    BY <1>1, <1>2, <1>3, <2>1
  <2>3. m \in 1..n /\ m - 1 \in 0..n /\ g[m - 1] = After(m - 1) /\ g[m] # After(m)
    BY <1>1, <2>1, <2>2
  <2>4. f[m - 1] \in Byte /\ more[d] \in Byte /\ (m - 1 \in C => more[m - 1] \in Byte)
    BY <1>1, <1>2, <2>3
  <2>5. CASE m - 1 < d
    BY <1>1, <1>2, <1>3, <1>4, <2>3, <2>5
  <2>6. CASE m - 1 = d
    <3>1. After(m) = ByteXor(f[m], more[d]) /\ After(m - 1) = f[m - 1]
      BY <1>1, <2>3, <2>6
    <3>2. f[m] = f[m - 1]
      BY <1>2, <1>5, <2>3, <2>6
    <3>3. g[m] = ByteXor(g[m - 1], more[d])
      BY <1>3, <1>4, <2>3, <2>6
    <3> QED
      BY <2>3, <3>1, <3>2, <3>3
  <2>7. CASE m - 1 > d
    <3>1. After(m) = ByteXor(f[m], more[d]) /\ After(m - 1) = ByteXor(f[m - 1], more[d])
      BY <1>1, <2>3, <2>7
    <3>2. CASE m - 1 \in C
      <4>1. f[m] = ByteXor(f[m - 1], more[m - 1])
        BY <1>2, <1>4, <2>3, <2>7, <3>2
      <4>2. g[m] = ByteXor(ByteXor(f[m - 1], more[d]), more[m - 1])
        BY <1>3, <2>3, <3>1, <3>2
      <4>3. \A x, y, z \in Byte : ByteXor(ByteXor(x, y), z) = ByteXor(ByteXor(x, z), y)
        BY ByteLaws
      <4> QED
        BY <2>3, <2>4, <3>1, <3>2, <4>1, <4>2, <4>3
    <3>3. CASE m - 1 \notin C
      BY <1>2, <1>3, <1>4, <2>3, <2>7, <3>1, <3>3
    <3> QED
      BY <3>2, <3>3
  <2> QED
    BY <1>1, <2>3, <2>5, <2>6, <2>7
<1>7. g[n] = ByteXor(f[n], more[d])
  BY <1>1, <1>6
<1> QED
  BY <1>7 DEF XorOf, f, g

\* The greater of two numbers.
LEMMA MaxOfTwo ==
    ASSUME NEW a \in Int, NEW b \in Int
    PROVE  Max({a, b}) = IF a >= b THEN a ELSE b
BY DEF Max

\* The members of a row that the width of the first row leaves out hold parity.
LEMMA WidthIs ==
    ASSUME NEW array, IsArray(array), array.level # "Raid1"
    PROVE  array.n - Cardinality(ParityColumns(array, 0)) = Width(array)
<1>1. 0 \in Nat /\ array.n \in Nat
  BY DEF IsArray
<1>2. CASE array.level = "Raid5"
  <2>1. Cardinality(ParityColumns(array, 0)) = 1
    <3>1. ParityColumns(array, 0) = {ParityColumn(array.n, 0)}
      BY <1>1, <1>2, OneParity
    <3> QED
      BY <3>1, FS_Singleton
  <2> QED
    BY <1>2, <2>1 DEF Width
<1>3. CASE array.level = "Raid6"
  <2>1. Cardinality(ParityColumns(array, 0)) = 2
    <3> DEFINE p == ParityColumn(array.n, 0)
               q == SecondParityColumn(array.n, 0)
    <3>1. ParityColumns(array, 0) = {p, q} /\ p # q
      BY <1>1, <1>3, TwoParities
    <3> HIDE DEF p, q
    <3>2. IsFiniteSet({p}) /\ Cardinality({p}) = 1 /\ {p, q} = {p} \cup {q} /\ q \notin {p}
      BY <3>1, FS_Singleton
    <3>3. Cardinality({p} \cup {q}) = 2
      BY <3>2, FS_AddElement
    <3> QED
      BY <3>1, <3>2, <3>3
  <2> QED
    BY <1>3, <2>1 DEF Width
<1>4. CASE array.level \in {"Raid0", "Jbod"}
  <2>1. ParityColumns(array, 0) = {}
    BY <1>4 DEF ParityColumns
  <2>2. Cardinality(ParityColumns(array, 0)) = 0
    BY <2>1, FS_EmptySet
  <2> QED
    BY <1>1, <1>4, <2>2 DEF Width
<1> QED
  BY <1>2, <1>3, <1>4 DEF IsArray

(* The i-th data column of a row.                                          *)
ColumnOf(array, row, i) ==
  CASE array.level = "Raid5" -> SkipParity(i, ParityColumn(array.n, row)) % array.n
    [] array.level = "Raid6" -> Raid6Column(array.n, i, row)
    [] OTHER -> i

\* The column a chunk is looked up in holds data, and is that chunk's.
LEMMA ColumnIs ==
    ASSUME NEW array, IsArray(array), Striped(array), NEW row \in Nat, NEW i \in 0..(Width(array) - 1)
    PROVE  LET c == ColumnOf(array, row, i)
           IN  c \in DataColumns(array, row) /\ IndexIn(array, c, row) = i
<1> DEFINE n == array.n
           p == ParityColumn(n, row)
           q == SecondParityColumn(n, row)
           c == ColumnOf(array, row, i)
<1>1. n \in Nat \ {0}
  BY DEF IsArray
<1>2. CASE array.level = "Raid5"
  <2>1. p \in 0..(n - 1) /\ ParityColumns(array, row) = {p} /\ i \in 0..(n - 2)
    <3>1. p \in 0..(n - 1) /\ ParityColumns(array, row) = {p}
      BY <1>2, OneParity
    <3>2. Width(array) = n - 1
      BY <1>2 DEF Width
    <3> HIDE DEF n, p
    <3> QED
      BY <1>1, <3>1, <3>2
  <2> DEFINE s == SkipParity(i, p)
  <2>2. s \in 0..(n - 1) /\ s # p /\ s - Below(s, p) = i
    <3> HIDE DEF p, n
    <3> QED
      BY <1>1, <2>1 DEF SkipParity, Below
  <2>3. c = s
    <3>1. c = s % n
      BY <1>2 DEF ColumnOf
    <3> HIDE DEF s, n, c
    <3> QED
      BY <1>1, <2>2, <3>1, RemIs
  <2> HIDE DEF s, c
  <2>4. c \in Nat
    BY <1>1, <2>2, <2>3
  <2>5. IndexIn(array, c, row) = c - Below(c, p)
    BY <1>2, <2>4, IndexIs
  <2> HIDE DEF p, n
  <2>6. c \in DataColumns(array, row) /\ IndexIn(array, c, row) = i
    BY <2>1, <2>2, <2>3, <2>5 DEF DataColumns, n
  <2> QED
    BY <2>6 DEF c
<1>3. CASE array.level = "Raid6"
  <2> DEFINE low == Min({p, q})
             high == Max({p, q})
             s == SkipParity(i, low)
             t == SkipParity(s, high)
  <2>1. p \in 0..(n - 1) /\ q \in 0..(n - 1) /\ p # q /\ ParityColumns(array, row) = {p, q}
    BY <1>3, TwoParities
  <2>2. i \in 0..(n - 3)
    <3>1. Width(array) = n - 2
      BY <1>3 DEF Width
    <3> HIDE DEF n
    <3> QED
      BY <1>1, <3>1
  <2>3. c = t % n
    BY <1>3 DEF ColumnOf, Raid6Column
  <2> HIDE DEF c, p, q, n
  <2>4. ((low = p /\ high = q) \/ (low = q /\ high = p)) /\ low < high /\ low \in 0..(n - 1) /\ high \in 0..(n - 1)
    <3>1. low = (IF p <= q THEN p ELSE q) /\ high = (IF p >= q THEN p ELSE q)
      BY <1>1, <2>1, MinOfTwo, MaxOfTwo
    <3> QED
      BY <1>1, <2>1, <3>1
  <2> HIDE DEF low, high
  <2>5. s \in 0..(n - 2) /\ s # low /\ s - Below(s, low) = i /\ (s > low <=> i >= low)
    BY <1>1, <2>2, <2>4 DEF SkipParity, Below
  <2>6. t \in 0..(n - 1) /\ t # low /\ t # high /\ t - Below(t, low) - Below(t, high) = i
    <3>1. CASE s >= high
      <4>1. t = s + 1 /\ Below(t, low) = 1 /\ Below(t, high) = 1 /\ Below(s, low) = 1
        BY <1>1, <2>4, <2>5, <3>1 DEF SkipParity, Below
      <4> HIDE DEF s, t
      <4> QED
        BY <1>1, <2>2, <2>4, <2>5, <3>1, <4>1
    <3>2. CASE ~(s >= high)
      <4>1. t = s /\ Below(t, high) = 0
        BY <1>1, <2>4, <2>5, <3>2 DEF SkipParity, Below
      <4> HIDE DEF s, t
      <4>2. Below(s, low) \in 0..1
        BY DEF Below
      <4> QED
        BY <1>1, <2>2, <2>4, <2>5, <3>2, <4>1, <4>2
    <3> QED
      BY <3>1, <3>2
  <2> HIDE DEF s, t
  <2>7. c = t
    BY <1>1, <2>3, <2>6, RemIs
  <2>8. c \in Nat /\ c \in 0..(n - 1) /\ c # p /\ c # q
    BY <1>1, <2>4, <2>6, <2>7
  <2>9. IndexIn(array, c, row) = c - Below(c, p) - Below(c, q)
    BY <1>3, <2>8, IndexIs DEF p, q, n
  <2>10. Below(c, p) \in 0..1 /\ Below(c, q) \in 0..1
    BY DEF Below
  <2>11. c - Below(c, p) - Below(c, q) = i
    BY <2>4, <2>6, <2>7, <2>8, <2>10
  <2>12. c \in DataColumns(array, row) /\ IndexIn(array, c, row) = i
    BY <2>1, <2>8, <2>9, <2>11 DEF DataColumns, n
  <2> QED
    BY <2>12 DEF c
<1>4. CASE array.level = "Raid0"
  <2>1. c = i /\ i \in 0..(n - 1) /\ ParityColumns(array, row) = {} /\ i \in Nat
    BY <1>1, <1>4 DEF ColumnOf, Width, ParityColumns
  <2>2. IndexIn(array, i, row) = i
    BY <1>4, <2>1, IndexIs
  <2> QED
    BY <2>1, <2>2 DEF DataColumns
<1> QED
  BY <1>2, <1>3, <1>4 DEF Striped

(* The place of a byte: stripe by stripe, or row by row.                   *)
LEMMA Split ==
    ASSUME NEW s \in Nat \ {0}, NEW w \in Nat \ {0}, NEW at \in Nat
    PROVE  LET row == (at \div s) \div w
               i == (at \div s) % w
               x == at % s
           IN  /\ row \in Nat /\ i \in 0..(w - 1) /\ x \in 0..(s - 1)
               /\ at = s * (w * row + i) + x
               /\ at \div (s * w) = row
               /\ (at % (s * w)) \div s = i
<1> DEFINE q == at \div s
           x == at % s
           row == q \div w
           i == q % w
<1>1. q \in Nat /\ x \in 0..(s - 1) /\ at = s * q + x
  BY DivMod
<1> HIDE DEF q, x
<1>2. row \in Nat /\ i \in 0..(w - 1) /\ q = w * row + i
  BY <1>1, DivMod
<1> HIDE DEF row, i
<1>3. at = s * (w * row + i) + x
  BY <1>1, <1>2
<1>4. s * w \in Nat \ {0}
  OBVIOUS
<1>5. s * i + x \in 0..(s * w - 1)
  <2>1. s * (i + 1) <= s * w
    <3>1. i + 1 \in Nat /\ i + 1 <= w
      BY <1>2
    <3> QED
      BY <3>1
  <2>2. s * (i + 1) = s * i + s
    BY <1>2
  <2> DEFINE y == s * i
             z == s * w
  <2>3. y \in Nat /\ z \in Nat /\ y + s <= z
    BY <1>2, <2>1, <2>2
  <2> HIDE DEF y, z
  <2>4. y + x \in 0..(z - 1)
    BY <1>1, <2>3
  <2> QED
    BY <2>4 DEF y, z
<1>6. at = (s * w) * row + (s * i + x)
  <2>1. s * (w * row + i) = (s * w) * row + s * i
    BY <1>2
  <2> DEFINE y == s * i
             z == (s * w) * row
  <2>2. y \in Nat /\ z \in Nat /\ at = (z + y) + x
    BY <1>2, <1>3, <1>4, <2>1
  <2> HIDE DEF y, z
  <2>3. at = z + (y + x)
    BY <1>1, <2>2
  <2> QED
    BY <2>3 DEF y, z
<1>7. at \div (s * w) = row /\ at % (s * w) = s * i + x
  <2> DEFINE z == s * w
             r == s * i + x
  <2>1. z \in Nat \ {0} /\ r \in 0..(z - 1) /\ at = z * row + r
    BY <1>4, <1>5, <1>6
  <2> HIDE DEF z, r
  <2>2. at \div z = row /\ at % z = r
    BY <1>2, <2>1, DivUnique
  <2> QED
    BY <2>2 DEF z, r
<1>8. (s * i + x) \div s = i
  BY <1>1, <1>2, DivUnique
<1> QED
  BY <1>1, <1>2, <1>3, <1>7, <1>8 DEF row, i, q, x

(* Where the program looks for a byte: in the data column and at the       *)
(* offset at which the array has it.                                       *)
LEMMA TranslateIs ==
    ASSUME NEW array, IsArray(array), Striped(array), NEW source, source.n = array.n,
           source.config.level = array.level, source.config.stripe = array.stripe,
           source.config.offset = array.offset,
           NEW at \in 0..(Len(array.data) - 1)
    PROVE  \E row \in 0..(Rows(array) - 1), i \in 0..(Width(array) - 1), x \in 0..(array.stripe - 1) :
             /\ at = array.stripe * (Width(array) * row + i) + x
             /\ Translate(source, at)
                  = <<ColumnOf(array, row, i), row * array.stripe + x + array.offset>>
<1> DEFINE s == array.stripe
           w == Width(array)
           row == (at \div s) \div w
           i == (at \div s) % w
           x == at % s
<1>1. /\ s \in Nat \ {0} /\ w \in Nat \ {0} /\ at \in Nat /\ array.n \in Nat \ {0}
      /\ Rows(array) \in Nat \ {0} /\ Len(array.data) = w * (Rows(array) * s)
      /\ at < Len(array.data) /\ Len(array.data) \in Nat
  <2>1. Len(array.data) \in Nat /\ Size(array) = Rows(array) * s /\ Len(array.data) = w * Size(array)
    BY ArrayIs
  <2> HIDE DEF s, w
  <2> QED
    BY <2>1, ArrayIs DEF s, w
<1>2. /\ row \in Nat /\ i \in 0..(w - 1) /\ x \in 0..(s - 1)
      /\ at = s * (w * row + i) + x
      /\ at \div (s * w) = row
      /\ (at % (s * w)) \div s = i
  <2> HIDE DEF s, w
  <2> QED
    BY <1>1, Split
<1>3. row < Rows(array)
  <2> HIDE DEF s, w, row, i, x
  <2> DEFINE R == Rows(array)
  <2> SUFFICES ASSUME row >= R PROVE FALSE
    BY <1>1, <1>2
  <2>1. R \in Nat /\ at < w * (R * s)
    BY <1>1
  <2> HIDE DEF R
  <2>2. w * row >= w * R
    BY <1>1, <1>2, <2>1
  <2>3. s * (w * row + i) >= s * (w * R)
    <3> DEFINE y == w * row + i
               z == w * R
    <3>1. y \in Nat /\ z \in Nat /\ y >= z
      <4>1. w * row \in Nat /\ w * R \in Nat
        BY <1>1, <1>2, <2>1
      <4> DEFINE a == w * row
      <4>2. a \in Nat /\ a >= z /\ z \in Nat
        BY <2>2, <4>1
      <4> HIDE DEF a, z
      <4>3. a + i \in Nat /\ a + i >= z
        BY <1>2, <4>2
      <4> QED
        BY <4>2, <4>3 DEF a
    <3> HIDE DEF y, z
    <3>2. s * y >= s * z
      <4>1. s \in Nat
        BY <1>1
      <4> QED
        BY <3>1, <4>1, ProductGrows
    <3> QED
      BY <3>2 DEF y, z
  <2>4. s * (w * R) = w * (R * s)
    BY <1>1, <2>1
  <2> DEFINE y == s * (w * row + i)
             z == w * (R * s)
  <2>5. y \in Int /\ z \in Int /\ y >= z /\ at = y + x /\ at < z
    BY <1>1, <1>2, <2>1, <2>3, <2>4
  <2> HIDE DEF y, z
  <2> QED
    BY <1>2, <2>5
<1> HIDE DEF row, i, x
<1>4. Translate(source, at) = <<ColumnOf(array, row, i), row * s + x + array.offset>>
  <2>1. CASE array.level = "Raid0"
    <3>1. Translate(source, at) = <<(at \div s) % array.n, ((at \div s) \div array.n) * s + (at % s) + array.offset>>
      BY <2>1 DEF Translate
    <3>2. w = array.n /\ ColumnOf(array, row, i) = i
      BY <2>1 DEF Width, ColumnOf
    <3> QED
      BY <3>1, <3>2 DEF row, i, x
  <2>2. CASE array.level = "Raid5"
    <3>1. w = array.n - 1 /\ ~(array.n < 3)
      BY <1>1, <2>2 DEF Width, IsArray
    <3>2. Translate(source, at)
            = <<SkipParity((at % (s * (array.n - 1))) \div s, ParityColumn(array.n, at \div (s * (array.n - 1)))) % array.n,
                (at \div (s * (array.n - 1))) * s + (at % s) + array.offset>>
      BY <2>2, <3>1 DEF Translate
    <3> HIDE DEF w
    <3>3. Translate(source, at)
            = <<SkipParity(i, ParityColumn(array.n, row)) % array.n, row * s + (at % s) + array.offset>>
      BY <1>2, <3>1, <3>2
    <3> QED
      BY <2>2, <3>3 DEF ColumnOf, x
  <2>3. CASE array.level = "Raid6"
    <3>1. w = array.n - 2 /\ ~(array.n < 4)
      <4>1. w = array.n - 2
        BY <2>3 DEF Width
      <4>2. array.n \in 4..256
        BY <2>3 DEF IsArray
      <4> HIDE DEF w
      <4>3. ~(array.n < 4)
        <5> DEFINE n == array.n
        <5>1. n \in 4..256
          BY <4>2
        <5> HIDE DEF n
        <5>2. ~(n < 4)
          BY <5>1
        <5> QED
          BY <5>2 DEF n
      <4> QED
        BY <4>1, <4>3
    <3>2. Translate(source, at)
            = <<Raid6Column(array.n, (at % (s * (array.n - 2))) \div s, at \div (s * (array.n - 2))),
                (at \div (s * (array.n - 2))) * s + (at % s) + array.offset>>
      BY <2>3, <3>1 DEF Translate
    <3> HIDE DEF w
    <3>3. Translate(source, at)
            = <<Raid6Column(array.n, i, row), row * s + (at % s) + array.offset>>
      BY <1>2, <3>1, <3>2
    <3> QED
      BY <2>3, <3>3 DEF ColumnOf, x
  <2> QED
    BY <2>1, <2>2, <2>3 DEF Striped
<1>5. row \in 0..(Rows(array) - 1)
  BY <1>1, <1>2, <1>3
<1> QED
  BY <1>2, <1>4, <1>5

(* What a member holds behind the data offset.                             *)
Held(array, column, at) ==
  CASE array.level = "Raid1" -> array.data[at + 1]
    [] array.level = "Jbod" -> array.data[column * Size(array) + at + 1]
    [] OTHER -> CellOf(array, column, at)

\* The part of a concatenation on one member.
LEMMA PartIs ==
    ASSUME NEW S, NEW data \in Seq(S), NEW n \in Nat, NEW size \in Nat, Len(data) = n * size,
           NEW column \in 0..(n - 1)
    PROVE  LET part == SubSeq(data, column * size + 1, (column + 1) * size)
           IN  /\ part \in Seq(S) /\ Len(part) = size
               /\ \A k \in 1..size : part[k] = data[column * size + k]
<1> DEFINE a == column * size
<1>1. a \in Nat /\ (column + 1) * size = a + size
  OBVIOUS
<1>2. a + size <= Len(data)
  <2>1. size * n >= size * (column + 1)
    <3>1. column + 1 \in Nat /\ n >= column + 1
      OBVIOUS
    <3> QED
      BY <3>1, ProductGrows
  <2>2. size * (column + 1) = a + size /\ size * n = n * size
    BY <1>1
  <2> HIDE DEF a
  <2> QED
    BY <2>1, <2>2
<1> HIDE DEF a
<1> DEFINE b == a + 1
           c == a + size
           part == SubSeq(data, b, c)
<1>3. b \in Int /\ c \in Int /\ c - b + 1 = size /\ (b <= c <=> size # 0)
  BY <1>1
<1>4. \A i \in b..c : data[i] \in S
  BY <1>1, <1>2
<1> HIDE DEF b, c
<1>5. /\ part \in Seq(S) /\ Len(part) = IF b <= c THEN c - b + 1 ELSE 0
      /\ \A i \in 1..(c - b + 1) : part[i] = data[b + i - 1]
  BY <1>3, <1>4, SubSeqProperties
<1> HIDE DEF part
<1>6. Len(part) = size
  BY <1>3, <1>5
<1>7. \A k \in 1..size : part[k] = data[a + k]
  <2> SUFFICES ASSUME NEW k \in 1..size PROVE part[k] = data[a + k]
    OBVIOUS
  <2>1. k \in 1..(c - b + 1)
    BY <1>3
  <2>2. b + k - 1 = a + k
    BY <1>1 DEF b
  <2>3. part[k] = data[b + k - 1]
    BY <1>5, <2>1
  <2> QED
    BY <2>2, <2>3
<1>8. part = SubSeq(data, a + 1, a + size)
  BY DEF part, b, c
<1> QED
  BY <1>1, <1>5, <1>6, <1>7, <1>8 DEF a

\* Each member is the data offset and what it holds.
LEMMA WrittenIs ==
    ASSUME NEW array, IsArray(array), NEW column \in 0..(array.n - 1)
    PROVE  /\ Len(Written(array, column)) = array.offset + Size(array)
           /\ \A at \in 0..(Size(array) - 1) :
                Written(array, column)[array.offset + at + 1] = Held(array, column, at)
<1> DEFINE z == Size(array)
           o == array.offset
           data == array.data
           cells == [i \in 1..z |-> CellOf(array, column, i - 1)]
           head == [i \in 1..array.offset |-> 0]
           body == CASE array.level = "Raid1" -> data
                     [] array.level = "Jbod" -> SubSeq(data, column * z + 1, (column + 1) * z)
                     [] OTHER -> cells
<1>1. /\ array.n \in Nat /\ z \in Nat \ {0} /\ o \in Nat /\ data \in Seq(Byte) /\ Len(data) \in Nat
      /\ Width(array) \in Nat \ {0} /\ Len(data) = Width(array) * z
  BY ArrayIs
<1>2. Written(array, column) = head \o body
  <2>1. CASE array.level = "Raid1"
    BY <2>1 DEF Written
  <2>2. CASE array.level # "Raid1"
    BY <2>2, WidthIs DEF Written, Size
  <2> QED
    BY <2>1, <2>2
<1>3. /\ Len(body) = z /\ \E S : body \in Seq(S)
      /\ \A at \in 0..(z - 1) : body[at + 1] = Held(array, column, at)
  <2>1. CASE array.level = "Raid1"
    <3>1. body = data /\ Width(array) = 1
      BY <2>1 DEF Width
    <3>2. \A at \in 0..(z - 1) : data[at + 1] = Held(array, column, at)
      BY <2>1 DEF Held
    <3>3. Len(data) = z
      <4> HIDE DEF data, z
      <4> QED
        BY <1>1, <3>1
    <3> HIDE DEF body, data
    <3> QED
      BY <1>1, <3>1, <3>2, <3>3
  <2>2. CASE array.level = "Jbod"
    <3> DEFINE part == SubSeq(data, column * z + 1, (column + 1) * z)
    <3>1. body = part /\ Width(array) = array.n
      BY <2>2 DEF Width
    <3>2. /\ part \in Seq(Byte) /\ Len(part) = z
          /\ \A k \in 1..z : part[k] = data[column * z + k]
      <4>1. z \in Nat /\ Len(data) = array.n * z
        BY <1>1, <3>1
      <4> HIDE DEF data, z
      <4>2. /\ SubSeq(data, column * z + 1, (column + 1) * z) \in Seq(Byte)
            /\ Len(SubSeq(data, column * z + 1, (column + 1) * z)) = z
            /\ \A k \in 1..z : SubSeq(data, column * z + 1, (column + 1) * z)[k] = data[column * z + k]
        <5> DEFINE n == array.n
        <5>1. n \in Nat /\ z \in Nat /\ Len(data) = n * z /\ data \in Seq(Byte) /\ column \in 0..(n - 1)
          BY <1>1, <4>1
        <5> HIDE DEF n
        <5> QED
          BY <5>1, PartIs
      <4> QED
        BY <4>2
    <3>3. \A at \in 0..(z - 1) : part[at + 1] = Held(array, column, at)
      <4> SUFFICES ASSUME NEW at \in 0..(z - 1) PROVE part[at + 1] = Held(array, column, at)
        OBVIOUS
      <4>1. Held(array, column, at) = data[column * z + at + 1]
        BY <2>2 DEF Held
      <4> HIDE DEF part, data, z
      <4>2. at + 1 \in 1..z /\ column * z + (at + 1) = column * z + at + 1
        BY <1>1
      <4> QED
        BY <3>2, <4>1, <4>2
    <3> HIDE DEF body, part
    <3> QED
      BY <3>1, <3>2, <3>3
  <2>3. CASE array.level \notin {"Raid1", "Jbod"}
    <3>1. body = cells
      BY <2>3
    <3>2. cells \in Seq({cells[i] : i \in 1..z}) /\ Len(cells) = z
      <4> DEFINE S == {cells[i] : i \in 1..z}
      <4>1. cells \in [1..z -> S]
        OBVIOUS
      <4> HIDE DEF cells, S
      <4>2. z \in Nat
        BY <1>1
      <4>3. cells \in Seq(S) /\ Len(cells) = z
        BY <4>1, <4>2, ListMade
      <4> QED
        BY <4>3 DEF S
    <3>3. \A at \in 0..(z - 1) : cells[at + 1] = Held(array, column, at)
      <4> SUFFICES ASSUME NEW at \in 0..(z - 1) PROVE cells[at + 1] = Held(array, column, at)
        OBVIOUS
      <4>1. at + 1 \in 1..z /\ (at + 1) - 1 = at
        <5> HIDE DEF z
        <5> QED
          BY <1>1
      <4>2. Held(array, column, at) = CellOf(array, column, at)
        BY <2>3 DEF Held
      <4> QED
        BY <4>1, <4>2
    <3> HIDE DEF body, cells
    <3> QED
      BY <3>1, <3>2, <3>3
  <2> QED
    BY <2>1, <2>2, <2>3
<1> HIDE DEF body
<1>4. PICK S : body \in Seq(S)
  BY <1>3
<1> DEFINE R == {0} \cup S
<1>5. head \in Seq(R) /\ Len(head) = o /\ body \in Seq(R)
  <2>1. head \in [1..o -> R]
    OBVIOUS
  <2>2. body \in Seq(R)
    BY <1>4
  <2> HIDE DEF head, R, o
  <2> QED
    BY <1>1, <2>1, <2>2, ListMade
<1> HIDE DEF R, head
<1>6. /\ Len(head \o body) = o + z
      /\ \A at \in 0..(z - 1) : (head \o body)[o + at + 1] = body[at + 1]
  <2> HIDE DEF o, z
  <2>1. /\ Len(head \o body) = Len(head) + Len(body)
        /\ \A i \in 1..Len(body) : (head \o body)[Len(head) + i] = body[i]
    <3>1. head \in Seq(R) /\ body \in Seq(R)
      BY <1>5
    <3> QED
      BY <3>1, FrontIs
  <2> SUFFICES ASSUME NEW at \in 0..(z - 1)
               PROVE  (head \o body)[o + at + 1] = body[at + 1]
    BY <1>3, <1>5, <2>1
  <2>2. at + 1 \in 1..Len(body) /\ o + (at + 1) = o + at + 1
    BY <1>1, <1>3
  <2> QED
    BY <1>5, <2>1, <2>2
<1> QED
  BY <1>2, <1>3, <1>6

(* The cell of a data column is the byte of the array.                     *)
LEMMA CellIs ==
    ASSUME NEW array, IsArray(array), Striped(array), NEW row \in 0..(Rows(array) - 1),
           NEW x \in 0..(array.stripe - 1), NEW column
    PROVE  DataCell(array, column, row * array.stripe + x)
             = array.data[(row * Width(array) + IndexIn(array, column, row)) * array.stripe + x + 1]
<1> DEFINE s == array.stripe
           at == row * s + x
<1>1. at \div s = row /\ at % s = x
  <2>1. s \in Nat \ {0} /\ Rows(array) \in Nat /\ x \in 0..(s - 1)
    BY ArrayIs DEF IsArray
  <2> HIDE DEF s
  <2> QED
    BY <2>1, RowOf
<1> HIDE DEF at
<1>2. DataCell(array, column, at)
        = array.data[(row * Width(array) + IndexIn(array, column, row)) * s + x + 1]
  BY <1>1, WidthIs DEF DataCell, Striped
<1> QED
  BY <1>2 DEF at

(* Every cell of a row is a byte.                                          *)
LEMMA DataIsBytes ==
    ASSUME NEW array, IsArray(array), Striped(array), NEW row \in 0..(Rows(array) - 1),
           NEW x \in 0..(array.stripe - 1), NEW column \in DataColumns(array, row)
    PROVE  DataCell(array, column, row * array.stripe + x) \in Byte
<1> DEFINE s == array.stripe
           w == Width(array)
           R == Rows(array)
           k == IndexIn(array, column, row)
<1>1. s \in Nat \ {0} /\ w \in Nat \ {0} /\ R \in Nat \ {0}
      /\ Len(array.data) = w * Size(array) /\ Size(array) = R * s /\ array.data \in Seq(Byte)
  BY ArrayIs
<1>2. k \in 0..(w - 1)
  <2>1. row \in Nat
    OBVIOUS
  <2> QED
    BY <2>1, DataColumnIs
<1> HIDE DEF s, w, R, k
<1>3. row * w + k \in 0..(R * w - 1)
  BY <1>1, <1>2, RowOf DEF R
<1>4. (row * w + k) * s + x \in 0..((R * w) * s - 1)
  <2> DEFINE y == row * w + k
             z == R * w
  <2>1. z \in Nat /\ y \in 0..(z - 1)
    BY <1>1, <1>3
  <2> HIDE DEF y, z
  <2>2. x \in 0..(s - 1)
    BY DEF s
  <2>3. y * s + x \in 0..(z * s - 1)
    BY <1>1, <2>1, <2>2, RowOf
  <2> QED
    BY <2>3 DEF y, z
<1>5. (R * w) * s = w * (R * s)
  BY <1>1
<1>6. (row * w + k) * s + x + 1 \in 1..Len(array.data)
  <2> DEFINE y == (row * w + k) * s + x
             z == w * (R * s)
  <2>1. y \in 0..(z - 1) /\ z = Len(array.data)
    BY <1>1, <1>4, <1>5
  <2>2. z \in Nat
    BY <1>1
  <2> HIDE DEF y, z
  <2>3. y + 1 \in 1..z
    BY <2>1, <2>2
  <2> QED
    BY <2>1, <2>3 DEF y
<1>7. array.data[(row * w + k) * s + x + 1] \in Byte
  BY <1>1, <1>6
<1> QED
  BY <1>7, CellIs DEF s, w, k

-------------------------------------------------------------------------------
(* The array as it is opened, without the members that were lost.          *)
ConfigOf(array, lost) ==
  [level |-> array.level, stripe |-> array.stripe, offset |-> array.offset,
   members |-> [i \in 1..array.n |-> IF i \in lost THEN NoMember ELSE Written(array, i - 1)]]

Losing(array, lost) == lost \in SUBSET (1..array.n) /\ lost # 1..array.n

Opened(source, array, lost) ==
  /\ source.n = array.n /\ source.config = ConfigOf(array, lost)
  /\ source.logical = Len(array.data)
  /\ \A i \in 1..array.n : source.sizes[i] = Size(array)

\* The configuration names every member that was written but the lost ones.
LEMMA MembersAre ==
    ASSUME NEW array, IsArray(array), NEW lost, Losing(array, lost)
    PROVE  LET members == ConfigOf(array, lost).members
           IN  /\ Len(members) = array.n /\ DOMAIN members = 1..array.n
               /\ \A i \in 1..array.n : members[i] = NoMember <=> i \in lost
               /\ \A i \in 1..array.n : i \notin lost => members[i] = Written(array, i - 1)
<1> DEFINE members == ConfigOf(array, lost).members
<1>1. array.n \in Nat
  BY DEF IsArray
<1>2. members = [i \in 1..array.n |-> IF i \in lost THEN NoMember ELSE Written(array, i - 1)]
  BY DEF ConfigOf
<1>3. \A i \in 1..array.n : Written(array, i - 1) # <<>>
  <2> SUFFICES ASSUME NEW i \in 1..array.n, Written(array, i - 1) = <<>> PROVE FALSE
    OBVIOUS
  <2>1. i - 1 \in 0..(array.n - 1)
    BY <1>1
  <2>2. Len(Written(array, i - 1)) = array.offset + Size(array)
    BY <2>1, WrittenIs
  <2>3. array.offset \in Nat /\ Size(array) \in Nat \ {0}
    BY ArrayIs
  <2>4. Len(<<>>) = 0
    OBVIOUS
  <2> QED
    BY <2>2, <2>3, <2>4
<1>4. Len(members) = array.n
  <2> HIDE DEF members
  <2> QED
    BY <1>1, <1>2
<1> QED
  BY <1>2, <1>3, <1>4 DEF NoMember

\* Members of one size begin at its multiples.
LEMMA BeginsIs ==
    ASSUME NEW n \in Nat, NEW size \in Nat, NEW sizes, \A i \in 1..n : sizes[i] = size
    PROVE  \A i \in 0..n : Begins(n, sizes)[i] = i * size
<1> DEFINE Step(f) == [i \in 0..n |-> IF i = 0 THEN 0 ELSE f[i - 1] + sizes[i]]
           f == [i \in 0..n |-> i * size]
           before == Begins(n, sizes)
<1>1. f = Step(f)
  <2>1. \A i \in 0..n : f[i] = IF i = 0 THEN 0 ELSE f[i - 1] + sizes[i]
    <3> SUFFICES ASSUME NEW i \in 0..n
                 PROVE  f[i] = IF i = 0 THEN 0 ELSE f[i - 1] + sizes[i]
      OBVIOUS
    <3>1. CASE i = 0
      BY <3>1
    <3>2. CASE i # 0
      <4>1. i \in 1..n /\ i - 1 \in 0..n
        BY <3>2
      <4>2. f[i] = i * size /\ f[i - 1] = (i - 1) * size /\ sizes[i] = size
        BY <4>1
      <4>3. i * size = (i - 1) * size + size
        OBVIOUS
      <4> HIDE DEF f
      <4> QED
        BY <3>2, <4>2, <4>3
    <3> QED
      BY <3>1, <3>2
  <2> QED
    BY <2>1
<1>2. before = CHOOSE g : g = Step(g)
  BY DEF Begins
<1>3. before = Step(before)
  <2> HIDE DEF Step, f, before
  <2> QED
    BY <1>1, <1>2, Zenon
<1>4. /\ before[0] = 0
      /\ \A i \in 1..n : before[i] = before[i - 1] + sizes[i]
  <2>1. \A i \in 0..n : before[i] = IF i = 0 THEN 0 ELSE before[i - 1] + sizes[i]
    BY <1>3
  <2> HIDE DEF before
  <2> QED
    BY <2>1
<1> HIDE DEF before
<1> DEFINE failing == {i \in 0..n : before[i] # i * size}
<1>5. failing = {}
  <2> SUFFICES ASSUME failing # {} PROVE FALSE
    OBVIOUS
  <2>1. PICK m \in failing : \A i \in failing : m <= i
    <3>1. failing \in SUBSET Nat
      OBVIOUS
    <3> HIDE DEF failing
    <3> QED
      BY <3>1, LeastNumber
  <2>2. m # 0
    BY <1>4, <2>1
  <2>3. m \in 1..n /\ m - 1 \in 0..n /\ before[m - 1] = (m - 1) * size /\ before[m] # m * size
    BY <2>1, <2>2
  <2>4. before[m] = (m - 1) * size + size
    BY <1>4, <2>3
  <2>5. (m - 1) * size + size = m * size
    BY <2>3
  <2> QED
    BY <2>3, <2>4, <2>5
<1> QED
  BY <1>5 DEF before

\* Opening the configuration gives the array's width and length back.
LEMMA OpenedIs ==
    ASSUME NEW array, IsArray(array), NEW lost, Losing(array, lost)
    PROVE  Opened(OpenSource(ConfigOf(array, lost)), array, lost)
<1> DEFINE config == ConfigOf(array, lost)
           n == Len(config.members)
           present == {i \in 1..n : config.members[i] # NoMember}
           found == [i \in present |-> Max({0, Len(config.members[i]) - config.offset})]
           largest == Max(Range(found) \cup {0})
           sizes == [i \in 1..n |-> IF i \in present THEN found[i] ELSE largest]
           lowest == Min(Range(sizes))
           size == Size(array)
           source == OpenSource(config)
<1>1. /\ n = array.n /\ array.n \in Nat \ {0} /\ config.offset = array.offset /\ array.offset \in Nat
      /\ config.level = array.level
      /\ present = 1..array.n \ lost
      /\ \A i \in present : config.members[i] = Written(array, i - 1)
  <2>1. /\ Len(config.members) = array.n
        /\ \A i \in 1..array.n : config.members[i] = NoMember <=> i \in lost
        /\ \A i \in 1..array.n : i \notin lost => config.members[i] = Written(array, i - 1)
    BY MembersAre
  <2>2. config.offset = array.offset /\ config.level = array.level
    BY DEF ConfigOf
  <2>3. array.n \in Nat \ {0} /\ array.offset \in Nat
    BY DEF IsArray
  <2> HIDE DEF config
  <2> QED
    BY <2>1, <2>2, <2>3
<1>2. source.n = n /\ source.config = config /\ source.sizes = sizes
  BY DEF OpenSource
<1>3. /\ array.level = "Raid0" => source.logical = lowest * Max({0, n - 0})
      /\ array.level = "Raid1" => source.logical = lowest
      /\ array.level = "Raid5" => source.logical = lowest * Max({0, n - 1})
      /\ array.level = "Raid6" => source.logical = lowest * Max({0, n - 2})
      /\ array.level = "Jbod" => source.logical = Begins(n, sizes)[n]
  <2>1. config.level = array.level
    BY <1>1
  <2> HIDE DEF config
  <2> QED
    BY <2>1 DEF OpenSource
<1> HIDE DEF config, n, present, source
<1>4. \A k \in Nat : Max({0, k}) = k
  BY MaxOfTwo
<1>5. size \in Nat \ {0} /\ \A i \in present : Len(config.members[i]) = array.offset + size
  <2>1. \A i \in present : Len(Written(array, i - 1)) = array.offset + size
    <3> SUFFICES ASSUME NEW i \in present PROVE Len(Written(array, i - 1)) = array.offset + size
      OBVIOUS
    <3>1. i - 1 \in 0..(array.n - 1)
      BY <1>1
    <3> QED
      BY <3>1, WrittenIs
  <2> QED
    BY <1>1, <2>1, ArrayIs
<1> HIDE DEF size
<1>6. \A i \in present : found[i] = size
  <2> SUFFICES ASSUME NEW i \in present PROVE found[i] = size
    OBVIOUS
  <2>1. Len(config.members[i]) - config.offset = size
    BY <1>1, <1>5
  <2>2. found[i] = Max({0, size})
    BY <2>1
  <2> QED
    BY <1>4, <1>5, <2>2
<1>7. largest = size
  <2>1. present # {}
    BY <1>1 DEF Losing
  <2>2. Range(found) = {size}
    <3>1. DOMAIN found = present
      OBVIOUS
    <3> HIDE DEF found
    <3> QED
      BY <1>6, <2>1, <3>1 DEF Range
  <2> HIDE DEF found
  <2>3. Range(found) \cup {0} = {0, size}
    BY <2>2
  <2> QED
    BY <1>4, <1>5, <2>3
<1>8. \A i \in 1..n : sizes[i] = size
  <2> HIDE DEF found, largest
  <2> QED
    BY <1>6, <1>7
<1>9. lowest = size
  <2>1. 1 \in 1..n /\ DOMAIN sizes = 1..n
    BY <1>1
  <2> HIDE DEF sizes
  <2>2. Range(sizes) = {size, size}
    BY <1>8, <2>1 DEF Range
  <2> QED
    BY <1>5, <2>2, MinOfTwo
<1> HIDE DEF lowest, sizes
<1>10. source.logical = size * Width(array)
  <2>1. Width(array) \in Nat /\ Max({0, Width(array)}) = Width(array)
    BY <1>4, ArrayIs
  <2>2. CASE array.level \in {"Raid0", "Raid5", "Raid6"}
    <3>1. source.logical = lowest * Max({0, Width(array)})
      <4>1. CASE array.level = "Raid0"
        <5>1. Width(array) = n - 0
          BY <1>1, <4>1 DEF Width
        <5> QED
          BY <1>3, <4>1, <5>1
      <4>2. CASE array.level = "Raid5"
        <5>1. Width(array) = n - 1
          BY <1>1, <4>2 DEF Width
        <5> QED
          BY <1>3, <4>2, <5>1
      <4>3. CASE array.level = "Raid6"
        <5>1. Width(array) = n - 2
          BY <1>1, <4>3 DEF Width
        <5> QED
          BY <1>3, <4>3, <5>1
      <4> QED
        BY <2>2, <4>1, <4>2, <4>3
    <3> QED
      BY <1>9, <2>1, <3>1
  <2>3. CASE array.level = "Raid1"
    <3>1. source.logical = size /\ Width(array) = 1
      BY <1>3, <1>9, <2>3 DEF Width
    <3> QED
      BY <1>5, <3>1
  <2>4. CASE array.level = "Jbod"
    <3>1. source.logical = Begins(n, sizes)[n] /\ Width(array) = n
      BY <1>1, <1>3, <2>4 DEF Width
    <3>2. Begins(n, sizes)[n] = n * size
      <4>1. n \in Nat /\ size \in Nat /\ n \in 0..n
        BY <1>1, <1>5
      <4> QED
        BY <1>8, <4>1, BeginsIs
    <3>3. n * size = size * n
      BY <1>1, <1>5
    <3> QED
      BY <3>1, <3>2, <3>3
  <2> QED
    BY <2>2, <2>3, <2>4 DEF IsArray
<1>11. size * Width(array) = Len(array.data)
  <2>1. Width(array) \in Nat /\ Len(array.data) = Width(array) * size
    BY ArrayIs DEF size
  <2> QED
    BY <1>5, <2>1
<1>12. /\ source.n = array.n /\ source.config = config /\ source.logical = Len(array.data)
       /\ \A i \in 1..array.n : source.sizes[i] = size
  BY <1>1, <1>2, <1>8, <1>10, <1>11
<1> QED
  BY <1>12 DEF Opened, source, config, size

\* A configuration that lost no more than its level bears is opened.
LEMMA OpensIs ==
    ASSUME NEW array, IsArray(array), NEW lost, Losing(array, lost),
           Tolerates(array.level, Cardinality(lost))
    PROVE  Opens(ConfigOf(array, lost))
<1> DEFINE config == ConfigOf(array, lost)
           members == config.members
           gone == {i \in DOMAIN members : members[i] = NoMember}
<1>1. /\ DOMAIN members = 1..array.n /\ \A i \in 1..array.n : members[i] = NoMember <=> i \in lost
      /\ Len(members) = array.n /\ array.n \in Nat \ {0}
  BY MembersAre DEF IsArray
<1>2. config.level = array.level /\ config.stripe > 0
  BY DEF ConfigOf, IsArray
<1> HIDE DEF config
<1>3. members # <<>>
  <2>1. Len(<<>>) = 0
    OBVIOUS
  <2> HIDE DEF members
  <2> QED
    BY <1>1, <2>1
<1>4. gone = lost
  <2> HIDE DEF members
  <2> QED
    BY <1>1 DEF Losing
<1> HIDE DEF gone
<1>5. Tolerates(config.level, Cardinality(gone))
  BY <1>2, <1>4
<1> QED
  BY <1>2, <1>3, <1>5 DEF Opens, gone, members, config

(* What a member that is there gives at an offset.                         *)
LEMMA CellIsRead ==
    ASSUME NEW array, IsArray(array), NEW lost, Losing(array, lost),
           NEW source, Opened(source, array, lost),
           NEW column \in 0..(array.n - 1), NEW cell \in 0..(Size(array) - 1),
           column + 1 \notin lost
    PROVE  /\ MemberAt(source, column) # NoMember
           /\ ByteOrZero(source, column, cell + array.offset) = Held(array, column, cell)
           /\ ByteAtPlace(source, <<column, cell + array.offset>>) = Held(array, column, cell)
<1> DEFINE n == array.n
           o == array.offset
           z == Size(array)
           members == ConfigOf(array, lost).members
           place == <<column, cell + o>>
<1>1. n \in Nat /\ o \in Nat /\ z \in Nat
  BY ArrayIs
<1>2. MemberAt(source, column) # NoMember /\ MemberAt(source, column) = Written(array, column)
  <2>1. column + 1 \in 1..n /\ (column + 1) - 1 = column
    BY <1>1
  <2>2. /\ \A k \in 1..array.n : members[k] = NoMember <=> k \in lost
        /\ \A k \in 1..array.n : k \notin lost => members[k] = Written(array, k - 1)
    BY MembersAre
  <2>3. MemberAt(source, column) = members[column + 1]
    BY DEF MemberAt, Opened
  <2> HIDE DEF members
  <2> QED
    BY <2>1, <2>2, <2>3
<1>3. /\ Len(Written(array, column)) = o + z
      /\ Written(array, column)[o + cell + 1] = Held(array, column, cell)
  BY WrittenIs
<1>4. cell + o < o + z /\ cell + o + 1 = o + cell + 1 /\ ~(cell + o >= o + z)
  <2> HIDE DEF o, z, n
  <2>1. cell \in 0..(z - 1)
    BY DEF z
  <2> QED
    BY <1>1, <2>1
<1>5. place # NoPlace /\ place[1] = column /\ place[2] = cell + o
  BY DEF NoPlace
<1>6. ByteOrZero(source, column, cell + o) = Held(array, column, cell)
  <2> HIDE DEF o, z
  <2> QED
    BY <1>2, <1>3, <1>4 DEF ByteOrZero
<1>7. ByteAtPlace(source, place) = Held(array, column, cell)
  <2> HIDE DEF o, z, place
  <2> QED
    BY <1>2, <1>3, <1>4, <1>5 DEF ByteAtPlace
<1> QED
  BY <1>2, <1>6, <1>7

\* One that was lost is reconstructed.
LEMMA LostIsReconstructed ==
    ASSUME NEW array, IsArray(array), NEW lost, Losing(array, lost),
           NEW source, Opened(source, array, lost),
           NEW column \in 0..(array.n - 1), NEW offset, column + 1 \in lost
    PROVE  /\ MemberAt(source, column) = NoMember
           /\ ByteAtPlace(source, <<column, offset>>) = Reconstructed(source, column, offset)
<1> DEFINE members == ConfigOf(array, lost).members
           place == <<column, offset>>
<1>1. MemberAt(source, column) = NoMember
  <2>1. column + 1 \in 1..array.n
    BY DEF Losing
  <2>2. \A k \in 1..array.n : members[k] = NoMember <=> k \in lost
    BY MembersAre
  <2>3. MemberAt(source, column) = members[column + 1]
    BY DEF MemberAt, Opened
  <2> HIDE DEF members
  <2> QED
    BY <2>1, <2>2, <2>3
<1>2. place # NoPlace /\ place[1] = column /\ place[2] = offset
  BY DEF NoPlace
<1> HIDE DEF place
<1>3. ByteAtPlace(source, place) = Reconstructed(source, column, offset)
  BY <1>1, <1>2 DEF ByteAtPlace
<1> QED
  BY <1>1, <1>3 DEF place

-------------------------------------------------------------------------------
(* What the columns that are known leave of a sum: the byte of the one that is not, *)
LEMMA LeftOverOne ==
    ASSUME IsExclusiveOr, NEW n, NEW C, NEW more, NEW d, NEW less, OneMore(n, C, more, d, less)
    PROVE  ByteXor(XorOf(n, more), XorOf(n, less)) = more[d]
<1> DEFINE l == XorOf(n, less)
           b == more[d]
<1>1. n \in Nat /\ less \in [C \ {d} -> Byte] /\ b \in Byte
  BY DEF OneMore
<1>2. l \in Byte
  BY <1>1, XorOfIs
<1>3. XorOf(n, more) = ByteXor(l, b)
  BY XorOfMore
<1> HIDE DEF l, b
<1>4. ByteXor(l, b) = ByteXor(b, l) /\ ByteXor(l, b) \in Byte
  BY <1>1, <1>2, ByteLaws
<1>5. ByteXor(ByteXor(l, b), l) = ByteXor(l, ByteXor(l, b))
  BY <1>2, <1>4, ByteLaws
<1>6. ByteXor(l, ByteXor(l, b)) = b
  BY <1>1, <1>2, XorCancels
<1> QED
  BY <1>3, <1>5, <1>6 DEF l, b

\* and the sum of the bytes of the two that are not.
TwoMore(n, C, more, d, e, K, less) ==
  /\ n \in Nat /\ d \in 0..(n - 1) /\ e \in 0..(n - 1) /\ d # e /\ d \in C /\ e \in C
  /\ more \in [C -> Byte] /\ less \in [K -> Byte] /\ K = C \ {d, e}
  /\ \A c \in K : less[c] = more[c]

\* What the known columns leave of a sum when two are not known.
LEMMA LeftOverTwo ==
    ASSUME IsExclusiveOr, NEW n, NEW C, NEW more, NEW d, NEW e, NEW K, NEW less,
           TwoMore(n, C, more, d, e, K, less)
    PROVE  ByteXor(XorOf(n, more), XorOf(n, less)) = ByteXor(more[d], more[e])
<1> USE DEF TwoMore
<1> DEFINE middle == [c \in C \ {d} |-> more[c]]
           l == XorOf(n, less)
           m == XorOf(n, middle)
           x == more[d]
           y == more[e]
<1>1. middle \in [C \ {d} -> Byte] /\ middle[e] = y /\ x \in Byte /\ y \in Byte
  OBVIOUS
<1>2. OneMore(n, C, more, d, middle)
  <2>1. \A c \in C \ {d} : middle[c] = more[c]
    OBVIOUS
  <2> HIDE DEF middle
  <2> QED
    BY <1>1, <2>1 DEF OneMore
<1>3. OneMore(n, C \ {d}, middle, e, less)
  <2>1. K = (C \ {d}) \ {e} /\ e \in C \ {d}
    OBVIOUS
  <2>2. \A c \in K : less[c] = middle[c]
    OBVIOUS
  <2> HIDE DEF middle
  <2> QED
    BY <1>1, <2>1, <2>2 DEF OneMore
<1>4. XorOf(n, more) = ByteXor(m, x)
  BY <1>2, XorOfMore
<1>5. m = ByteXor(l, y)
  <2> HIDE DEF middle
  <2> QED
    BY <1>1, <1>3, XorOfMore
<1>6. l \in Byte
  BY XorOfIs
<1> HIDE DEF l, m, x, y
<1>7. ByteXor(ByteXor(ByteXor(l, y), x), l) = ByteXor(x, y)
  <2>1. ByteXor(ByteXor(l, y), x) = ByteXor(l, ByteXor(y, x)) /\ ByteXor(y, x) = ByteXor(x, y)
    BY <1>1, <1>6, ByteLaws
  <2> DEFINE z == ByteXor(x, y)
  <2>2. z \in Byte
    BY <1>1, ByteLaws
  <2> HIDE DEF z
  <2>3. ByteXor(ByteXor(l, z), l) = ByteXor(l, ByteXor(l, z)) /\ ByteXor(l, ByteXor(l, z)) = z
    <3>1. ByteXor(l, z) \in Byte
      BY <1>6, <2>2, ByteLaws
    <3> QED
      BY <1>6, <2>2, <3>1, ByteLaws, XorCancels
  <2> QED
    BY <2>1, <2>3 DEF z
<1> QED
  BY <1>4, <1>5, <1>7 DEF l, m, x, y

(* The cells of a row at one offset: the blocks of data, and weighed.      *)
Block(array, row, at) == [c \in DataColumns(array, row) |-> DataCell(array, c, at)]

Weighed(array, row, at) ==
  [c \in DataColumns(array, row) |-> GfMul(GfPow(IndexIn(array, c, row)), DataCell(array, c, at))]

\* An offset behind the data offset is in the row it was made from.
LEMMA RowAt ==
    ASSUME NEW array, IsArray(array), Striped(array), NEW row \in 0..(Rows(array) - 1),
           NEW x \in 0..(array.stripe - 1), NEW at, at = row * array.stripe + x
    PROVE  /\ at \in 0..(Size(array) - 1) /\ at \div array.stripe = row /\ at % array.stripe = x
           /\ ((at + array.offset) - array.offset) \div array.stripe = row
<1> DEFINE s == array.stripe
           R == Rows(array)
<1>1. s \in Nat \ {0} /\ R \in Nat /\ row \in 0..(R - 1) /\ x \in 0..(s - 1) /\ Size(array) = R * s
      /\ array.offset \in Nat
  BY ArrayIs
<1>0. at = row * s + x
  OBVIOUS
<1> HIDE DEF s, R
<1>2. at \in 0..(R * s - 1) /\ at \div s = row /\ at % s = x
  BY <1>0, <1>1, RowOf
<1> DEFINE z == R * s
<1>3. z \in Nat /\ at \in 0..(z - 1)
  BY <1>1, <1>2
<1> HIDE DEF z
<1>4. (at + array.offset) - array.offset = at
  BY <1>1, <1>3
<1> QED
  BY <1>1, <1>2, <1>4 DEF s

\* The cells of a row: its data, their sum and their weighed sum.
LEMMA RowIs ==
    ASSUME IsExclusiveOr, NEW array, IsArray(array), Striped(array), NEW row \in 0..(Rows(array) - 1),
           NEW x \in 0..(array.stripe - 1), NEW at, at = row * array.stripe + x
    PROVE  LET p == ParityColumn(array.n, row)
               q == SecondParityColumn(array.n, row)
           IN  /\ \A c \in DataColumns(array, row) :
                    DataCell(array, c, at) \in Byte /\ CellOf(array, c, at) = DataCell(array, c, at)
               /\ Block(array, row, at) \in [DataColumns(array, row) -> Byte]
               /\ array.level \in {"Raid5", "Raid6"} => CellOf(array, p, at) = XorOf(array.n, Block(array, row, at))
               /\ array.level = "Raid6" =>
                    /\ CellOf(array, q, at) = XorOf(array.n, Weighed(array, row, at))
                    /\ Weighed(array, row, at) \in [DataColumns(array, row) -> Byte]
<1> DEFINE n == array.n
           p == ParityColumn(n, row)
           q == SecondParityColumn(n, row)
           data == DataColumns(array, row)
           block == [c \in data |-> DataCell(array, c, at)]
<1>1. at \div array.stripe = row /\ row \in Nat
  BY RowAt
<1>2. \A c \in data : DataCell(array, c, at) \in Byte
  BY DataIsBytes
<1>3. \A c \in data : CellOf(array, c, at) = DataCell(array, c, at)
  BY <1>1 DEF CellOf, DataColumns
<1>4. Block(array, row, at) \in [data -> Byte] /\ Block(array, row, at) = block
  <2> HIDE DEF data
  <2> QED
    BY <1>2 DEF Block, data
<1>5. ASSUME array.level \in {"Raid5", "Raid6"}
      PROVE  CellOf(array, p, at) = XorOf(n, Block(array, row, at))
  <2>1. p \in ParityColumns(array, row) /\ p = (n * (row + 1) - 1 - row) % n
    <3>1. CASE array.level = "Raid5"
      BY <1>1, <3>1, OneParity
    <3>2. CASE array.level = "Raid6"
      BY <1>1, <3>2, TwoParities
    <3> QED
      BY <1>5, <3>1, <3>2
  <2>2. CellOf(array, p, at) = XorOf(n, block)
    <3> HIDE DEF p
    <3> QED
      BY <1>1, <2>1 DEF CellOf
  <2> QED
    BY <1>4, <2>2
<1>6. ASSUME array.level = "Raid6"
      PROVE  /\ CellOf(array, q, at) = XorOf(n, Weighed(array, row, at))
             /\ Weighed(array, row, at) \in [data -> Byte]
  <2>1. q \in ParityColumns(array, row) /\ q # (n * (row + 1) - 1 - row) % n
    BY <1>1, <1>6, TwoParities
  <2> DEFINE index == [c \in DOMAIN block |-> IndexIn(array, c, row)]
             weighed == [c \in DOMAIN block |-> GfMul(GfPow(index[c]), block[c])]
  <2>2. CellOf(array, q, at) = WeighedXorOf(n, block, index)
    <3> HIDE DEF q
    <3> QED
      BY <1>1, <2>1 DEF CellOf
  <2>3. WeighedXorOf(n, block, index) = XorOf(n, weighed)
    BY DEF WeighedXorOf
  <2>4. weighed = Weighed(array, row, at)
    <3>1. DOMAIN block = data
      OBVIOUS
    <3>2. \A c \in data : GfMul(GfPow(index[c]), block[c]) = GfMul(GfPow(IndexIn(array, c, row)), DataCell(array, c, at))
      OBVIOUS
    <3> HIDE DEF block, index, data
    <3> QED
      BY <3>1, <3>2 DEF Weighed, data
  <2>5. \A c \in data : GfMul(GfPow(IndexIn(array, c, row)), DataCell(array, c, at)) \in Byte
    <3> SUFFICES ASSUME NEW c \in data
                 PROVE  GfMul(GfPow(IndexIn(array, c, row)), DataCell(array, c, at)) \in Byte
      OBVIOUS
    <3> DEFINE i == IndexIn(array, c, row)
               b == DataCell(array, c, at)
    <3>1. i \in 0..254
      <4>1. i \in 0..(Width(array) - 1)
        BY <1>1, DataColumnIs
      <4>2. Width(array) = array.n - 2 /\ array.n \in 4..256
        BY <1>6 DEF Width, IsArray
      <4> HIDE DEF i
      <4>3. Width(array) \in Nat /\ Width(array) <= 254
        BY <4>2
      <4> QED
        BY <4>1, <4>3
    <3>2. b \in Byte
      BY <1>2
    <3> HIDE DEF i, b
    <3>3. GfPow(i) \in Byte
      BY <3>1, PowIs
    <3> DEFINE w == GfPow(i)
    <3> HIDE DEF w
    <3>4. GfMul(w, b) \in Byte
      BY <3>2, <3>3, GfMulIs DEF w
    <3> QED
      BY <3>4 DEF w, i, b
  <2>6. Weighed(array, row, at) \in [data -> Byte]
    <3> HIDE DEF data
    <3> QED
      BY <2>5 DEF Weighed, data
  <2> QED
    BY <2>2, <2>3, <2>4, <2>6
<1> QED
  BY <1>2, <1>3, <1>4, <1>5, <1>6

-------------------------------------------------------------------------------
(* What is found missing when a lost member is read.                       *)
Gone(source, column) == {c \in (0..source.n - 1) \ {column} : MemberAt(source, c) = NoMember}

\* It is the other members that were lost.
LEMMA GoneIs ==
    ASSUME NEW array, IsArray(array), NEW lost, Losing(array, lost),
           NEW source, Opened(source, array, lost), NEW column \in 0..(array.n - 1)
    PROVE  \A c : c \in Gone(source, column) <=> c \in 0..(array.n - 1) /\ c # column /\ c + 1 \in lost
<1>1. ASSUME NEW c \in 0..(array.n - 1)
      PROVE  MemberAt(source, c) = NoMember <=> c + 1 \in lost
  <2>1. array.n \in Nat
    BY DEF IsArray
  <2> DEFINE members == ConfigOf(array, lost).members
  <2>2. c + 1 \in 1..array.n
    BY <2>1
  <2>3. \A k \in 1..array.n : members[k] = NoMember <=> k \in lost
    BY MembersAre
  <2>4. MemberAt(source, c) = members[c + 1]
    BY DEF MemberAt, Opened
  <2> HIDE DEF members
  <2> QED
    BY <2>2, <2>3, <2>4
<1>2. source.n = array.n
  BY DEF Opened
<1> QED
  BY <1>1, <1>2 DEF Gone

(* RAID 5: what the members give for the others gives back the lost one.   *)
LEMMA ReconstructedIs ==
    ASSUME IsExclusiveOr, NEW array, IsArray(array), array.level = "Raid5",
           NEW row \in 0..(Rows(array) - 1), NEW x \in 0..(array.stripe - 1),
           NEW d \in DataColumns(array, row),
           NEW source, Opened(source, array, {d + 1}), Losing(array, {d + 1})
    PROVE  Reconstructed(source, d, row * array.stripe + x + array.offset)
             = DataCell(array, d, row * array.stripe + x)
<1> DEFINE n == array.n
           at == row * array.stripe + x
           offset == at + array.offset
           others == (0..(n - 1)) \ {d}
           p == ParityColumn(n, row)
           data == DataColumns(array, row)
           block == Block(array, row, at)
           rest == [c \in data \ {d} |-> block[c]]
           read == [c \in others |-> ByteOrZero(source, c, offset)]
<1>0. Striped(array) /\ row \in Nat /\ n \in Nat
  BY DEF Striped, IsArray
<1>1. at \in 0..(Size(array) - 1)
  BY <1>0, RowAt
<1>2. p \in 0..(n - 1) /\ data = (0..(n - 1)) \ {p} /\ d \in data /\ d \in 0..(n - 1) /\ d # p
  <2>1. p \in 0..(n - 1) /\ ParityColumns(array, row) = {p}
    BY <1>0, OneParity
  <2> HIDE DEF p
  <2> QED
    BY <2>1 DEF DataColumns
<1> HIDE DEF at
<1>3. /\ \A c \in data : DataCell(array, c, at) \in Byte /\ CellOf(array, c, at) = DataCell(array, c, at)
      /\ block \in [data -> Byte] /\ CellOf(array, p, at) = XorOf(n, block)
  BY <1>0, RowIs DEF at
<1>4. \A c \in data : block[c] = DataCell(array, c, at)
  BY DEF Block
<1> HIDE DEF p, data, block
<1>5. Gone(source, d) = {}
  BY <1>0, <1>2, GoneIs
<1>6. \A c \in others : ByteOrZero(source, c, offset) = CellOf(array, c, at)
  <2> SUFFICES ASSUME NEW c \in others PROVE ByteOrZero(source, c, offset) = CellOf(array, c, at)
    OBVIOUS
  <2> DEFINE lost == {d + 1}
  <2>1. c \in 0..(array.n - 1) /\ c + 1 \notin lost /\ Opened(source, array, lost) /\ Losing(array, lost)
    BY <1>0, <1>2
  <2> HIDE DEF lost, others, n
  <2>2. ByteOrZero(source, c, at + array.offset) = Held(array, c, at)
    BY <1>1, <2>1, CellIsRead
  <2> QED
    BY <2>2 DEF Held
<1>7. Reconstructed(source, d, offset) = XorOf(n, read)
  <2> DEFINE seen == [c \in (0..source.n - 1) \ {d} |-> ByteOrZero(source, c, offset)]
  <2> HIDE DEF offset
  <2>1. Reconstructed(source, d, offset) = XorOf(source.n, seen)
    <3>1. {c \in (0..source.n - 1) \ {d} : MemberAt(source, c) = NoMember} = {}
      BY <1>5 DEF Gone
    <3>2. source.config.level = "Raid5"
      BY DEF Opened, ConfigOf
    <3> QED
      BY <3>1, <3>2 DEF Reconstructed
  <2>2. source.n = n
    BY DEF Opened
  <2> QED
    BY <2>1, <2>2
<1> HIDE DEF offset
<1>8. p \in others /\ others \ {p} = data \ {d} /\ (\A c \in others : c = p \/ c \in data)
  BY <1>2
<1>9. /\ read \in [others -> Byte] /\ read[p] = XorOf(n, block)
      /\ \A c \in data \ {d} : read[c] = block[c]
  <2>1. \A c \in others : read[c] = CellOf(array, c, at)
    BY <1>6
  <2>2. \A c \in others : c \in data => CellOf(array, c, at) = block[c] /\ block[c] \in Byte
    BY <1>3, <1>4
  <2>3. XorOf(n, block) \in Byte
    BY <1>0, <1>3, XorOfIs
  <2>4. read = [c \in others |-> read[c]]
    OBVIOUS
  <2> HIDE DEF read
  <2>5. \A c \in others : read[c] \in Byte
    BY <1>3, <1>8, <2>1, <2>2, <2>3
  <2>6. read \in [others -> Byte]
    BY <2>4, <2>5
  <2>7. \A c \in data \ {d} : c \in others
    BY <1>8
  <2> QED
    BY <1>3, <1>8, <2>1, <2>2, <2>6, <2>7
<1>10. rest \in [data \ {d} -> Byte] /\ \A c \in data \ {d} : rest[c] = block[c]
  BY <1>3
<1> HIDE DEF read, rest
<1>11. OneMore(n, data, block, d, rest)
  BY <1>0, <1>2, <1>3, <1>10 DEF OneMore
<1>12. OneMore(n, others, read, p, rest)
  BY <1>0, <1>2, <1>8, <1>9, <1>10 DEF OneMore
<1> HIDE DEF others
<1>13. XorOf(n, read) = ByteXor(XorOf(n, rest), XorOf(n, block))
  BY <1>9, <1>12, XorOfMore
<1>14. ByteXor(XorOf(n, block), XorOf(n, rest)) = block[d]
  BY <1>11, LeftOverOne
<1>15. XorOf(n, block) \in Byte /\ XorOf(n, rest) \in Byte
  <2>1. XorOf(n, block) \in Byte
    BY <1>0, <1>3, XorOfIs
  <2> DEFINE C == data \ {d}
  <2>2. rest \in [C -> Byte]
    BY <1>10
  <2> HIDE DEF C
  <2> QED
    BY <1>0, <2>1, <2>2, XorOfIs
<1>16. XorOf(n, read) = block[d]
  <2> DEFINE a == XorOf(n, block)
             b == XorOf(n, rest)
  <2>1. a \in Byte /\ b \in Byte
    BY <1>15
  <2> HIDE DEF a, b
  <2>2. ByteXor(a, b) = ByteXor(b, a)
    BY <2>1, ByteLaws
  <2> QED
    BY <1>13, <1>14, <2>2 DEF a, b
<1> QED
  BY <1>2, <1>4, <1>7, <1>16 DEF offset, at

(* RAID 6: the two unknowns of a row are solved for the one that is read.   *)
LEMMA SolvedIs ==
    ASSUME IsExclusiveOr, NEW array, IsArray(array), array.level = "Raid6",
           NEW row \in 0..(Rows(array) - 1), NEW x \in 0..(array.stripe - 1),
           NEW d \in DataColumns(array, row), NEW e \in 0..(array.n - 1), d # e,
           NEW source, Opened(source, array, {d + 1, e + 1}), Losing(array, {d + 1, e + 1})
    PROVE  SolvedInRow(source, d, e, row * array.stripe + x + array.offset,
                       ParityColumn(array.n, row), SecondParityColumn(array.n, row))
             = DataCell(array, d, row * array.stripe + x)
<1> DEFINE n == array.n
           at == row * array.stripe + x
           offset == at + array.offset
           p == ParityColumn(n, row)
           q == SecondParityColumn(n, row)
           data == DataColumns(array, row)
           block == Block(array, row, at)
           weighed == Weighed(array, row, at)
           K == (0..(n - 1)) \ {d, e, p, q}
           known == [c \in K |-> ByteOrZero(source, c, offset)]
           index == [c \in 0..(n - 1) |-> DataIndex(n, p, q, c)]
           knownWeighed == [c \in K |-> GfMul(GfPow(index[c]), known[c])]
           left == ByteXor(ByteOrZero(source, p, offset), XorOf(n, known))
           leftWeighed == ByteXor(ByteOrZero(source, q, offset), WeighedXorOf(n, known, index))
           u == GfPow(index[d])
           v == GfPow(index[e])
<1>0. Striped(array) /\ row \in Nat /\ n \in 4..256 /\ n \in Nat
  BY DEF Striped, IsArray
<1>1. at \in 0..(Size(array) - 1)
  BY <1>0, RowAt
<1>2. /\ p \in 0..(n - 1) /\ q \in 0..(n - 1) /\ p # q /\ ParityColumns(array, row) = {p, q}
      /\ data = (0..(n - 1)) \ {p, q} /\ d \in data /\ d \in 0..(n - 1) /\ d # p /\ d # q
  <2>1. p \in 0..(n - 1) /\ q \in 0..(n - 1) /\ p # q /\ ParityColumns(array, row) = {p, q}
    BY <1>0, TwoParities
  <2> HIDE DEF p, q
  <2> QED
    BY <2>1 DEF DataColumns
<1>3. \A c \in 0..(n - 1) : index[c] = IndexIn(array, c, row)
  <2> SUFFICES ASSUME NEW c \in 0..(n - 1) PROVE index[c] = IndexIn(array, c, row)
    OBVIOUS
  <2>1. {k \in 0..c - 1 : k \notin {p, q}} = (0..c - 1) \ ParityColumns(array, row)
    BY <1>2
  <2> QED
    BY <2>1 DEF DataIndex, IndexIn
<1> HIDE DEF at
<1>4. /\ \A c \in data : DataCell(array, c, at) \in Byte /\ CellOf(array, c, at) = DataCell(array, c, at)
      /\ block \in [data -> Byte] /\ CellOf(array, p, at) = XorOf(n, block)
      /\ weighed \in [data -> Byte] /\ CellOf(array, q, at) = XorOf(n, weighed)
  BY <1>0, RowIs DEF at
<1>5. \A c \in data : block[c] = DataCell(array, c, at) /\ weighed[c] = GfMul(GfPow(index[c]), block[c])
  <2>1. \A c \in data : block[c] = DataCell(array, c, at)
    BY DEF Block
  <2>2. \A c \in data : weighed[c] = GfMul(GfPow(IndexIn(array, c, row)), DataCell(array, c, at))
    BY DEF Weighed
  <2>3. \A c \in data : c \in 0..(n - 1)
    BY <1>2
  <2> HIDE DEF data, block, weighed, index
  <2> QED
    BY <1>3, <2>1, <2>2, <2>3
<1>6. source.n = n
  BY DEF Opened
<1>7. WeighedXorOf(n, known, index) = XorOf(n, knownWeighed)
  <2>1. DOMAIN known = K
    OBVIOUS
  <2> HIDE DEF known, index, K
  <2> QED
    BY <2>1 DEF WeighedXorOf
<1>8. SolvedInRow(source, d, e, offset, p, q) = SolvedFor(d, e, p, q, left, leftWeighed, u, v)
  <2> HIDE DEF p, q, offset, n
  <2> QED
    BY <1>6 DEF SolvedInRow
<1> HIDE DEF p, q, data, block, weighed, index
<1>9. \A c \in 0..(n - 1) : c # d /\ c # e => ByteOrZero(source, c, offset) = CellOf(array, c, at)
  <2> SUFFICES ASSUME NEW c \in 0..(n - 1), c # d, c # e
               PROVE  ByteOrZero(source, c, offset) = CellOf(array, c, at)
    OBVIOUS
  <2>1. c + 1 \notin {d + 1, e + 1}
    BY <1>0, <1>2
  <2>2. ByteOrZero(source, c, offset) = Held(array, c, at)
    BY <1>1, <2>1, CellIsRead
  <2> QED
    BY <2>2 DEF Held
<1> HIDE DEF offset
<1>10. /\ \A c \in K : c \in data /\ c # d /\ c # e
       /\ e \in {p, q} => K = data \ {d}
       /\ e \notin {p, q} => e \in data /\ K = data \ {d, e}
  BY <1>2
<1>11. \A c \in K : known[c] = block[c] /\ block[c] \in Byte /\ weighed[c] \in Byte
  <2> SUFFICES ASSUME NEW c \in K PROVE known[c] = block[c] /\ block[c] \in Byte /\ weighed[c] \in Byte
    OBVIOUS
  <2>1. c \in data /\ c # d /\ c # e /\ c \in 0..(n - 1)
    BY <1>10
  <2>2. known[c] = ByteOrZero(source, c, offset)
    OBVIOUS
  <2> HIDE DEF known, K
  <2> QED
    BY <1>4, <1>5, <1>9, <2>1, <2>2
<1>12. known \in [K -> Byte] /\ \A c \in K : known[c] = block[c]
  <2>1. known = [c \in K |-> known[c]]
    OBVIOUS
  <2> HIDE DEF known, K
  <2> QED
    BY <1>11, <2>1
<1> HIDE DEF known
<1>13. knownWeighed \in [K -> Byte] /\ \A c \in K : knownWeighed[c] = weighed[c]
  <2>1. \A c \in K : knownWeighed[c] = weighed[c] /\ weighed[c] \in Byte
    <3> SUFFICES ASSUME NEW c \in K PROVE knownWeighed[c] = weighed[c] /\ weighed[c] \in Byte
      OBVIOUS
    <3>1. knownWeighed[c] = GfMul(GfPow(index[c]), known[c])
      OBVIOUS
    <3> HIDE DEF K, knownWeighed
    <3> QED
      BY <1>5, <1>10, <1>11, <3>1
  <2>2. knownWeighed = [c \in K |-> knownWeighed[c]]
    OBVIOUS
  <2> HIDE DEF knownWeighed, K
  <2> QED
    BY <2>1, <2>2
<1> HIDE DEF knownWeighed, K
<1>14. block[d] = DataCell(array, d, at) /\ block[d] \in Byte /\ weighed[d] = GfMul(u, block[d]) /\ u \in 1..255
  <2>1. index[d] \in 0..254
    <3>1. index[d] = IndexIn(array, d, row) /\ IndexIn(array, d, row) \in 0..(Width(array) - 1)
      BY <1>0, <1>2, <1>3, DataColumnIs
    <3>2. Width(array) = n - 2
      BY DEF Width
    <3> HIDE DEF n
    <3> QED
      BY <1>0, <3>1, <3>2
  <2>2. u \in 1..255
    <3> DEFINE i == index[d]
    <3>1. i \in 0..254
      BY <2>1
    <3> HIDE DEF i
    <3>2. GfPow(i) \in 1..255
      BY <3>1, PowersPositive
    <3> QED
      BY <3>2 DEF i
  <2> QED
    BY <1>2, <1>4, <1>5, <2>2
<1>15. CASE e = p
  <2>1. SolvedFor(d, e, p, q, left, leftWeighed, u, v) = GfDiv(leftWeighed, u)
    <3> HIDE DEF left, leftWeighed, u, v
    <3> QED
      BY <1>2, <1>15 DEF SolvedFor
  <2>2. OneMore(n, data, weighed, d, knownWeighed)
    BY <1>0, <1>2, <1>4, <1>10, <1>13, <1>15 DEF OneMore
  <2>3. ByteXor(XorOf(n, weighed), XorOf(n, knownWeighed)) = weighed[d]
    BY <2>2, LeftOverOne
  <2>4. leftWeighed = weighed[d]
    BY <1>2, <1>4, <1>7, <1>9, <1>15, <2>3
  <2>5. GfDiv(GfMul(u, block[d]), u) = block[d]
    BY <1>14, GfDivIs
  <2> QED
    BY <1>8, <1>14, <2>1, <2>4, <2>5 DEF offset, at, p, q
<1>16. CASE e = q
  <2>1. SolvedFor(d, e, p, q, left, leftWeighed, u, v) = left
    <3> HIDE DEF left, leftWeighed, u, v
    <3> QED
      BY <1>2, <1>16 DEF SolvedFor
  <2>2. OneMore(n, data, block, d, known)
    BY <1>0, <1>2, <1>4, <1>10, <1>12, <1>16 DEF OneMore
  <2>3. ByteXor(XorOf(n, block), XorOf(n, known)) = block[d]
    BY <2>2, LeftOverOne
  <2>4. left = block[d]
    BY <1>2, <1>4, <1>9, <1>16, <2>3
  <2> QED
    BY <1>8, <1>14, <2>1, <2>4 DEF offset, at, p, q
<1>17. CASE e # p /\ e # q
  <2>1. e \in data /\ K = data \ {d, e}
    BY <1>10, <1>17
  <2>2. /\ block[e] \in Byte /\ weighed[e] = GfMul(v, block[e])
        /\ index[d] \in 0..254 /\ index[e] \in 0..254 /\ index[d] # index[e]
    <3>1. /\ index[d] = IndexIn(array, d, row) /\ IndexIn(array, d, row) \in 0..(Width(array) - 1)
          /\ index[e] = IndexIn(array, e, row) /\ IndexIn(array, e, row) \in 0..(Width(array) - 1)
      BY <1>0, <1>2, <1>3, <2>1, DataColumnIs DEF data
    <3>2. Width(array) = n - 2
      BY DEF Width
    <3>3. IndexIn(array, d, row) # IndexIn(array, e, row)
      BY <1>0, <2>1, IndicesApart DEF data
    <3>4. \A k \in 0..(Width(array) - 1) : k \in 0..254
      <4> HIDE DEF n
      <4> QED
        BY <1>0, <3>2
    <3> QED
      BY <1>4, <1>5, <2>1, <3>1, <3>3, <3>4
  <2>3. u # v /\ u \in Byte /\ v \in Byte
    <3> DEFINE i == index[d]
               j == index[e]
    <3>1. i \in 0..254 /\ j \in 0..254 /\ i # j
      BY <2>2
    <3> HIDE DEF i, j
    <3>2. GfPow(i) # GfPow(j) /\ GfPow(i) \in Byte /\ GfPow(j) \in Byte
      <4>1. i < j \/ j < i
        BY <3>1
      <4> QED
        BY <3>1, <4>1, PowersApart, PowIs
    <3> QED
      BY <3>2 DEF i, j
  <2>4. SolvedFor(d, e, p, q, left, leftWeighed, u, v)
          = GfDiv(ByteXor(leftWeighed, GfMul(v, left)), ByteXor(u, v))
    <3> HIDE DEF left, leftWeighed, u, v
    <3> QED
      BY <1>2, <1>17, <2>3 DEF SolvedFor
  <2>5. left = ByteXor(block[d], block[e])
    <3>1. known \in [K -> Byte] /\ \A c \in K : known[c] = block[c]
      BY <1>12
    <3>2. d \in 0..(n - 1) /\ e \in 0..(n - 1) /\ n \in Nat /\ block \in [data -> Byte]
          /\ d \in data /\ e \in data /\ d # e /\ K = data \ {d, e}
      BY <1>0, <1>2, <1>4, <2>1
    <3> HIDE DEF n
    <3>3. TwoMore(n, data, block, d, e, K, known)
      BY <3>1, <3>2 DEF TwoMore
    <3>4. ByteXor(XorOf(n, block), XorOf(n, known)) = ByteXor(block[d], block[e])
      BY <3>3, LeftOverTwo
    <3> QED
      BY <1>2, <1>4, <1>9, <1>17, <3>4
  <2>6. leftWeighed = ByteXor(weighed[d], weighed[e])
    <3>1. knownWeighed \in [K -> Byte] /\ \A c \in K : knownWeighed[c] = weighed[c]
      BY <1>13
    <3>2. d \in 0..(n - 1) /\ e \in 0..(n - 1) /\ n \in Nat /\ weighed \in [data -> Byte]
          /\ d \in data /\ e \in data /\ d # e /\ K = data \ {d, e}
      BY <1>0, <1>2, <1>4, <2>1
    <3> HIDE DEF n
    <3>3. TwoMore(n, data, weighed, d, e, K, knownWeighed)
      BY <3>1, <3>2 DEF TwoMore
    <3>4. ByteXor(XorOf(n, weighed), XorOf(n, knownWeighed)) = ByteXor(weighed[d], weighed[e])
      BY <3>3, LeftOverTwo
    <3> QED
      BY <1>2, <1>4, <1>7, <1>9, <1>17, <3>4
  <2> DEFINE a == block[d]
             b == block[e]
  <2>7. /\ left = ByteXor(a, b) /\ leftWeighed = ByteXor(GfMul(u, a), GfMul(v, b))
        /\ a \in Byte /\ b \in Byte
    BY <1>14, <2>2, <2>5, <2>6
  <2> HIDE DEF left, leftWeighed, u, v, a, b
  <2>8. GfDiv(ByteXor(ByteXor(GfMul(u, a), GfMul(v, b)), GfMul(v, ByteXor(a, b))), ByteXor(u, v)) = a
    BY <2>3, <2>7, TwoUnknown
  <2> QED
    BY <1>8, <1>14, <2>4, <2>7, <2>8 DEF offset, at, p, q, a
<1> QED
  BY <1>15, <1>16, <1>17 DEF offset, at, p, q

\* A data block of a RAID 6 array that lost two members is built back, whatever the
\* other one held in that row.
LEMMA ReconstructedOfTwo ==
    ASSUME IsExclusiveOr, NEW array, IsArray(array), array.level = "Raid6",
           NEW row \in 0..(Rows(array) - 1), NEW x \in 0..(array.stripe - 1),
           NEW d \in DataColumns(array, row), NEW e \in 0..(array.n - 1), d # e,
           NEW source, Opened(source, array, {d + 1, e + 1}), Losing(array, {d + 1, e + 1})
    PROVE  Reconstructed(source, d, row * array.stripe + x + array.offset)
             = DataCell(array, d, row * array.stripe + x)
<1> DEFINE n == array.n
           o == array.offset
           s == array.stripe
           at == row * s + x
           offset == at + o
           p == ParityColumn(n, row)
           q == SecondParityColumn(n, row)
<1>1. /\ source.n = n /\ source.config.level = "Raid6" /\ source.config.offset = o
      /\ source.config.stripe = s
  BY DEF Opened, ConfigOf
<1>2. d \in 0..(n - 1) /\ n \in Nat
  BY DEF DataColumns, IsArray
<1>3. Gone(source, d) = {e}
  <2> DEFINE lost == {d + 1, e + 1}
  <2>1. Opened(source, array, lost) /\ Losing(array, lost)
    OBVIOUS
  <2>2. \A c \in 0..(n - 1) : c + 1 \in lost <=> c = d \/ c = e
    BY <1>2
  <2> HIDE DEF lost
  <2>3. \A c : c \in Gone(source, d) <=> c \in 0..(array.n - 1) /\ c # d /\ c + 1 \in lost
    BY <1>2, <2>1, GoneIs
  <2> QED
    BY <2>2, <2>3
<1>4. (offset - o) \div s = row
  <2>1. Striped(array)
    BY DEF Striped
  <2>2. at = row * array.stripe + x
    OBVIOUS
  <2> HIDE DEF at
  <2>3. ((at + array.offset) - array.offset) \div array.stripe = row
    BY <2>1, <2>2, RowAt
  <2> QED
    BY <2>3
<1> HIDE DEF offset
<1>5. Reconstructed(source, d, offset) = SolvedInRow(source, d, e, offset, p, q)
  <2> DEFINE gone == {c \in (0..source.n - 1) \ {d} : MemberAt(source, c) = NoMember}
  <2>1. gone = {e}
    BY <1>3 DEF Gone
  <2> HIDE DEF gone
  <2>2. gone # {} /\ Cardinality(gone) = 1 /\ (CHOOSE c \in gone : TRUE) = e
    BY <2>1, FS_Singleton
  <2>3. Reconstructed(source, d, offset)
          = SolvedInRow(source, d, CHOOSE c \in gone : TRUE, offset,
                        ParityColumn(source.n, (offset - source.config.offset) \div source.config.stripe),
                        SecondParityColumn(source.n, (offset - source.config.offset) \div source.config.stripe))
    <3> USE DEF gone
    <3> HIDE DEF n, o, s, p, q
    <3> QED
      BY <1>1, <2>2 DEF Reconstructed
  <2> QED
    BY <1>1, <1>4, <2>2, <2>3
<1>6. SolvedInRow(source, d, e, offset, p, q) = DataCell(array, d, row * s + x)
  BY SolvedIs DEF offset
<1> QED
  BY <1>5, <1>6 DEF offset

(* RAID 1: the other member of a mirror.                                   *)
LEMMA MirrorIs ==
    ASSUME IsExclusiveOr, NEW array, IsArray(array), array.level = "Raid1", array.n = 2,
           NEW source, Opened(source, array, {1}), NEW at \in 0..(Size(array) - 1)
    PROVE  Reconstructed(source, 0, at + array.offset) = Held(array, 1, at)
<1> DEFINE b == Held(array, 1, at)
           offset == at + array.offset
           lost == {1}
           read == [c \in {1} |-> ByteOrZero(source, c, offset)]
           none == [c \in {1} \ {1} |-> 0]
           sum == XorUpTo(2, none)
<1>1. b \in Byte
  <2>1. Width(array) = 1
    BY DEF Width
  <2>2. array.data \in Seq(Byte) /\ Len(array.data) = 1 * Size(array) /\ Size(array) \in Nat
    BY <2>1, ArrayIs
  <2>3. at + 1 \in 1..Len(array.data)
    BY <2>2
  <2> QED
    BY <2>2, <2>3 DEF Held
<1>2. Losing(array, lost) /\ Opened(source, array, lost) /\ source.n = 2
  <2>1. 1 \in 1..2 /\ 2 \in 1..2 /\ 2 \notin {1}
    OBVIOUS
  <2> QED
    BY <2>1 DEF Losing, Opened
<1>3. 0 \in 0..(array.n - 1) /\ 1 \in 0..(array.n - 1) /\ 1 + 1 \notin lost
  OBVIOUS
<1> HIDE DEF lost
<1>4. Gone(source, 0) = {}
  <2>1. \A c : c \in Gone(source, 0) <=> c \in 0..(array.n - 1) /\ c # 0 /\ c + 1 \in lost
    BY <1>2, <1>3, GoneIs
  <2>2. \A c \in 0..(array.n - 1) : c # 0 => c = 1
    OBVIOUS
  <2> QED
    BY <1>3, <2>1, <2>2
<1>5. read[1] = b
  <2>1. ByteOrZero(source, 1, offset) = Held(array, 1, at)
    BY <1>2, <1>3, CellIsRead
  <2> QED
    BY <2>1
<1> HIDE DEF offset, b
<1>6. Reconstructed(source, 0, offset) = XorOf(2, read)
  <2> DEFINE seen == [c \in (0..source.n - 1) \ {0} |-> ByteOrZero(source, c, offset)]
  <2>1. Reconstructed(source, 0, offset) = XorOf(source.n, seen)
    <3>1. {c \in (0..source.n - 1) \ {0} : MemberAt(source, c) = NoMember} = {}
      BY <1>4 DEF Gone
    <3>2. source.config.level = "Raid1"
      BY DEF Opened, ConfigOf
    <3> QED
      BY <3>1, <3>2 DEF Reconstructed
  <2>2. (0..source.n - 1) \ {0} = {1}
    BY <1>2
  <2> QED
    BY <1>2, <2>1, <2>2
<1>7. read \in [{1} -> Byte] /\ none \in [{1} \ {1} -> Byte]
  <2>1. read = [c \in {1} |-> read[c]]
    OBVIOUS
  <2> HIDE DEF read
  <2>2. read \in [{1} -> Byte]
    BY <1>1, <1>5, <2>1
  <2> QED
    BY <2>2
<1>8. OneMore(2, {1}, read, 1, none)
  <2> HIDE DEF read, none
  <2> QED
    BY <1>7 DEF OneMore
<1>9. XorOf(2, none) = 0
  <2> DEFINE C == {1} \ {1}
  <2>1. none \in [C -> Byte] /\ 2 \in Nat /\ C = {}
    BY <1>7
  <2> HIDE DEF none, C
  <2>2. Summed(sum, 2, C, none)
    BY <2>1, XorUpToIs
  <2> HIDE DEF sum
  <2>3. sum[0] = 0 /\ \A c \in 1..2 : sum[c] = sum[c - 1]
    BY <2>1, <2>2 DEF Summed
  <2>4. sum[1] = sum[0]
    <3>1. 1 \in 1..2 /\ 1 - 1 = 0
      OBVIOUS
    <3> QED
      BY <2>3, <3>1
  <2>5. sum[2] = sum[1]
    <3>1. 2 \in 1..2 /\ 2 - 1 = 1
      OBVIOUS
    <3> QED
      BY <2>3, <3>1
  <2> QED
    BY <2>3, <2>4, <2>5 DEF XorOf, sum
<1> HIDE DEF read, none, sum
<1>10. XorOf(2, read) = ByteXor(0, b)
  BY <1>5, <1>8, <1>9, XorOfMore
<1>11. ByteXor(0, b) = b
  BY <1>1, ByteLaws
<1> QED
  BY <1>6, <1>10, <1>11 DEF b, offset

(* JBOD: the member that holds a byte.                                     *)
LEMMA HolderIs ==
    ASSUME NEW array, IsArray(array), array.level = "Jbod",
           NEW source, Opened(source, array, {}), NEW at \in 0..(Len(array.data) - 1)
    PROVE  \E c \in 0..(array.n - 1), x \in 0..(Size(array) - 1) :
             at = c * Size(array) + x /\ Translate(source, at) = <<c, x + array.offset>>
<1> DEFINE n == array.n
           z == Size(array)
           c == at \div z
           x == at % z
           before == Begins(source.n, source.sizes)
           holders == {i \in 1..source.n : at < before[i]}
<1>1. n \in Nat /\ n >= 2 /\ z \in Nat \ {0} /\ Len(array.data) = n * z /\ at \in Nat /\ at < n * z
  <2>1. Width(array) = n
    BY DEF Width
  <2>2. n \in Nat /\ n >= 2 /\ z \in Nat \ {0} /\ Len(array.data) = n * z /\ Len(array.data) \in Nat
    BY <2>1, ArrayIs
  <2> DEFINE l == n * z
  <2> HIDE DEF n, z, l
  <2> QED
    BY <2>2 DEF l
<1>2. source.n = n /\ source.config.level = "Jbod" /\ source.config.offset = array.offset
      /\ \A i \in 1..n : source.sizes[i] = z
  BY DEF Opened, ConfigOf
<1>3. \A i \in 0..n : before[i] = i * z
  <2> DEFINE sizes == source.sizes
  <2>1. \A i \in 1..n : sizes[i] = z
    BY <1>2
  <2> HIDE DEF n, z, sizes
  <2>2. n \in Nat /\ z \in Nat
    BY <1>1
  <2>3. \A i \in 0..n : Begins(n, sizes)[i] = i * z
    BY <2>1, <2>2, BeginsIs, Zenon
  <2> QED
    BY <1>2, <2>3 DEF sizes
<1> HIDE DEF before
<1>4. c \in Nat /\ x \in 0..(z - 1) /\ at = z * c + x /\ z * c = c * z /\ c * z \in Nat
  <2> HIDE DEF z
  <2>1. c \in Nat /\ x \in 0..(z - 1) /\ at = z * c + x
    BY <1>1, DivMod
  <2> HIDE DEF c
  <2> QED
    BY <1>1, <2>1
<1> HIDE DEF c, x, n, z
<1>5. \A i \in 0..n : before[i] <= at <=> i <= c
  <2> SUFFICES ASSUME NEW i \in 0..n PROVE before[i] <= at <=> i <= c
    OBVIOUS
  <2>0. before[i] = i * z
    BY <1>3
  <2>1. CASE i <= c
    <3>1. z * c >= z * i
      BY <1>1, <1>4, <2>1, ProductGrows
    <3>2. z * i = i * z /\ i * z \in Nat
      BY <1>1
    <3> DEFINE y == i * z
               w == c * z
    <3>3. w >= y /\ at = w + x /\ w \in Nat /\ y \in Nat /\ before[i] = y
      BY <1>4, <2>0, <3>1, <3>2
    <3> HIDE DEF y, w
    <3>4. before[i] <= at
      BY <1>1, <1>4, <3>3
    <3> QED
      BY <2>1, <3>4
  <2>2. CASE ~(i <= c)
    <3>1. z * i >= z * (c + 1)
      <4>1. i \in Nat /\ c + 1 \in Nat /\ i >= c + 1 /\ z \in Nat
        BY <1>1, <1>4, <2>2
      <4> DEFINE k == c + 1
      <4> HIDE DEF k
      <4>2. z * i >= z * k
        BY <4>1, ProductGrows DEF k
      <4> QED
        BY <4>2 DEF k
    <3>2. z * i = i * z /\ i * z \in Nat /\ z * (c + 1) = c * z + z
      BY <1>1, <1>4
    <3> DEFINE y == i * z
               w == c * z
    <3>3. y >= w + z /\ at = w + x /\ w \in Nat /\ y \in Nat /\ before[i] = y
      BY <1>4, <2>0, <3>1, <3>2
    <3> HIDE DEF y, w
    <3>4. ~(before[i] <= at)
      BY <1>1, <1>4, <3>3
    <3> QED
      BY <2>2, <3>4
  <2> QED
    BY <2>1, <2>2
<1>6. c \in 0..(n - 1) /\ c + 1 \in 1..n
  <2>1. before[n] = n * z /\ n \in 0..n
    BY <1>1, <1>3
  <2> DEFINE y == n * z
  <2>2. y \in Nat /\ at < y /\ before[n] = y
    BY <1>1, <2>1
  <2> HIDE DEF y
  <2>3. ~(before[n] <= at)
    BY <1>1, <2>2
  <2>4. ~(n <= c)
    BY <1>5, <2>1, <2>3
  <2> QED
    BY <1>1, <1>4, <2>4
<1>7. holders = (c + 1)..n
  <2>1. \A i \in 1..n : before[i] \in Nat
    <3> SUFFICES ASSUME NEW i \in 1..n PROVE before[i] \in Nat
      OBVIOUS
    <3>1. before[i] = i * z
      BY <1>3
    <3> QED
      BY <1>1, <3>1
  <2>2. \A i \in 1..n : at < before[i] <=> c < i
    <3> SUFFICES ASSUME NEW i \in 1..n PROVE at < before[i] <=> c < i
      OBVIOUS
    <3>1. before[i] <= at <=> i <= c
      BY <1>5
    <3>2. before[i] \in Nat
      BY <2>1
    <3> QED
      BY <1>1, <1>4, <3>1, <3>2
  <2>3. holders = {i \in 1..n : c < i}
    BY <1>2, <2>2
  <2> HIDE DEF holders
  <2>4. {i \in 1..n : c < i} = (c + 1)..n
    BY <1>1, <1>4
  <2> QED
    BY <2>3, <2>4
<1>8. Min(holders) = c + 1
  <2>1. c + 1 \in holders /\ \A i \in holders : c + 1 <= i
    BY <1>6, <1>7
  <2> HIDE DEF holders
  <2>2. \A y \in holders : y \in Int
    BY <1>1, <1>4, <1>7
  <2> QED
    BY <2>1, <2>2 DEF Min
<1>9. Translate(source, at) = <<Min(holders) - 1, at - before[Min(holders) - 1] + array.offset>>
  <2>1. holders # {}
    BY <1>6, <1>7
  <2> USE DEF before
  <2> QED
    BY <1>2, <2>1 DEF Translate
<1> HIDE DEF holders
<1>10. Min(holders) - 1 = c /\ before[c] = c * z /\ at - c * z = x
  <2>1. Min(holders) - 1 = c /\ before[c] = c * z
    BY <1>1, <1>3, <1>4, <1>6, <1>8
  <2> DEFINE w == c * z
  <2>2. w \in Nat /\ at = w + x
    BY <1>4
  <2> HIDE DEF w
  <2>3. at - w = x
    BY <1>4, <2>2
  <2> QED
    BY <2>1, <2>3 DEF w
<1>11. Translate(source, at) = <<c, x + array.offset>> /\ at = c * z + x
  BY <1>4, <1>9, <1>10
<1> QED
  BY <1>4, <1>6, <1>11 DEF n, z

-------------------------------------------------------------------------------
(* The losses an array is read through.                                    *)
Readable(array, lost) ==
  \/ lost = {}
  \/ array.level = "Raid1" /\ (1 \notin lost \/ (array.n = 2 /\ lost = {1}))
  \/ array.level = "Raid5" /\ \E i \in 1..array.n : lost = {i}
  \/ array.level = "Raid6" /\ \E i, j \in 1..array.n : i # j /\ lost = {i, j}

\* A byte of a mirror or of a concatenation.
LEMMA ByteOfOther ==
    ASSUME IsExclusiveOr, NEW array, IsArray(array), array.level \in {"Raid1", "Jbod"},
           NEW lost, Losing(array, lost), Readable(array, lost),
           NEW source, Opened(source, array, lost), NEW at \in 0..(Len(array.data) - 1)
    PROVE  ByteAt(source, at) = array.data[at + 1]
<1> DEFINE o == array.offset
           z == Size(array)
<1>1. array.n \in Nat /\ array.n >= 2 /\ z \in Nat /\ o \in Nat /\ Len(array.data) = Width(array) * z
  BY ArrayIs
<1>2. CASE array.level = "Raid1"
  <2>1. at \in 0..(z - 1)
    <3>1. Width(array) = 1 /\ 1 * z = z
      BY <1>1, <1>2 DEF Width
    <3> QED
      BY <1>1, <3>1
  <2>2. Translate(source, at) = <<0, at + o>>
    <3>1. source.config.level = "Raid1" /\ source.config.offset = o
      BY <1>2 DEF Opened, ConfigOf
    <3> QED
      BY <3>1 DEF Translate
  <2>3. Held(array, 0, at) = array.data[at + 1] /\ Held(array, 1, at) = array.data[at + 1]
    BY <1>2 DEF Held
  <2>4. 0 \in 0..(array.n - 1) /\ 0 + 1 = 1
    BY <1>1
  <2>5. CASE 1 \notin lost
    <3>1. ByteAtPlace(source, <<0, at + o>>) = Held(array, 0, at)
      BY <2>1, <2>4, <2>5, CellIsRead
    <3> QED
      BY <2>2, <2>3, <3>1 DEF ByteAt
  <2>6. CASE 1 \in lost
    <3>1. array.n = 2 /\ lost = {1}
      BY <1>2, <2>6 DEF Readable
    <3>2. Opened(source, array, {1})
      BY <3>1
    <3>3. ByteAtPlace(source, <<0, at + o>>) = Reconstructed(source, 0, at + o)
      BY <2>4, <2>6, LostIsReconstructed
    <3>4. Reconstructed(source, 0, at + o) = Held(array, 1, at)
      BY <1>2, <2>1, <3>1, <3>2, MirrorIs
    <3> QED
      BY <2>2, <2>3, <3>3, <3>4 DEF ByteAt
  <2> QED
    BY <2>5, <2>6
<1>3. CASE array.level = "Jbod"
  <2>1. lost = {}
    BY <1>3 DEF Readable
  <2>2. Opened(source, array, {})
    BY <2>1
  <2>3. PICK c \in 0..(array.n - 1), x \in 0..(z - 1) :
          at = c * z + x /\ Translate(source, at) = <<c, x + o>>
    BY <1>3, <2>2, HolderIs
  <2>4. c + 1 \notin lost
    BY <2>1
  <2>5. ByteAtPlace(source, <<c, x + o>>) = Held(array, c, x)
    BY <2>4, CellIsRead
  <2>6. Held(array, c, x) = array.data[c * z + x + 1]
    BY <1>3 DEF Held
  <2> QED
    BY <2>3, <2>5, <2>6 DEF ByteAt
<1> QED
  BY <1>2, <1>3

\* A byte of an array in stripes.
LEMMA ByteOfStriped ==
    ASSUME IsExclusiveOr, NEW array, IsArray(array), Striped(array),
           NEW lost, Losing(array, lost), Readable(array, lost),
           NEW source, Opened(source, array, lost), NEW at \in 0..(Len(array.data) - 1)
    PROVE  ByteAt(source, at) = array.data[at + 1]
<1> DEFINE s == array.stripe
           o == array.offset
           n == array.n
<1>1. /\ source.config.level = array.level /\ source.config.stripe = s /\ source.config.offset = o
      /\ source.n = n
  BY DEF Opened, ConfigOf
<1>2. PICK row \in 0..(Rows(array) - 1), i \in 0..(Width(array) - 1), x \in 0..(s - 1) :
        /\ at = s * (Width(array) * row + i) + x
        /\ Translate(source, at) = <<ColumnOf(array, row, i), row * s + x + o>>
  <2>1. source.n = array.n /\ source.config.level = array.level
        /\ source.config.stripe = array.stripe /\ source.config.offset = array.offset
    BY <1>1
  <2>2. PICK spot : spot = Translate(source, at)
    OBVIOUS
  <2> QED
    BY <2>1, <2>2, TranslateIs
<1> DEFINE column == ColumnOf(array, row, i)
           cell == row * s + x
           place == <<column, cell + o>>
<1>3. /\ s \in Nat \ {0} /\ o \in Nat /\ n \in Nat \ {0} /\ Rows(array) \in Nat /\ row \in Nat
      /\ Width(array) \in Nat \ {0}
  BY ArrayIs
<1>4. /\ column \in DataColumns(array, row) /\ IndexIn(array, column, row) = i
      /\ column \in 0..(n - 1) /\ column \notin ParityColumns(array, row)
  <2>1. column \in DataColumns(array, row) /\ IndexIn(array, column, row) = i
    BY <1>3, ColumnIs
  <2> HIDE DEF column
  <2> QED
    BY <2>1 DEF DataColumns
<1>5. ByteAt(source, at) = ByteAtPlace(source, place)
  BY <1>2 DEF ByteAt
<1> HIDE DEF column
<1>6. DataCell(array, column, cell) = array.data[at + 1]
  <2>1. DataCell(array, column, cell) = array.data[(row * Width(array) + i) * s + x + 1]
    BY <1>4, CellIs
  <2>2. (row * Width(array) + i) * s + x + 1 = at + 1
    <3> DEFINE w == Width(array)
    <3>1. w \in Nat /\ i \in Nat /\ x \in Nat /\ at = s * (w * row + i) + x
      BY <1>2, <1>3
    <3> HIDE DEF w, s
    <3>2. (row * w + i) * s = s * (w * row + i)
      BY <1>3, <3>1
    <3> DEFINE y == s * (w * row + i)
    <3>3. y \in Int /\ at = y + x /\ (row * w + i) * s = y
      BY <1>3, <3>1, <3>2
    <3> HIDE DEF y
    <3>4. (row * w + i) * s + x + 1 = at + 1
      BY <3>1, <3>3
    <3> QED
      BY <3>4 DEF w
  <2> QED
    BY <2>1, <2>2
<1>7. cell \in 0..(Size(array) - 1) /\ cell \div s = row
  BY RowAt
<1>8. CASE column + 1 \notin lost
  <2>1. ByteAtPlace(source, <<column, cell + o>>) = Held(array, column, cell)
    <3> HIDE DEF cell
    <3> QED
      BY <1>4, <1>7, <1>8, CellIsRead
  <2>2. Held(array, column, cell) = CellOf(array, column, cell)
    BY DEF Held, Striped
  <2>3. CellOf(array, column, cell) = DataCell(array, column, cell)
    BY <1>4, <1>7 DEF CellOf
  <2> QED
    BY <1>5, <1>6, <2>1, <2>2, <2>3
<1>9. CASE column + 1 \in lost
  <2>1. ByteAtPlace(source, place) = Reconstructed(source, column, cell + o)
    <3> HIDE DEF cell
    <3> QED
      BY <1>4, <1>9, LostIsReconstructed
  <2>2. CASE array.level = "Raid5"
    <3>1. lost = {column + 1}
      BY <1>9, <2>2 DEF Readable
    <3>2. Opened(source, array, {column + 1}) /\ Losing(array, {column + 1})
      BY <3>1
    <3>3. Reconstructed(source, column, row * array.stripe + x + array.offset)
            = DataCell(array, column, row * array.stripe + x)
      BY <1>4, <2>2, <3>2, ReconstructedIs
    <3> QED
      BY <1>5, <1>6, <2>1, <3>3
  <2>3. CASE array.level = "Raid6"
    <3>1. PICK k, l \in 1..n : k # l /\ lost = {k, l}
      BY <1>9, <2>3 DEF Readable
    <3>2. \E e \in 0..(n - 1) : e # column /\ lost = {column + 1, e + 1}
      <4>1. column \in Int /\ \A j \in 1..n : j - 1 \in 0..(n - 1) /\ (j - 1) + 1 = j
        BY <1>3, <1>4
      <4>2. CASE column + 1 = k
        <5>1. l - 1 # column /\ lost = {column + 1, (l - 1) + 1}
          BY <3>1, <4>1, <4>2
        <5> QED
          BY <4>1, <5>1
      <4>3. CASE column + 1 = l
        <5>1. k - 1 # column /\ lost = {column + 1, (k - 1) + 1}
          BY <3>1, <4>1, <4>3
        <5> QED
          BY <4>1, <5>1
      <4> QED
        BY <1>9, <3>1, <4>2, <4>3
    <3>3. PICK e \in 0..(n - 1) : e # column /\ lost = {column + 1, e + 1}
      BY <3>2
    <3>4. Opened(source, array, {column + 1, e + 1}) /\ Losing(array, {column + 1, e + 1}) /\ column # e
      BY <3>3
    <3>5. Reconstructed(source, column, row * array.stripe + x + array.offset)
            = DataCell(array, column, row * array.stripe + x)
      BY <1>4, <2>3, <3>4, ReconstructedOfTwo
    <3> QED
      BY <1>5, <1>6, <2>1, <3>5
  <2>4. CASE array.level = "Raid0"
    BY <1>9, <2>4 DEF Readable
  <2> QED
    BY <2>2, <2>3, <2>4 DEF Striped
<1> QED
  BY <1>8, <1>9

\* Every byte that the opened array gives is the one it held.
LEMMA ByteIs ==
    ASSUME IsExclusiveOr, NEW array, IsArray(array),
           NEW lost, Losing(array, lost), Readable(array, lost),
           NEW source, Opened(source, array, lost), NEW at \in 0..(Len(array.data) - 1)
    PROVE  ByteAt(source, at) = array.data[at + 1]
<1>1. CASE Striped(array)
  BY <1>1, ByteOfStriped
<1>2. CASE ~Striped(array)
  <2>1. array.level \in {"Raid1", "Jbod"}
    BY <1>2 DEF Striped, IsArray
  <2> QED
    BY <2>1, ByteOfOther
<1> QED
  BY <1>1, <1>2

(* Bytes that were all read are returned.                                  *)
LEMMA UpToTheEndIs ==
    ASSUME NEW bytes \in Seq(Byte)
    PROVE  UpToTheEnd(bytes) = RaidImage(bytes)
<1> DEFINE ends == {i \in DOMAIN bytes : bytes[i] = EndOfMember}
           last == Min({i - 1 : i \in ends} \cup {Len(bytes)})
<1>1. \A i \in DOMAIN bytes : bytes[i] # EndOfMember /\ bytes[i] # RaidFailed
  BY MarksAre
<1>2. ends = {}
  BY <1>1
<1>3. Len(bytes) \in Nat /\ DOMAIN bytes = 1..Len(bytes)
  OBVIOUS
<1>4. last = Len(bytes)
  <2>1. {i - 1 : i \in ends} \cup {Len(bytes)} = {Len(bytes), Len(bytes)}
    <3> HIDE DEF ends
    <3> QED
      BY <1>2
  <2>2. Min({Len(bytes), Len(bytes)}) = Len(bytes)
    BY <1>3, MinOfTwo
  <2> QED
    BY <2>1, <2>2
<1>5. UpToTheEnd(bytes) = IF \E i \in 1..last : bytes[i] = RaidFailed THEN NoRaidImage
                          ELSE RaidImage(SubSeq(bytes, 1, last))
  BY DEF UpToTheEnd
<1> HIDE DEF last
<1>6. SubSeq(bytes, 1, Len(bytes)) = bytes
  OBVIOUS
<1>7. ~\E i \in 1..Len(bytes) : bytes[i] = RaidFailed
  BY <1>1, <1>3
<1> QED
  BY <1>4, <1>5, <1>6, <1>7

(* Reading so many bytes from a position gives what the array has there.   *)
Wanted(data, position, length) ==
  LET start == Min({position, Len(data)})
  IN [i \in 1..Min({length, Len(data) - start}) |-> data[start + i]]

\* A read of the array is the data written there, cut at its end.
LEMMA ReadIs ==
    ASSUME IsExclusiveOr, NEW array, IsArray(array),
           NEW lost, Losing(array, lost), Readable(array, lost),
           NEW position \in Nat, NEW length \in Nat
    PROVE  ReadFrom(OpenSource(ConfigOf(array, lost)), position, length)
             = RaidImage(Wanted(array.data, position, length))
<1> DEFINE source == OpenSource(ConfigOf(array, lost))
           data == array.data
           start == Min({position, Len(data)})
           size == Min({length, Len(data) - start})
           bytes == [i \in 1..size |-> ByteAt(source, start + i - 1)]
<1>1. Opened(source, array, lost) /\ source.logical = Len(data)
  BY OpenedIs DEF Opened
<1>2. data \in Seq(Byte) /\ Len(data) \in Nat
  BY DEF IsArray
<1> HIDE DEF source
<1>3. start \in 0..Len(data)
  <2> HIDE DEF data
  <2> QED
    BY <1>2, MinOfTwo
<1> HIDE DEF start
<1>4. size \in 0..(Len(data) - start)
  <2> HIDE DEF data
  <2>1. Len(data) - start \in Nat
    BY <1>2, <1>3
  <2> QED
    BY <2>1, MinOfTwo
<1> HIDE DEF size
<1>5. \A i \in 1..size : ByteAt(source, start + i - 1) = data[start + i] /\ data[start + i] \in Byte
  <2> SUFFICES ASSUME NEW i \in 1..size
               PROVE  ByteAt(source, start + i - 1) = data[start + i] /\ data[start + i] \in Byte
    OBVIOUS
  <2> DEFINE at == start + i - 1
  <2>1. at \in 0..(Len(data) - 1) /\ at + 1 = start + i /\ start + i \in 1..Len(data)
    <3> HIDE DEF data
    <3> QED
      BY <1>2, <1>3, <1>4
  <2> HIDE DEF at
  <2>2. ByteAt(source, at) = data[at + 1]
    BY <1>1, <2>1, ByteIs
  <2>3. data[start + i] \in Byte
    <3> HIDE DEF data
    <3> QED
      BY <1>2, <2>1
  <2> QED
    BY <2>1, <2>2, <2>3 DEF at
<1>6. bytes = [i \in 1..size |-> data[start + i]] /\ bytes \in Seq(Byte)
  <2> HIDE DEF data
  <2>1. size \in Nat
    BY <1>2, <1>3, <1>4
  <2> QED
    BY <1>5, <2>1
<1>7. ReadFrom(source, position, length) = UpToTheEnd(bytes)
  BY <1>1 DEF ReadFrom, start, size
<1>8. UpToTheEnd(bytes) = RaidImage(bytes)
  <2> HIDE DEF bytes
  <2> QED
    BY <1>6, UpToTheEndIs
<1>9. bytes = Wanted(data, position, length)
  BY <1>6 DEF Wanted, start, size
<1> QED
  BY <1>7, <1>8, <1>9 DEF source

\* An array that was opened is copied whole.
LEMMA MaterializedIs ==
    ASSUME IsExclusiveOr, NEW array, IsArray(array),
           NEW lost, Losing(array, lost), Readable(array, lost), Tolerates(array.level, Cardinality(lost))
    PROVE  Materialized(ConfigOf(array, lost)) = RaidImage(array.data)
<1> DEFINE config == ConfigOf(array, lost)
           source == OpenSource(config)
           data == array.data
<1>1. \A position, length \in Nat : ReadFrom(source, position, length) = RaidImage(Wanted(data, position, length))
  BY ReadIs
<1>2. source.logical = Len(data)
  BY OpenedIs DEF Opened
<1>3. data \in Seq(Byte) /\ Len(data) \in Nat
  BY DEF IsArray
<1>4. Wanted(data, 0, Len(data)) = data
  <2> HIDE DEF data
  <2>1. Min({0, Len(data)}) = 0
    BY <1>3, MinOfTwo
  <2>2. Min({Len(data), Len(data) - Min({0, Len(data)})}) = Len(data)
    <3>1. Len(data) - Min({0, Len(data)}) = Len(data)
      BY <1>3, <2>1
    <3> QED
      BY <1>3, <3>1, MinOfTwo
  <2>3. Wanted(data, 0, Len(data)) = [i \in 1..Len(data) |-> data[0 + i]]
    BY <2>1, <2>2 DEF Wanted
  <2>4. \A i \in 1..Len(data) : 0 + i = i
    OBVIOUS
  <2> QED
    BY <1>3, <2>3, <2>4
<1>5. MaterializedSource(source) = RaidImage(data)
  <2> HIDE DEF source, data
  <2>1. ReadFrom(source, 0, source.logical) = RaidImage(data)
    BY <1>1, <1>2, <1>3, <1>4
  <2> DEFINE image == RaidImage(data)
  <2>2. image.ok = TRUE /\ image.bytes = data
    BY DEF RaidImage
  <2> HIDE DEF image
  <2>3. MaterializedSource(source) = Complete(image, Len(data))
    BY <1>2, <2>1 DEF MaterializedSource, image
  <2>4. Complete(image, Len(data)) = image
    BY <2>2 DEF Complete
  <2> QED
    BY <2>3, <2>4 DEF image
<1>6. Opens(config)
  BY OpensIs
<1> QED
  BY <1>5, <1>6 DEF Materialized

-------------------------------------------------------------------------------
(* The members a cluster of disks has: all of them, as they were listed.   *)
LEMMA CountedInOrder ==
    ASSUME NEW n \in Nat, NEW s \in [1..n -> 1..n], \A k \in 1..n : \E i \in 1..n : s[i] = k,
           \A i, j \in 1..n : i < j => s[i] < s[j]
    PROVE  s = [i \in 1..n |-> i]
<1> DEFINE failing == {i \in 1..n : s[i] # i}
<1>1. failing = {}
  <2> SUFFICES ASSUME failing # {} PROVE FALSE
    OBVIOUS
  <2>1. PICK m \in failing : \A i \in failing : m <= i
    <3>1. failing \in SUBSET Nat
      OBVIOUS
    <3> HIDE DEF failing
    <3> QED
      BY <3>1, LeastNumber
  <2>2. m \in 1..n /\ s[m] # m /\ s[m] \in 1..n /\ \A i \in 1..n : i < m => s[i] = i
    BY <2>1
  <2>3. s[m] > m
    <3>1. CASE s[m] < m
      <4>1. s[s[m]] = s[m] /\ s[s[m]] < s[m]
        BY <2>2, <3>1
      <4> QED
        BY <2>2, <4>1
    <3> QED
      BY <2>2, <3>1
  <2>4. PICK j \in 1..n : s[j] = m
    BY <2>2
  <2>5. CASE j < m
    BY <2>2, <2>4, <2>5
  <2>6. CASE ~(j < m)
    <3>1. j # m
      BY <2>2, <2>4
    <3>2. m < j
      BY <2>2, <2>6, <3>1
    <3>3. s[m] < s[j]
      BY <2>2, <3>2
    <3> QED
      BY <2>2, <2>3, <2>4, <3>3
  <2> QED
    BY <2>5, <2>6
<1>2. \A i \in 1..n : s[i] = i
  BY <1>1
<1> QED
  BY <1>2

\* The members of an array are recognised as one cluster, in the order they are listed.
LEMMA AllAlike ==
    ASSUME NEW array, IsArray(array), NEW members, NEW selected \in 1..array.n
    PROVE  /\ MembersAlike(DisksOf(array, members), selected) = [i \in 1..array.n |-> i]
           /\ Len(MembersAlike(DisksOf(array, members), selected)) = array.n
<1> DEFINE n == array.n
           disks == DisksOf(array, members)
           md == [level |-> array.level, stripe |-> array.stripe, count |-> array.n, version |-> "1"]
           alike == {i \in DOMAIN disks : disks[i].md = disks[selected].md}
           before == {p \in alike \X alike : p[1] < p[2]}
           s == Ranked(alike, before)
<1>1. n \in Nat /\ n >= 2
  BY DEF IsArray
<1>2. DOMAIN disks = 1..n /\ \A i \in 1..n : disks[i].md = md
  BY DEF DisksOf
<1>3. md # NoSuperblock
  <2>1. md.version = "1" /\ NoSuperblock.version = "none"
    BY DEF NoSuperblock
  <2> HIDE DEF md
  <2> QED
    BY <2>1
<1>4. MembersAlike(disks, selected) = s
  <2> HIDE DEF disks, md
  <2> QED
    BY <1>2, <1>3 DEF MembersAlike
<1>5. alike = 1..n
  <2> HIDE DEF disks, md
  <2> QED
    BY <1>2
<1> HIDE DEF alike, disks
<1>6. \A i, j \in 1..n : <<i, j>> \in before <=> i < j
  BY <1>5
<1>7. Orders(before, 1..n)
  <2> HIDE DEF before
  <2> QED
    BY <1>1, <1>6 DEF Orders
<1>8. IsFiniteSet(1..n) /\ Cardinality(1..n) = n
  <2> HIDE DEF n
  <2>1. IsFiniteSet(1..n) /\ Cardinality(1..n) = IF 1 > n THEN 0 ELSE n - 1 + 1
    BY <1>1, FS_Interval
  <2> QED
    BY <1>1, <2>1
<1> HIDE DEF before
<1>9. s \in [1..n -> 1..n] /\ Range(s) = 1..n /\ \A i, j \in 1..n : i < j => <<s[i], s[j]>> \in before
  <2> DEFINE S == 1..n
  <2>1. IsFiniteSet(S) /\ Orders(before, S) /\ Cardinality(S) = n /\ alike = S
    BY <1>5, <1>7, <1>8
  <2> HIDE DEF S, n
  <2> QED
    BY <2>1, RankedIs DEF S
<1> HIDE DEF s
<1>10. \A k \in 1..n : \E i \in 1..n : s[i] = k
  BY <1>9 DEF Range
<1>11. \A i, j \in 1..n : i < j => s[i] < s[j]
  BY <1>6, <1>9
<1>12. s = [i \in 1..n |-> i]
  <2> HIDE DEF n
  <2> QED
    BY <1>1, <1>9, <1>10, <1>11, CountedInOrder
<1>13. Len(s) = n
  BY <1>1, <1>12
<1> QED
  BY <1>4, <1>12, <1>13 DEF disks

(* What the command resolves: the members that are there, in their order.  *)
Slots(array, lost) == [i \in 1..array.n |-> IF i \in lost THEN EmptySlot ELSE i]

Request(array, lost) ==
  [level |-> array.level, stripe |-> array.stripe, offset |-> array.offset, slots |-> Slots(array, lost)]

MembersOf(array) == [i \in 1..array.n |-> Written(array, i - 1)]

\* The configuration the dialog resolves is the one the array was written in.
LEMMA ResolvedIs ==
    ASSUME NEW array, IsArray(array), NEW lost, Losing(array, lost)
    PROVE  ResolvedConfig(DisksOf(array, MembersOf(array)), Request(array, lost)) = ConfigOf(array, lost)
<1> DEFINE n == array.n
           slots == Slots(array, lost)
           disks == DisksOf(array, MembersOf(array))
           members == [i \in DOMAIN slots |-> IF slots[i] = EmptySlot THEN NoMember ELSE disks[slots[i]].bytes]
<1>1. DOMAIN slots = 1..n /\ \A i \in 1..n : slots[i] = IF i \in lost THEN EmptySlot ELSE i
  BY DEF Slots
<1>2. \A i \in 1..n : i # EmptySlot
  BY DEF EmptySlot
<1>3. \A i \in 1..n : disks[i].bytes = Written(array, i - 1)
  BY DEF DisksOf, MembersOf
<1> HIDE DEF slots, disks
<1>4. members = [i \in 1..n |-> IF i \in lost THEN NoMember ELSE Written(array, i - 1)]
  BY <1>1, <1>2, <1>3
<1>5. /\ Request(array, lost).slots = slots /\ Request(array, lost).level = array.level
      /\ Request(array, lost).stripe = array.stripe /\ Request(array, lost).offset = array.offset
  BY DEF Request, slots
<1>6. ResolvedConfig(disks, Request(array, lost))
        = [level |-> array.level, stripe |-> array.stripe, offset |-> array.offset, members |-> members]
  <2> DEFINE request == Request(array, lost)
  <2> HIDE DEF request
  <2> QED
    BY <1>5 DEF ResolvedConfig, request
<1> QED
  BY <1>4, <1>6 DEF ConfigOf, disks

(* What the validation lets through is a loss the array is read through.   *)
Most(array) ==
  CASE array.level \in {"Raid0", "Jbod"} -> 0
    [] array.level = "Raid1" -> array.n - 1
    [] array.level = "Raid5" -> 1
    [] array.level = "Raid6" -> 2

\* What the dialog makes of a loss: a complete array is supported, and a degraded one
\* lost no more than its level bears.
LEMMA ValidatedIs ==
    ASSUME NEW array, IsArray(array), NEW lost, Losing(array, lost)
    PROVE  LET verdict == Validated(array.level, array.n, Slots(array, lost), array.stripe, FALSE)
           IN  /\ lost = {} => verdict = "supported"
               /\ verdict = "degraded" => lost # {} /\ Cardinality(lost) <= Most(array)
<1> DEFINE n == array.n
           slots == Slots(array, lost)
           empty == {i \in DOMAIN slots : slots[i] = EmptySlot}
           verdict == Validated(array.level, n, slots, array.stripe, FALSE)
<1>1. n \in Nat /\ n >= 2 /\ array.stripe > 0
  BY DEF IsArray
<1>2. DOMAIN slots = 1..n /\ \A i \in 1..n : slots[i] = IF i \in lost THEN EmptySlot ELSE i
  BY DEF Slots
<1>3. Len(slots) = n
  <2> HIDE DEF slots
  <2>1. slots = [i \in 1..n |-> slots[i]]
    BY DEF Slots, slots
  <2> HIDE DEF n
  <2> QED
    BY <1>1, <2>1
<1> HIDE DEF slots
<1>4. empty = lost
  <2>1. \A i \in 1..n : i # EmptySlot
    BY DEF EmptySlot
  <2> QED
    BY <1>2, <2>1 DEF Losing
<1>5. Most(array) \in Nat
  <2>1. array.level \in {"Raid0", "Raid1", "Raid5", "Raid6", "Jbod"}
    BY DEF IsArray
  <2> QED
    BY <1>1, <2>1 DEF Most
<1>6. verdict = "degraded" => lost # {} /\ ~(Cardinality(lost) > Most(array))
  <2> DEFINE most == Most(array)
  <2>1. most = CASE array.level \in {"Raid0", "Jbod"} -> 0
                 [] array.level = "Raid1" -> n - 1
                 [] array.level = "Raid5" -> 1
                 [] array.level = "Raid6" -> 2
    BY DEF Most
  <2>2. Cardinality(empty) > most => verdict = "unsupported"
    <3> HIDE DEF empty
    <3> USE DEF empty
    <3> QED
      BY <2>1 DEF Validated
  <2>3. empty = {} => verdict \in {"unsupported", "supported", "refused"}
    BY DEF Validated
  <2> HIDE DEF empty, most, verdict
  <2> QED
    BY <1>4, <2>2, <2>3 DEF most
<1>7. lost = {} => verdict = "supported"
  <2> SUFFICES ASSUME lost = {} PROVE verdict = "supported"
    OBVIOUS
  <2>1. empty = {} /\ Cardinality(empty) = 0
    BY <1>4, FS_EmptySet
  <2>2. ~\E i, j \in DOMAIN slots \ empty : i # j /\ slots[i] = slots[j]
    <3> HIDE DEF empty
    <3> QED
      BY <1>2, <2>1
  <2>3. ~(0 > Most(array)) /\ 0 < n
    BY <1>1, <1>5
  <2>4. Most(array) = CASE array.level \in {"Raid0", "Jbod"} -> 0
                        [] array.level = "Raid1" -> n - 1
                        [] array.level = "Raid5" -> 1
                        [] array.level = "Raid6" -> 2
    BY DEF Most
  <2> QED
    BY <1>1, <1>3, <2>1, <2>2, <2>3, <2>4 DEF Validated
<1>8. Cardinality(lost) \in Nat
  <2>1. IsFiniteSet(1..n)
    BY <1>1, FS_Interval
  <2>2. IsFiniteSet(lost)
    BY <2>1, FS_Subset DEF Losing
  <2> QED
    BY <2>2, FS_CardinalityType
<1>9. verdict = "degraded" => Cardinality(lost) <= Most(array)
  <2> HIDE DEF verdict
  <2> QED
    BY <1>5, <1>6, <1>8
<1> QED
  BY <1>6, <1>7, <1>9 DEF slots

\* A loss that the dialog calls a degraded build that works is one the array is
\* read through, RAID 6 without one member and a mirror of three without its first apart.
LEMMA DegradedIsReadable ==
    ASSUME NEW array, IsArray(array), NEW lost, Losing(array, lost), IsFiniteSet(lost),
           lost = {} \/ Cardinality(lost) \in 1..Most(array),
           ~(array.level = "Raid6" /\ Cardinality(lost) = 1),
           ~(array.level = "Raid1" /\ array.n > 2 /\ 1 \in lost)
    PROVE  Readable(array, lost) /\ Tolerates(array.level, Cardinality(lost))
<1>1. array.n \in Nat /\ array.n >= 2 /\ array.level \in {"Raid0", "Raid1", "Raid5", "Raid6", "Jbod"}
  BY DEF IsArray
<1>2. \A i \in lost : i \in 1..array.n
  BY DEF Losing
<1>3. CASE lost = {}
  <2>1. Cardinality(lost) = 0
    BY <1>3, FS_EmptySet
  <2> QED
    BY <1>1, <1>3, <2>1 DEF Readable, Tolerates
<1>4. CASE lost # {} /\ array.level = "Raid1"
  <2>1. CASE 1 \notin lost
    BY <1>4, <2>1 DEF Readable, Tolerates
  <2>2. CASE 1 \in lost
    <3>1. array.n = 2
      BY <1>1, <1>4, <2>2
    <3>2. 2 \notin lost
      <4>1. \A i \in 1..2 : i = 1 \/ i = 2
        OBVIOUS
      <4> QED
        BY <2>2, <3>1, <4>1 DEF Losing
    <3>3. lost = {1}
      <4>1. \A i \in 1..2 : i = 1 \/ i = 2
        OBVIOUS
      <4> QED
        BY <1>2, <2>2, <3>1, <3>2, <4>1
    <3> QED
      BY <1>4, <3>1, <3>3 DEF Readable, Tolerates
  <2> QED
    BY <2>1, <2>2
<1>5. CASE lost # {} /\ array.level = "Raid5"
  <2>1. Cardinality(lost) = 1
    BY <1>5 DEF Most
  <2>2. PICK i : lost = {i}
    BY <2>1, FS_Singleton
  <2> QED
    BY <1>2, <1>5, <2>1, <2>2 DEF Readable, Tolerates
<1>6. CASE lost # {} /\ array.level = "Raid6"
  <2>1. Cardinality(lost) = 2
    BY <1>6 DEF Most
  <2>2. PICK i \in lost : TRUE
    BY <1>6
  <2>3. IsFiniteSet(lost \ {i}) /\ Cardinality(lost \ {i}) = 1
    BY <2>1, <2>2, FS_RemoveElement
  <2>4. PICK j : lost \ {i} = {j}
    BY <2>3, FS_Singleton
  <2>5. i # j /\ lost = {i, j}
    BY <2>2, <2>4
  <2> QED
    BY <1>2, <1>6, <2>1, <2>5 DEF Readable, Tolerates
<1>7. CASE lost # {} /\ array.level \in {"Raid0", "Jbod"}
  BY <1>7 DEF Most
<1> QED
  BY <1>1, <1>3, <1>4, <1>5, <1>6, <1>7

\* A part of what an array holds, as a read of two bytes gives it.
LEMMA PieceIs ==
    ASSUME NEW S, NEW data \in Seq(S), NEW position \in 0..Len(data)
    PROVE  Wanted(data, position, 2) = SubSeq(data, position + 1, Min({position + 2, Len(data)}))
<1> DEFINE l == Len(data)
           start == Min({position, l})
           size == Min({2, l - start})
           end == Min({position + 2, l})
           part == SubSeq(data, position + 1, end)
           wanted == [i \in 1..size |-> data[start + i]]
<1>1. l \in Nat /\ DOMAIN data = 1..l /\ position \in 0..l /\ \A i \in 1..l : data[i] \in S
  OBVIOUS
<1> HIDE DEF l
<1>2. start = position
  BY <1>1, MinOfTwo
<1> HIDE DEF start
<1>3. size = IF 2 <= l - position THEN 2 ELSE l - position
  BY <1>1, <1>2, MinOfTwo
<1>4. end = IF position + 2 <= l THEN position + 2 ELSE l
  BY <1>1, MinOfTwo
<1> HIDE DEF size, end
<1>5. end = position + size /\ size \in Nat /\ end \in Nat /\ end <= l
  BY <1>1, <1>3, <1>4
<1> DEFINE a == position + 1
<1>6. a \in Int /\ end \in Int /\ end - a + 1 = size /\ (a <= end <=> size # 0)
  BY <1>1, <1>5
<1>7. \A i \in a..end : data[i] \in S
  BY <1>1, <1>5
<1> HIDE DEF a
<1>8. /\ SubSeq(data, a, end) \in Seq(S) /\ Len(SubSeq(data, a, end)) = IF a <= end THEN end - a + 1 ELSE 0
      /\ \A i \in 1..(end - a + 1) : SubSeq(data, a, end)[i] = data[a + i - 1]
  BY <1>6, <1>7, SubSeqProperties
<1>9. part = SubSeq(data, a, end)
  BY DEF a
<1> HIDE DEF part
<1>10. part \in Seq(S) /\ Len(part) = size /\ \A i \in 1..size : part[i] = data[position + i]
  <2>1. part \in Seq(S) /\ Len(part) = size
    BY <1>5, <1>6, <1>8, <1>9
  <2>2. ASSUME NEW i \in 1..size PROVE part[i] = data[position + i]
    <3>1. i \in 1..(end - a + 1) /\ a + i - 1 = position + i
      BY <1>1, <1>5, <1>6 DEF a
    <3> QED
      BY <1>8, <1>9, <3>1
  <2> QED
    BY <2>1, <2>2
<1>11. part = [i \in 1..size |-> part[i]]
  BY <1>5, <1>10
<1>12. part = wanted
  BY <1>2, <1>10, <1>11
<1> QED
  BY <1>12 DEF Wanted, part, size, start, end, l

(* An array whose members were lost as the program bears builds back.      *)
LEMMA ArrayBuildsBack ==
    ASSUME IsExclusiveOr, NEW array, IsArray(array), NEW lost, Losing(array, lost), IsFiniteSet(lost),
           Readable(array, lost), Tolerates(array.level, Cardinality(lost)),
           lost = {} \/ Degraded(array, lost)
    PROVE  BuildsBack(array, MembersOf(array), lost)
<1> DEFINE n == array.n
           o == array.offset
           data == array.data
           disks == DisksOf(array, MembersOf(array))
           request == Request(array, lost)
           config == ConfigOf(array, lost)
           one == CHOOSE i \in 1..n : i \notin lost
<1>1. n \in Nat /\ n >= 2
  BY DEF IsArray
<1>2. one \in 1..n
  BY DEF Losing
<1>3. ResolvedConfig(disks, request) = config
  BY ResolvedIs
<1>4. Materialized(config) = RaidImage(data)
  BY MaterializedIs
<1>5. \A i \in 1..n : disks[i].md.count = n /\ disks[i].md.version = "1"
                      /\ disks[i].md.level = array.level /\ disks[i].md.stripe = array.stripe
  BY DEF DisksOf
<1>6. \A i \in 1..n : MembersAlike(disks, i) = [k \in 1..n |-> k] /\ Len(MembersAlike(disks, i)) = n
  BY AllAlike
<1>7. Validated(array.level, n, Slots(array, lost), array.stripe, FALSE) \in {"supported", "degraded"}
  <2>1. CASE lost = {}
    BY <2>1, ValidatedIs
  <2>2. CASE Degraded(array, lost)
    BY <2>2 DEF Degraded, Slots
  <2> QED
    BY <2>1, <2>2
<1>8. BuiltImage(disks, one, request) = RaidImage(data)
  <2>1. request.level = array.level /\ request.slots = Slots(array, lost) /\ request.stripe = array.stripe
    BY DEF Request
  <2>2. disks[one].md.count = n /\ Len(MembersAlike(disks, one)) >= 2
    BY <1>1, <1>2, <1>5, <1>6
  <2> HIDE DEF disks, one, request, config, n
  <2> QED
    BY <1>3, <1>4, <1>7, <2>1, <2>2 DEF BuiltImage
<1>9. lost = {} => BuiltAsListed(disks, 1, o) = RaidImage(data)
  <2> SUFFICES ASSUME lost = {} PROVE BuiltAsListed(disks, 1, o) = RaidImage(data)
    OBVIOUS
  <2> DEFINE md == disks[1].md
             members == MembersAlike(disks, 1)
  <2>1. 1 \in 1..n
    BY <1>1
  <2>2. /\ md.count = n /\ md.version = "1" /\ md.level = array.level /\ md.stripe = array.stripe
        /\ members = [k \in 1..n |-> k] /\ Len(members) = n
    BY <1>5, <1>6, <2>1
  <2> HIDE DEF md, members
  <2>3. members = Slots(array, lost)
    BY <2>2 DEF Slots
  <2>4. ListedRequest(md, members, o) = request
    <3>1. DataOffset(md, o) = o
      BY <2>2 DEF DataOffset
    <3> QED
      BY <2>2, <2>3, <3>1 DEF ListedRequest, Request
  <2>5. BuiltAsListed(disks, 1, o) = Materialized(ResolvedConfig(disks, ListedRequest(md, members, o)))
    <3> USE DEF md, members
    <3> HIDE DEF disks, n
    <3> QED
      BY <1>1, <2>2 DEF BuiltAsListed
  <2> QED
    BY <1>3, <1>4, <2>4, <2>5
<1>10. ReadsInPieces(OpenSource(config), data)
  <2> DEFINE source == OpenSource(config)
  <2>1. source.logical = Len(data)
    BY OpenedIs DEF Opened
  <2>2. data \in Seq(Byte) /\ Len(data) \in Nat
    BY DEF IsArray
  <2>3. ASSUME NEW position \in 0..Len(data)
        PROVE  ReadFrom(source, position, 2).bytes
                 = SubSeq(data, position + 1, Min({position + 2, Len(data)}))
    <3>1. position \in Nat /\ 2 \in Nat
      BY <2>2
    <3>2. ReadFrom(source, position, 2) = RaidImage(Wanted(data, position, 2))
      BY <3>1, ReadIs
    <3> HIDE DEF source, data
    <3>3. Wanted(data, position, 2) = SubSeq(data, position + 1, Min({position + 2, Len(data)}))
      BY <2>2, PieceIs
    <3> DEFINE piece == Wanted(data, position, 2)
    <3> HIDE DEF piece
    <3>4. RaidImage(piece).bytes = piece
      BY DEF RaidImage
    <3> QED
      BY <3>2, <3>3, <3>4 DEF piece
  <2> HIDE DEF source, data
  <2>4. ReadsInPieces(source, data)
    BY <2>1, <2>3 DEF ReadsInPieces
  <2> QED
    BY <2>4 DEF source, data
<1>11. ReadsInPieces(OpenSource(ResolvedConfig(disks, request)), data)
  BY <1>3, <1>10
<1>12. [level |-> array.level, stripe |-> array.stripe, offset |-> array.offset,
        slots |-> [i \in 1..array.n |-> IF i \in lost THEN EmptySlot ELSE i]] = request
  BY DEF Request, Slots
<1> HIDE DEF request, disks, config
<1> QED
  BY <1>8, <1>9, <1>11, <1>12 DEF BuildsBack, disks

RaidInv ==
  reader = "raid" /\ input # NoInput =>
    \E array \in RaidArrays : \E lost \in SUBSET (1..array.n) :
      lost # 1..array.n /\ input = RaidInput(array, lost)

(* Every array of whole rows builds back to what it held, complete or      *)
(* without the members its level bears, and is read the same in pieces;    *)
(* RAID 6 without one member, and a mirror of three or more without its    *)
(* first, are told apart (build_raid_analysis_image, RaidSource::read,     *)
(* reconstruct_block).                                                     *)
THEOREM RaidAlwaysBuildsBack == ReaderSpec => []RaidBuildsBack
<1>1. ReaderInit => RaidInv
  BY DEF ReaderInit, RaidInv
<1>2. RaidInv /\ [ReaderNext]_readerVars => RaidInv'
  <2> SUFFICES ASSUME RaidInv, [ReaderNext]_readerVars PROVE RaidInv'
    OBVIOUS
  <2>1. CASE Chooses("raid", ChooseRaid)
    <3>1. PICK array \in RaidArrays : \E lost \in SUBSET (1..array.n) :
            lost # 1..array.n /\ input' \in {RaidInput(array, lost)}
      BY <2>1 DEF Chooses, ChooseRaid
    <3>2. \E lost \in SUBSET (1..array.n) : lost # 1..array.n /\ input' = RaidInput(array, lost)
      BY <3>1
    <3> QED
      BY <3>2 DEF RaidInv
  <2>2. CASE UNCHANGED readerVars
    BY <2>2 DEF RaidInv, readerVars
  <2>3. CASE reader' = reader /\ reader # "raid"
    BY <2>3 DEF RaidInv
  <2> QED
    BY <2>1, <2>2, <2>3 DEF ReaderNext, Chooses
<1>3. RaidInv => RaidBuildsBack
  <2> SUFFICES ASSUME RaidInv, Chosen("raid"),
                      ~(input.array.level = "Raid6" /\ Cardinality(input.lost) = 1),
                      ~(input.array.level = "Raid1" /\ input.array.n > 2 /\ 1 \in input.lost),
                      input.lost = {} \/ Degraded(input.array, input.lost)
               PROVE  BuildsBack(input.array, input.members, input.lost)
    BY DEF RaidBuildsBack
  <2>1. PICK array \in RaidArrays : \E lost \in SUBSET (1..array.n) :
          lost # 1..array.n /\ input = RaidInput(array, lost)
    BY DEF RaidInv, Chosen
  <2>2. PICK lost \in SUBSET (1..array.n) : lost # 1..array.n /\ input = RaidInput(array, lost)
    BY <2>1
  <2>3. input.array = array /\ input.lost = lost /\ input.members = MembersOf(array)
    BY <2>2 DEF RaidInput, MembersOf
  <2>4. IsExclusiveOr /\ IsArray(array)
    BY RaidAssumption
  <2>5. Losing(array, lost) /\ IsFiniteSet(lost)
    <3>1. array.n \in Nat
      BY <2>4 DEF IsArray
    <3>2. IsFiniteSet(1..array.n)
      BY <3>1, FS_Interval
    <3>3. IsFiniteSet(lost)
      BY <3>2, FS_Subset
    <3> QED
      BY <2>2, <3>3 DEF Losing
  <2>6. lost = {} \/ Cardinality(lost) \in 1..Most(array)
    <3>1. ASSUME Degraded(array, lost) PROVE Cardinality(lost) \in 1..Most(array)
      <4>1. lost # {} /\ Cardinality(lost) <= Most(array)
        BY <2>4, <2>5, <3>1, ValidatedIs DEF Degraded, Slots
      <4>2. Cardinality(lost) \in Nat /\ Cardinality(lost) # 0
        BY <2>5, <4>1, FS_CardinalityType, FS_EmptySet
      <4>3. Most(array) \in Nat
        BY <2>4 DEF Most, IsArray
      <4> QED
        BY <4>1, <4>2, <4>3
    <3> QED
      BY <2>3, <3>1
  <2>7. Readable(array, lost) /\ Tolerates(array.level, Cardinality(lost))
    BY <2>3, <2>4, <2>5, <2>6, DegradedIsReadable
  <2> QED
    BY <2>3, <2>4, <2>5, <2>7, ArrayBuildsBack
<1> QED
  BY <1>1, <1>2, <1>3, PTL DEF ReaderSpec
=============================================================================
