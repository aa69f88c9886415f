--------------------------- MODULE DatapathProofs ---------------------------
(***************************************************************************)
(* The units of the processor compute what the architecture defines: of    *)
(* any program, the processor and the simulator make the same, for words   *)
(* of every size.                                                          *)
(***************************************************************************)
EXTENDS Lockstep, BinaryLemmas

\* The sizes of a word, a half word and a byte.
LEMMA Sizes ==
  /\ W \in Nat /\ W >= 12 /\ H \in Nat /\ ByteBits \in Nat /\ ByteBits >= 3
  /\ W = 4 * ByteBits /\ H = 2 * ByteBits /\ BPW = 4
  /\ NReg \in Nat /\ NReg >= 4
BY WordAssumption DEF H, ByteBits, BPW

\* The powers of two that the sizes stand for.
LEMMA SizePowers ==
  /\ M = 2^W /\ M \in Nat \ {0}
  /\ 2^H \in Nat \ {0} /\ M = 2^H * 2^H
  /\ 2^ByteBits \in Nat \ {0} /\ 2^H = 2^ByteBits * 2^ByteBits
  /\ 2^(W - 1) \in Nat \ {0} /\ M = 2 * 2^(W - 1)
<1>1. W - 1 \in Nat /\ (W - 1) + 1 = W /\ H + H = W /\ ByteBits + ByteBits = H
  BY Sizes
<1>2. M = 2^W
  BY DEF M
<1>3. 2^W = 2 * 2^(W - 1)
  BY <1>1, NextPower, Zenon
<1>4. 2^W = 2^H * 2^H /\ 2^H = 2^ByteBits * 2^ByteBits
  BY <1>1, Sizes, PowerSum, Zenon
<1>. QED  BY <1>1, <1>2, <1>3, <1>4, Sizes, PowerOfTwo, Zenon

\* The bits of a word.
LEMMA BitsDef == \A v \in Word : Bits(v) = {k \in 0 .. W - 1 : Digit(v, k) = 1}
BY Zenon DEF Bits, BitsOf, Digit

\* The number with the bits S.
LEMMA FromBitsIs ==
  ASSUME NEW S, NEW v \in Word, \A k \in 0 .. W - 1 : k \in S <=> Digit(v, k) = 1
  PROVE  FromBits(S) = v
<1>. DEFINE Sum(f) == [k \in 0 .. W |-> IF k = W THEN 0 ELSE Bool(k \in S) + 2 * f[k + 1]]
            above == CHOOSE f : f = Sum(f)
            g == [k \in 0 .. W |-> v \div 2^k]
<1>1. W \in Nat /\ W > 0 /\ v \in 0 .. 2^W - 1
  BY Sizes DEF Word, M
<1>2. \A k \in 0 .. W - 1 : Bool(k \in S) = Digit(v, k)
  <2>. TAKE k \in 0 .. W - 1
  <2>1. v \in Nat /\ k \in Nat
    BY <1>1
  <2>2. Digit(v, k) \in 0 .. 1
    BY <2>1, DigitType, Zenon
  <2>3. CASE k \in S
    BY <2>3 DEF Bool
  <2>4. CASE k \notin S
    BY <2>2, <2>4 DEF Bool
  <2>. QED  BY <2>3, <2>4
<1>3. g = Sum(g)
  <2>. SUFFICES ASSUME NEW k \in 0 .. W
                PROVE  g[k] = IF k = W THEN 0 ELSE Bool(k \in S) + 2 * g[k + 1]
    BY Zenon
  <2>1. CASE k = W
    BY <1>1, <2>1, SumOfDigits, Zenon
  <2>2. CASE k # W
    <3>1. k \in 0 .. W - 1 /\ k + 1 \in 0 .. W
      BY <1>1, <2>2
    <3>2. v \div 2^k = Digit(v, k) + 2 * (v \div 2^(k + 1))
      BY <1>1, <3>1, SumOfDigits, Zenon
    <3>. QED  BY <1>2, <2>2, <3>1, <3>2, Zenon
  <2>. QED  BY <2>1, <2>2
<1>4. above = Sum(above)
  <2>. HIDE DEF Sum, g
  <2>. QED  BY <1>3, Zenon
<1>5. FromBits(S) = above[0]
  BY DEF FromBits
<1>6. above[W] = 0 /\ \A k \in 0 .. W - 1 : above[k] = Digit(v, k) + 2 * above[k + 1]
  <2>. HIDE DEF above
  <2>1. ASSUME NEW k \in 0 .. W
        PROVE  above[k] = IF k = W THEN 0 ELSE Bool(k \in S) + 2 * above[k + 1]
    BY <1>4, Zenon
  <2>2. W \in 0 .. W /\ \A k \in 0 .. W - 1 : k \in 0 .. W /\ k # W
    BY <1>1
  <2>. QED  BY <1>2, <2>1, <2>2, Zenon
<1>. HIDE DEF above
<1>7. above[0] = v
  BY ONLY <1>1, <1>6, DigitsSummedUp
<1>. QED  BY <1>5, <1>7

\* The number that the simulator sums up bit by bit.
LEMMA BitwiseIs ==
  ASSUME NEW a, NEW b, NEW op, NEW v \in Word,
         \A k \in 0 .. W - 1 : op[Digit(a, k)][Digit(b, k)] = Digit(v, k)
  PROVE  Bitwise(a, b, op) = v
<1>. DEFINE Sum(f) == [k \in 0 .. W |->
                         IF k = W THEN 0
                         ELSE op[(a \div 2^k) % 2][(b \div 2^k) % 2] + 2 * f[k + 1]]
            from == CHOOSE f : f = Sum(f)
            g == [k \in 0 .. W |-> v \div 2^k]
<1>1. W \in Nat /\ W > 0 /\ v \in 0 .. 2^W - 1
  BY ONLY Sizes, v \in Word DEF Word, M
<1>2. \A k \in 0 .. W - 1 : op[(a \div 2^k) % 2][(b \div 2^k) % 2] = Digit(v, k)
  BY Zenon DEF Digit
<1>3. g = Sum(g)
  <2>. SUFFICES ASSUME NEW k \in 0 .. W
                PROVE  g[k] = IF k = W THEN 0
                              ELSE op[(a \div 2^k) % 2][(b \div 2^k) % 2] + 2 * g[k + 1]
    BY Zenon
  <2>1. CASE k = W
    BY <1>1, <2>1, SumOfDigits, Zenon
  <2>2. CASE k # W
    <3>1. k \in 0 .. W - 1 /\ k + 1 \in 0 .. W
      BY ONLY <1>1, <2>2, k \in 0 .. W
    <3>2. v \div 2^k = Digit(v, k) + 2 * (v \div 2^(k + 1))
      BY <1>1, <3>1, SumOfDigits, Zenon
    <3>. QED  BY <1>2, <2>2, <3>1, <3>2, Zenon
  <2>. QED  BY <2>1, <2>2
<1>4. from = Sum(from)
  <2>. HIDE DEF Sum, g
  <2>. QED  BY <1>3, Zenon
<1>5. Bitwise(a, b, op) = from[0]
  BY DEF Bitwise
<1>6. from[W] = 0 /\ \A k \in 0 .. W - 1 : from[k] = Digit(v, k) + 2 * from[k + 1]
  <2>. HIDE DEF from
  <2>1. ASSUME NEW k \in 0 .. W
        PROVE  from[k] = IF k = W THEN 0
                         ELSE op[(a \div 2^k) % 2][(b \div 2^k) % 2] + 2 * from[k + 1]
    BY <1>4, Zenon
  <2>2. W \in 0 .. W /\ \A k \in 0 .. W - 1 : k \in 0 .. W /\ k # W
    BY ONLY <1>1
  <2>. QED  BY <1>2, <2>1, <2>2, Zenon
<1>. HIDE DEF from
<1>7. from[0] = v
  BY ONLY <1>1, <1>6, DigitsSummedUp
<1>. QED  BY <1>5, <1>7

\* Every set is the bits of a word.
LEMMA WordOfBits ==
  ASSUME NEW S
  PROVE  \E v \in Word : /\ \A k \in 0 .. W - 1 : k \in S <=> Digit(v, k) = 1
                         /\ FromBits(S) = v
<1>1. PICK v \in 0 .. 2^W - 1 : \A k \in 0 .. W - 1 : Digit(v, k) = 1 <=> k \in S
  BY Sizes, NumberOfBits, Zenon
<1>2. v \in Word
  BY DEF Word, M
<1>3. FromBits(S) = v
  BY <1>1, <1>2, FromBitsIs, Zenon
<1>. QED  BY <1>1, <1>2, <1>3, Zenon

\* A word has digits, below its width.
LEMMA WordDigits ==
  \A v \in Word : v \in Nat /\ v < M /\ \A k \in 0 .. W - 1 : Digit(v, k) \in {0, 1}
<1>. TAKE v \in Word
<1>1. v \in Nat /\ v < M
  BY SizePowers DEF Word
<1>2. ASSUME NEW k \in 0 .. W - 1  PROVE Digit(v, k) \in {0, 1}
  <2>1. k \in Nat
    BY Sizes
  <2>2. Digit(v, k) \in 0 .. 1
    BY <1>1, <2>1, DigitType, Zenon
  <2>. QED  BY <2>2
<1>. QED  BY <1>1, <1>2

\* AND, of the processor and of the simulator.
LEMMA LogicAnd ==
  \A a, b \in Word :
    /\ Bitwise(a, b, BitAnd) \in Word
    /\ FromBits(Bits(a) \cap Bits(b)) = Bitwise(a, b, BitAnd)
<1>. TAKE a, b \in Word
<1>1. PICK v \in Word : /\ \A k \in 0 .. W - 1 : k \in Bits(a) \cap Bits(b) <=> Digit(v, k) = 1
                        /\ FromBits(Bits(a) \cap Bits(b)) = v
  BY WordOfBits, Zenon
<1>2. ASSUME NEW k \in 0 .. W - 1  PROVE BitAnd[Digit(a, k)][Digit(b, k)] = Digit(v, k)
  <2>1. k \in Bits(a) \cap Bits(b) <=> Digit(a, k) = 1 /\ Digit(b, k) = 1
    BY BitsDef
  <2>2. Digit(a, k) \in {0, 1} /\ Digit(b, k) \in {0, 1} /\ Digit(v, k) \in {0, 1}
    BY WordDigits, Zenon
  <2>. QED  BY ONLY <1>1, <2>1, <2>2, k \in 0 .. W - 1 DEF BitAnd
<1>3. Bitwise(a, b, BitAnd) = v
  BY ONLY <1>2, v \in Word, BitwiseIs
<1>. QED  BY <1>1, <1>3

\* OR.
LEMMA LogicOr ==
  \A a, b \in Word :
    /\ Bitwise(a, b, BitOr) \in Word
    /\ FromBits(Bits(a) \cup Bits(b)) = Bitwise(a, b, BitOr)
<1>. TAKE a, b \in Word
<1>1. PICK v \in Word : /\ \A k \in 0 .. W - 1 : k \in Bits(a) \cup Bits(b) <=> Digit(v, k) = 1
                        /\ FromBits(Bits(a) \cup Bits(b)) = v
  BY WordOfBits, Zenon
<1>2. ASSUME NEW k \in 0 .. W - 1  PROVE BitOr[Digit(a, k)][Digit(b, k)] = Digit(v, k)
  <2>1. k \in Bits(a) \cup Bits(b) <=> Digit(a, k) = 1 \/ Digit(b, k) = 1
    BY BitsDef
  <2>2. Digit(a, k) \in {0, 1} /\ Digit(b, k) \in {0, 1} /\ Digit(v, k) \in {0, 1}
    BY WordDigits, Zenon
  <2>. QED  BY ONLY <1>1, <2>1, <2>2, k \in 0 .. W - 1 DEF BitOr
<1>3. Bitwise(a, b, BitOr) = v
  BY ONLY <1>2, v \in Word, BitwiseIs
<1>. QED  BY <1>1, <1>3

\* XOR.
LEMMA LogicXor ==
  \A a, b \in Word :
    Bitwise(a, b, BitXor) \in Word /\ FromBits(SymDiff(Bits(a), Bits(b))) = Bitwise(a, b, BitXor)
<1>. TAKE a, b \in Word
<1>. DEFINE S == SymDiff(Bits(a), Bits(b))
<1>1. PICK v \in Word : (\A k \in 0 .. W - 1 : k \in S <=> Digit(v, k) = 1) /\ FromBits(S) = v
  BY WordOfBits, Zenon
<1>2. ASSUME NEW k \in 0 .. W - 1  PROVE BitXor[Digit(a, k)][Digit(b, k)] = Digit(v, k)
  <2>1. k \in S <=> ((Digit(a, k) = 1 /\ Digit(b, k) # 1) \/ (Digit(a, k) # 1 /\ Digit(b, k) = 1))
    BY BitsDef DEF SymDiff
  <2>2. Digit(a, k) \in {0, 1} /\ Digit(b, k) \in {0, 1} /\ Digit(v, k) \in {0, 1}
    BY WordDigits, Zenon
  <2>3. (0 + 0) % 2 = 0 /\ (0 + 1) % 2 = 1 /\ (1 + 0) % 2 = 1 /\ (1 + 1) % 2 = 0
    OBVIOUS
  <2>. HIDE DEF S
  <2>. QED  BY ONLY <1>1, <2>1, <2>2, <2>3, k \in 0 .. W - 1 DEF BitXor
<1>3. Bitwise(a, b, BitXor) = v
  BY ONLY <1>2, v \in Word, BitwiseIs
<1>. QED  BY <1>1, <1>3

\* NOR.
LEMMA LogicNor ==
  \A a, b \in Word :
    /\ Bitwise(a, b, BitNor) \in Word
    /\ Complement(FromBits(Bits(a) \cup Bits(b))) = Bitwise(a, b, BitNor)
<1>. TAKE a, b \in Word
<1>1. PICK v \in Word : /\ \A k \in 0 .. W - 1 : k \in Bits(a) \cup Bits(b) <=> Digit(v, k) = 1
                        /\ FromBits(Bits(a) \cup Bits(b)) = v
  BY WordOfBits, Zenon
<1>. DEFINE w == M - 1 - v
<1>2. w \in Word
  BY SizePowers DEF Word
<1>3. ASSUME NEW k \in 0 .. W - 1  PROVE BitNor[Digit(a, k)][Digit(b, k)] = Digit(w, k)
  <2>1. k \in Bits(a) \cup Bits(b) <=> Digit(a, k) = 1 \/ Digit(b, k) = 1
    BY BitsDef
  <2>2. Digit(a, k) \in {0, 1} /\ Digit(b, k) \in {0, 1} /\ Digit(v, k) \in {0, 1}
    BY WordDigits, Zenon
  <2>3. Digit(w, k) = 1 - Digit(v, k)
    <3>1. v \in 0 .. 2^W - 1 /\ w = 2^W - 1 - v
      BY DEF Word, M
    <3>. HIDE DEF w
    <3>. QED  BY <3>1, Sizes, DigitComplement
  <2>. HIDE DEF w
  <2>. QED  BY ONLY <1>1, <2>1, <2>2, <2>3, k \in 0 .. W - 1 DEF BitNor
<1>4. Bitwise(a, b, BitNor) = w
  <2>. HIDE DEF w
  <2>. QED  BY ONLY <1>2, <1>3, BitwiseIs
<1>. QED  BY <1>1, <1>2, <1>4 DEF Complement

\* A part of the bits of a word is a number below a power.
LEMMA Parts ==
  \A v \in Word : \A s \in 0 .. W :
    /\ s \in Nat /\ W - s \in Nat /\ 2^s \in Nat \ {0} /\ 2^(W - s) \in Nat \ {0}
    /\ M = 2^(W - s) * 2^s
    /\ v \div 2^s \in 0 .. 2^(W - s) - 1 /\ v % 2^s \in 0 .. 2^s - 1
    /\ v = (v \div 2^s) * 2^s + (v % 2^s)
<1>. TAKE v \in Word
<1>. TAKE s \in 0 .. W
<1>1. /\ s \in Nat /\ W - s \in Nat /\ 2^s \in Nat \ {0} /\ 2^(W - s) \in Nat \ {0}
      /\ 2^W = 2^s * 2^(W - s)
  <2>1. s \in Nat
    BY Sizes
  <2>. QED  BY <2>1, Sizes, PowerSplit, Zenon
<1>. DEFINE p == 2^s
            r == 2^(W - s)
<1>2. M = p * r /\ v \in 0 .. M - 1 /\ p \in Nat \ {0} /\ r \in Nat \ {0}
  BY <1>1 DEF Word, M
<1>. HIDE DEF p, r
<1>3. v \in Nat /\ v < p * r /\ M = r * p
  BY <1>2
<1>4. PICK q \in Nat, t \in 0 .. p-1 : v = p * q + t /\ v \div p = q /\ v % p = t
  BY ONLY <1>2, <1>3, Division, Zenon
<1>5. q < r
  <2>. SUFFICES ASSUME q >= r  PROVE FALSE
    BY <1>2
  <2>1. p * q >= p * r
    BY ONLY <1>2, q \in Nat, q >= r
  <2>2. p * q \in Nat /\ p * r \in Nat
    BY ONLY <1>2, q \in Nat
  <2>. QED  BY ONLY <1>2, <1>3, <1>4, <2>1, <2>2
<1>6. q \in 0 .. r - 1 /\ v = q * p + t
  <2>1. p * q = q * p
    BY ONLY <1>2, q \in Nat
  <2>. QED  BY <1>2, <1>4, <1>5, <2>1
<1>7. M = r * p /\ v \div p \in 0 .. r - 1 /\ v % p \in 0 .. p - 1 /\ v = (v \div p) * p + (v % p)
  BY ONLY <1>3, <1>4, <1>6, t \in 0 .. p-1, Zenon
<1>. QED  BY ONLY <1>1, <1>7 DEF p, r

\* A number that is shifted left.
LEMMA Shifted ==
  \A y, s \in Nat : /\ \A k \in 0 .. s - 1 : Digit(y * 2^s, k) = 0
                    /\ \A k \in Nat : Digit(y * 2^s, s + k) = Digit(y, k)
<1>. TAKE y, s \in Nat
<1>. DEFINE v == y * 2^s
            p == 2^s
<1>1. p \in Nat \ {0}
  BY PowerOfTwo
<1>2. Joins(v, y, s, 0)
  <2>1. 0 \in 0 .. p - 1 /\ y * p = 0 + y * p
    BY <1>1
  <2>. QED  BY <2>1 DEF Joins
<1>. HIDE DEF v
<1>3. /\ \A k \in 0 .. s - 1 : Digit(v, k) = Digit(0, k)
      /\ \A k \in Nat : Digit(v, s + k) = Digit(y, k)
  BY ONLY <1>2, Concatenation, SMT
<1>4. ASSUME NEW k \in 0 .. s - 1  PROVE Digit(0, k) = 0
  <2>1. 0 \in 0 .. 2^0 - 1 /\ k \in Nat /\ k >= 0 /\ 0 \in Nat
    BY PowerOfZero
  <2>. QED  BY <2>1, NoBitAbove, Zenon
<1>. QED  BY <1>3, <1>4, Zenon DEF v

\* A number above another is a word when they have as many bits.
LEMMA JoinedWord ==
  ASSUME NEW s \in 0 .. W, NEW x \in 0 .. 2^s - 1, NEW y \in 0 .. 2^(W - s) - 1
  PROVE  x + y * 2^s \in Word
<1>. DEFINE p == 2^s
            r == 2^(W - s)
<1>1. p \in Nat \ {0} /\ r \in Nat \ {0} /\ M = r * p
  <2>1. 0 \in Word
    BY SizePowers DEF Word
  <2>. QED  BY <2>1, Parts, Zenon
<1>2. x \in 0 .. p - 1 /\ y \in 0 .. r - 1
  OBVIOUS
<1>. HIDE DEF p, r
<1>3. y * p <= (r - 1) * p
  BY ONLY <1>1, <1>2
<1>4. (r - 1) * p = r * p - p /\ y * p \in Nat /\ r * p \in Nat
  BY ONLY <1>1, <1>2
<1>5. x + y * p \in 0 .. M - 1
  BY ONLY <1>1, <1>2, <1>3, <1>4
<1>. QED  BY <1>5 DEF Word, p

\* A word that is rotated.
LEMMA Rotated ==
  \A v \in Word : \A sa \in 0 .. W - 1 :
    /\ Rotr(v, sa) \in Word
    /\ FromBits(Bits(v \div 2^sa) \cup Bits((v % 2^sa) * 2^(W - sa))) = Rotr(v, sa)
<1>. TAKE v \in Word
<1>. TAKE sa \in 0 .. W - 1
<1>. DEFINE s == W - sa
            x == v \div 2^sa
            y == v % 2^sa
            z == y * 2^s
            w == x + z
<1>1. W \in Nat /\ sa \in 0 .. W /\ s \in 0 .. W /\ s \in Nat /\ sa \in Nat /\ W - s = sa
      /\ s + sa = W
  BY Sizes
<1>2. x \in 0 .. 2^s - 1 /\ y \in 0 .. 2^(W - s) - 1
  BY <1>1, Parts, Zenon
<1>3. x \in Nat /\ y \in Nat
  <2>1. 2^s \in Nat /\ 2^(W - s) \in Nat
    BY <1>1, PowerOfTwo
  <2>. QED  BY <1>2, <2>1
<1>. HIDE DEF x, y
<1>. HIDE DEF s
<1>4. w \in Word
  BY <1>1, <1>2, JoinedWord, Zenon
<1>5. x \in Word /\ z \in Word
  <2>1. 0 \in 0 .. 2^s - 1 /\ 0 \in 0 .. 2^(W - s) - 1
    BY <1>1, <1>2, PowerOfTwo
  <2>2. x + 0 * 2^s \in Word /\ 0 + y * 2^s \in Word
    BY ONLY <1>1, <1>2, <2>1, JoinedWord
  <2>3. x + 0 * 2^s = x /\ 0 + y * 2^s = y * 2^s
    <3>. DEFINE p == 2^s
    <3>1. p \in Nat
      BY <1>1, PowerOfTwo
    <3>2. x + 0 * p = x /\ 0 + y * p = y * p
      <4>. HIDE DEF p
      <4>. QED  BY ONLY <3>1, <1>3
    <3>. QED  BY <3>2
  <2>. QED  BY <2>2, <2>3
<1>6. Joins(w, y, s, x)
  BY <1>1, <1>2, <1>3 DEF Joins
<1>70. /\ \A k \in 0 .. s - 1 : Digit(z, k) = 0
      /\ \A k \in Nat : Digit(z, s + k) = Digit(y, k)
  BY ONLY <1>1, <1>3, Shifted, Zenon
<1>7. ASSUME NEW k \in 0 .. W - 1
      PROVE  k \in Bits(x) \cup Bits(z) <=> Digit(w, k) = 1
  <2>1. k \in Bits(x) \cup Bits(z) <=> Digit(x, k) = 1 \/ Digit(z, k) = 1
    BY <1>5, BitsDef
  <2>. HIDE DEF w, z
  <2>2. CASE k < s
    <3>1. k \in 0 .. s - 1
      BY <1>1, <2>2
    <3>2. Digit(z, k) = 0
      BY ONLY <1>70, <3>1, Zenon
    <3>3. Digit(w, k) = Digit(x, k)
      BY ONLY <3>1, <1>6, Concatenation, SMT
    <3>. QED  BY <2>1, <3>2, <3>3
  <2>3. CASE k >= s
    <3>. DEFINE j == k - s
    <3>1. j \in Nat /\ k = s + j /\ k \in Nat
      BY <1>1, <2>3
    <3>. HIDE DEF j
    <3>2. Digit(z, s + j) = Digit(y, j)
      BY ONLY <1>70, <3>1, Zenon
    <3>3. Digit(w, s + j) = Digit(y, j)
      BY ONLY <3>1, <1>6, Concatenation, SMT
    <3>4. Digit(x, k) = 0
      BY <1>1, <1>2, <2>3, <3>1, NoBitAbove, Zenon
    <3>. QED  BY <2>1, <3>1, <3>2, <3>3, <3>4
  <2>. QED  BY <1>1, <2>2, <2>3
<1>8. FromBits(Bits(x) \cup Bits(z)) = w
  <2>. HIDE DEF w
  <2>. QED  BY <1>4, <1>7, FromBitsIs, Zenon
<1>9. Rotr(v, sa) = w
  BY DEF Rotr, x, y, s
<1>. QED  BY <1>4, <1>8, <1>9 DEF x, y, s

\* A quotient and a remainder of a word are words.
LEMMA PartIsWord ==
  \A v \in Word : \A s \in Nat : v \div 2^s \in Word /\ v % 2^s \in Word
<1>. TAKE v \in Word
<1>. TAKE s \in Nat
<1>. DEFINE p == 2^s
<1>1. p \in Nat \ {0} /\ v \in Nat /\ v < M
  BY PowerOfTwo, WordDigits
<1>. HIDE DEF p
<1>2. PICK q \in Nat, t \in 0 .. p-1 : v = p * q + t /\ v \div p = q /\ v % p = t
  BY ONLY <1>1, Division, Zenon
<1>3. p * q >= q /\ p * q \in Nat
  BY ONLY <1>1, q \in Nat
<1>4. q < M /\ t < M /\ t \in Nat
  BY ONLY <1>1, <1>2, <1>3, t \in 0 .. p-1, q \in Nat, SizePowers
<1>5. q \in Word /\ t \in Word
  BY ONLY <1>4, q \in Nat, SizePowers DEF Word
<1>. QED  BY <1>2, <1>5, Zenon DEF p

\* ext takes bits out of a word.
LEMMA Extracted ==
  \A v \in Word : \A lsb, msbd \in Nat : lsb + msbd < W =>
    /\ (v \div 2^lsb) % 2^(msbd + 1) \in Word
    /\ FromBits(Bits(v \div 2^lsb) \cap (0 .. msbd)) = (v \div 2^lsb) % 2^(msbd + 1)
<1>. TAKE v \in Word
<1>. TAKE lsb, msbd \in Nat
<1>. HAVE lsb + msbd < W
<1>. DEFINE x == v \div 2^lsb
            n == msbd + 1
            z == x % 2^n
<1>1. n \in Nat /\ x \in Word
  BY PartIsWord
<1>2. z \in Word
  BY <1>1, PartIsWord
<1>3. x \in Nat
  BY <1>1, WordDigits
<1>4. z \in 0 .. 2^n - 1
  <2>. DEFINE p == 2^n
  <2>1. p \in Nat \ {0}
    BY <1>1, PowerOfTwo
  <2>. HIDE DEF p, x
  <2>2. x % p \in 0 .. p - 1
    BY ONLY <2>1, <1>3, Division, Zenon
  <2>. QED  BY <2>2 DEF p
<1>. HIDE DEF x, z
<1>5. ASSUME NEW k \in 0 .. W - 1
      PROVE  k \in Bits(x) \cap (0 .. msbd) <=> Digit(z, k) = 1
  <2>1. k \in Bits(x) <=> Digit(x, k) = 1
    BY <1>1, BitsDef
  <2>2. k \in Nat
    BY Sizes
  <2>3. CASE k < n
    <3>1. k \in 0 .. n - 1 /\ k \in 0 .. msbd
      BY <2>2, <2>3
    <3>2. Digit(x % 2^n, k) = Digit(x, k)
      BY ONLY <1>1, <1>3, <3>1, DigitMod, Zenon
    <3>. QED  BY <2>1, <3>1, <3>2 DEF z
  <2>4. CASE k >= n
    <3>1. Digit(z, k) = 0
      BY <1>1, <1>4, <2>2, <2>4, NoBitAbove, Zenon
    <3>2. k \notin 0 .. msbd
      BY <2>2, <2>4
    <3>. QED  BY <3>1, <3>2
  <2>. QED  BY <1>1, <2>2, <2>3, <2>4
<1>6. FromBits(Bits(x) \cap (0 .. msbd)) = z
  BY <1>2, <1>5, FromBitsIs, Zenon
<1>. QED  BY <1>2, <1>6 DEF x, z

\* S is the bits of a word with a field replaced: the len bits from lo on are those
\* of y, and the others those of v.
BitsReplaced(S, v, lo, len, y) ==
  /\ lo \in Nat /\ len \in Nat /\ lo + len <= W /\ v \in Word /\ y \in 0 .. 2^len - 1
  /\ \A k \in 0 .. W - 1 : k < lo \/ k >= lo + len => (k \in S <=> Digit(v, k) = 1)
  /\ \A j \in 0 .. len - 1 : lo + j \in S <=> Digit(y, j) = 1

\* It is that word.
LEMMA ReplacedIs ==
  \A S, v, lo, len, y : BitsReplaced(S, v, lo, len, y) =>
    Replaced(v, lo, len, y) \in Word /\ FromBits(S) = Replaced(v, lo, len, y)
<1>. TAKE S, v, lo, len, y
<1>. HAVE BitsReplaced(S, v, lo, len, y)
<1>a. /\ lo \in Nat /\ len \in Nat /\ lo + len <= W /\ v \in Word /\ y \in 0 .. 2^len - 1
      /\ \A k \in 0 .. W - 1 : k < lo \/ k >= lo + len => (k \in S <=> Digit(v, k) = 1)
      /\ \A j \in 0 .. len - 1 : lo + j \in S <=> Digit(y, j) = 1
  BY Zenon DEF BitsReplaced
<1>. USE <1>a
<1>. DEFINE w == Replaced(v, lo, len, y)
<1>1. v \in 0 .. 2^W - 1 /\ W \in Nat
  BY ONLY v \in Word, Sizes DEF Word, M
<1>2. Replaces(w, v, W, lo, len, y)
  BY <1>1 DEF Replaces
<1>. HIDE DEF w
<1>3. /\ w \in 0 .. 2^W - 1
      /\ \A k \in 0 .. lo - 1 : Digit(w, k) = Digit(v, k)
      /\ \A j \in 0 .. len - 1 : Digit(w, lo + j) = Digit(y, j)
      /\ \A k \in Nat : k >= lo + len => Digit(w, k) = Digit(v, k)
  <2>1. w \in 0 .. 2^W - 1
    BY ONLY <1>2, FieldReplaced, SMT
  <2>2. \A k \in 0 .. lo - 1 : Digit(w, k) = Digit(v, k)
    BY ONLY <1>2, FieldReplaced, SMT
  <2>3. \A j \in 0 .. len - 1 : Digit(w, lo + j) = Digit(y, j)
    BY ONLY <1>2, FieldReplaced, SMT
  <2>4. \A k \in Nat : k >= lo + len => Digit(w, k) = Digit(v, k)
    BY ONLY <1>2, FieldReplaced, SMT
  <2>. QED  BY <2>1, <2>2, <2>3, <2>4
<1>4. w \in Word
  BY <1>3 DEF Word, M
<1>5. ASSUME NEW k \in 0 .. W - 1  PROVE k \in S <=> Digit(w, k) = 1
  <2>1. CASE k < lo
    <3>1. k \in 0 .. lo - 1
      BY <1>1, <2>1
    <3>. QED  BY <1>3, <2>1, <3>1
  <2>2. CASE k >= lo + len
    <3>1. k \in Nat
      BY <1>1
    <3>. QED  BY <1>3, <2>2, <3>1
  <2>3. CASE k >= lo /\ k < lo + len
    <3>. DEFINE j == k - lo
    <3>1. j \in 0 .. len - 1 /\ k = lo + j
      BY <1>1, <2>3
    <3>. HIDE DEF j
    <3>. QED  BY <1>3, <3>1
  <2>. QED  BY <1>1, <2>1, <2>2, <2>3
<1>6. FromBits(S) = w
  BY <1>4, <1>5, FromBitsIs, Zenon
<1>. QED  BY <1>4, <1>6 DEF w

\* The bits of a word that is shifted left and cut.
LEMMA ShiftedWord ==
  \A v \in Word : \A s \in Nat : \A j \in Nat :
    s + j < W => Digit(Trunc(v * 2^s), s + j) = Digit(v, j)
<1>. TAKE v \in Word
<1>. TAKE s \in Nat
<1>. TAKE j \in Nat
<1>. HAVE s + j < W
<1>. DEFINE n == v * 2^s
<1>1. v \in Nat /\ s + j \in 0 .. W - 1 /\ W \in Nat
  BY WordDigits, Sizes
<1>2. n \in Nat
  <2>1. 2^s \in Nat
    BY PowerOfTwo
  <2>. QED  BY <1>1, <2>1
<1>3. Digit(n, s + j) = Digit(v, j)
  BY <1>1, Shifted, Zenon
<1>. HIDE DEF n
<1>4. Digit(n % 2^W, s + j) = Digit(n, s + j)
  BY ONLY <1>1, <1>2, DigitMod, Zenon
<1>. QED  BY <1>3, <1>4 DEF Trunc, M, n

\* A word takes the bits F, len of them from lo on, from another word, where those of
\* y are.
TakesField(old, new, F, lo, len, y) ==
  /\ old \in Word /\ new \in Word /\ lo \in Nat /\ len \in Nat /\ lo + len <= W
  /\ y \in 0 .. 2^len - 1
  /\ \A k \in 0 .. W - 1 : k \in F <=> lo <= k /\ k < lo + len
  /\ \A j \in 0 .. len - 1 : Digit(new, lo + j) = Digit(y, j)

\* Then the field is replaced.
LEMMA FieldTaken ==
  \A old, new, F, lo, len, y : TakesField(old, new, F, lo, len, y) =>
    /\ Replaced(old, lo, len, y) \in Word
    /\ FromBits((Bits(old) \ F) \cup (Bits(new) \cap F)) = Replaced(old, lo, len, y)
<1>. TAKE old, new, F, lo, len, y
<1>. HAVE TakesField(old, new, F, lo, len, y)
<1>0. /\ old \in Word /\ new \in Word /\ lo \in Nat /\ len \in Nat /\ lo + len <= W
      /\ y \in 0 .. 2^len - 1
      /\ \A k \in 0 .. W - 1 : k \in F <=> lo <= k /\ k < lo + len
      /\ \A j \in 0 .. len - 1 : Digit(new, lo + j) = Digit(y, j)
  BY Zenon DEF TakesField
<1>. USE <1>0
<1>. DEFINE S == (Bits(old) \ F) \cup (Bits(new) \cap F)
<1>1. ASSUME NEW k \in 0 .. W - 1, k < lo \/ k >= lo + len
      PROVE  k \in S <=> Digit(old, k) = 1
  <2>1. k \notin F
    BY <1>1, Sizes
  <2>. QED  BY <2>1, BitsDef
<1>2. ASSUME NEW j \in 0 .. len - 1  PROVE lo + j \in S <=> Digit(y, j) = 1
  <2>1. lo + j \in 0 .. W - 1 /\ lo + j \in F
    BY Sizes
  <2>2. Digit(new, lo + j) = Digit(y, j)
    OBVIOUS
  <2>. QED  BY <2>1, <2>2, BitsDef
<1>. HIDE DEF S
<1>3. BitsReplaced(S, old, lo, len, y)
  BY <1>1, <1>2, Zenon DEF BitsReplaced
<1>. QED  BY ONLY <1>3, ReplacedIs, SMT DEF S

\* The low digits of a number.
LEMMA LowPart ==
  \A v, n \in Nat : /\ v % 2^n \in 0 .. 2^n - 1 /\ v % 2^n \in Nat
                    /\ \A j \in 0 .. n - 1 : Digit(v % 2^n, j) = Digit(v, j)
<1>. TAKE v, n \in Nat
<1>. DEFINE p == 2^n
<1>1. p \in Nat \ {0}
  BY PowerOfTwo
<1>2. v % p \in 0 .. p - 1
  <2>. HIDE DEF p
  <2>. QED  BY <1>1, Division, Zenon
<1>3. v % p \in Nat
  <2>. HIDE DEF p
  <2>. QED  BY <1>1, <1>2
<1>. QED  BY <1>2, <1>3, DigitMod, Zenon

\* ins puts bits into a word.
LEMMA Inserted ==
  \A a, b \in Word : \A lsb, msb \in Nat : lsb <= msb /\ msb < W =>
    LET field == {k \in 0 .. msb : k >= lsb}
        len   == msb - lsb + 1
    IN  /\ Replaced(b, lsb, len, a % 2^len) \in Word
        /\ FromBits((field \cap Bits(Trunc(a * 2^lsb))) \cup (Bits(b) \ field))
             = Replaced(b, lsb, len, a % 2^len)
<1>. TAKE a, b \in Word
<1>. TAKE lsb, msb \in Nat
<1>. HAVE lsb <= msb /\ msb < W
<1>. DEFINE field == {k \in 0 .. msb : k >= lsb}
            len   == msb - lsb + 1
            new   == Trunc(a * 2^lsb)
            y     == a % 2^len
<1>1. len \in Nat /\ lsb + len <= W /\ a \in Nat /\ lsb + len = msb + 1 /\ W \in Nat
  BY Sizes, WordDigits
<1>2. \A k \in 0 .. W - 1 : k \in field <=> lsb <= k /\ k < lsb + len
  BY <1>1
<1>. HIDE DEF len
<1>3. y \in 0 .. 2^len - 1 /\ \A j \in 0 .. len - 1 : Digit(y, j) = Digit(a, j)
  BY <1>1, LowPart, Zenon
<1>4. new \in Word
  <2>. DEFINE n == a * 2^lsb
  <2>1. n \in Nat
    <3>1. 2^lsb \in Nat
      BY PowerOfTwo
    <3>. QED  BY <3>1, <1>1
  <2>. HIDE DEF n
  <2>2. n % 2^W \in 0 .. 2^W - 1
    BY <1>1, <2>1, LowPart, Zenon
  <2>. QED  BY <2>2 DEF Word, M, Trunc, n
<1>5. ASSUME NEW j \in 0 .. len - 1  PROVE Digit(new, lsb + j) = Digit(y, j)
  <2>1. j \in Nat /\ lsb + j < W
    BY <1>1
  <2>. QED  BY <1>3, <2>1, ShiftedWord, Zenon
<1>. HIDE DEF field, new, y
<1>6. /\ Replaced(b, lsb, len, y) \in Word
      /\ FromBits((Bits(b) \ field) \cup (Bits(new) \cap field)) = Replaced(b, lsb, len, y)
  <2>1. TakesField(b, new, field, lsb, len, y)
    BY <1>1, <1>2, <1>3, <1>4, <1>5, Zenon DEF TakesField
  <2>. QED  BY ONLY <2>1, FieldTaken, SMT
<1>7. (field \cap Bits(new)) \cup (Bits(b) \ field) = (Bits(b) \ field) \cup (Bits(new) \cap field)
  OBVIOUS
<1>. QED  BY <1>6, <1>7, Zenon DEF field, len, new, y

\* A number above another, and the range of both.
LEMMA JoinRange ==
  \A p, r \in Nat \ {0} : \A x \in 0 .. p - 1 : \A y \in 0 .. r - 1 :
    x + y * p \in 0 .. p * r - 1
<1>. TAKE p, r \in Nat \ {0}
<1>. TAKE x \in 0 .. p - 1
<1>. TAKE y \in 0 .. r - 1
<1>1. y * p <= (r - 1) * p /\ (r - 1) * p = p * r - p
  OBVIOUS
<1>2. y * p \in Nat /\ p * r \in Nat
  OBVIOUS
<1>. QED  BY <1>1, <1>2

\* The place that a bit has when the bytes of the halves are swapped.
Swap(k) == ((k + ByteBits) % H) + H * (k \div H)

\* Swapping twice changes nothing.
LEMMA Swaps ==
  \A j \in 0 .. ByteBits - 1 :
    /\ Swap(j) = ByteBits + j /\ Swap(ByteBits + j) = j
    /\ Swap(H + j) = H + ByteBits + j /\ Swap(H + ByteBits + j) = H + j
<1>. TAKE j \in 0 .. ByteBits - 1
<1>1. ASSUME NEW q \in Nat, NEW r \in 0 .. H - 1
      PROVE  (H * q + r) \div H = q /\ (H * q + r) % H = r
  <2>1. H \in Nat \ {0} /\ H * q + r \in Nat
    BY Sizes
  <2>2. q \in Int
    OBVIOUS
  <2>. QED  BY <2>1, <2>2, Quotient, Zenon
<1>2. j \in 0 .. H - 1 /\ ByteBits + j \in 0 .. H - 1 /\ 0 \in Nat /\ 1 \in Nat /\ 2 \in Nat
  BY Sizes
<1>3. /\ H * 0 + j = j /\ H * 0 + (ByteBits + j) = ByteBits + j
      /\ H * 1 + j = H + j /\ H * 1 + (ByteBits + j) = H + ByteBits + j
      /\ H * 2 + j = H + H + j
  BY Sizes
<1>4. /\ j \div H = 0 /\ (ByteBits + j) \div H = 0 /\ j % H = j /\ (ByteBits + j) % H = ByteBits + j
      /\ (H + j) \div H = 1 /\ (H + ByteBits + j) \div H = 1
      /\ (H + j) % H = j /\ (H + ByteBits + j) % H = ByteBits + j /\ (H + H + j) % H = j
  BY <1>1, <1>2, <1>3, Zenon
<1>5. /\ j + ByteBits = ByteBits + j /\ (ByteBits + j) + ByteBits = H + j
      /\ (H + j) + ByteBits = H + ByteBits + j /\ (H + ByteBits + j) + ByteBits = H + H + j
  BY Sizes
<1>6. /\ (j + ByteBits) % H = ByteBits + j /\ ((ByteBits + j) + ByteBits) % H = j
      /\ ((H + j) + ByteBits) % H = ByteBits + j /\ ((H + ByteBits + j) + ByteBits) % H = j
  BY <1>4, <1>5, Zenon
<1>7. H * 0 = 0 /\ H * 1 = H /\ H \in Nat /\ ByteBits \in Nat /\ j \in Nat
  BY Sizes
<1>. QED  BY ONLY <1>4, <1>6, <1>7 DEF Swap

\* A bit of a word is in one of its four bytes.
LEMMA InByte ==
  \A k \in 0 .. W - 1 : \E j \in 0 .. ByteBits - 1 :
    k \in {j, ByteBits + j, H + j, H + ByteBits + j}
<1>. TAKE k \in 0 .. W - 1
<1>1. CASE k < ByteBits
  <2>1. k \in 0 .. ByteBits - 1
    BY <1>1, Sizes
  <2>. QED  BY <2>1
<1>2. CASE k >= ByteBits /\ k < H
  <2>1. k - ByteBits \in 0 .. ByteBits - 1 /\ k = ByteBits + (k - ByteBits)
    BY <1>2, Sizes
  <2>. QED  BY <2>1
<1>3. CASE k >= H /\ k < H + ByteBits
  <2>1. k - H \in 0 .. ByteBits - 1 /\ k = H + (k - H)
    BY <1>3, Sizes
  <2>. QED  BY <2>1
<1>4. CASE k >= H + ByteBits
  <2>1. k - (H + ByteBits) \in 0 .. ByteBits - 1 /\ k = H + ByteBits + (k - (H + ByteBits))
    BY <1>4, Sizes
  <2>. QED  BY <2>1
<1>. QED  BY <1>1, <1>2, <1>3, <1>4, Sizes

\* wsbh swaps the bytes of the halves of a word.
LEMMA BytesSwapped ==
  \A a \in Word :
    LET b(k) == (a \div 2^(ByteBits * k)) % 2^ByteBits
        v == b(1) + b(0) * 2^ByteBits + b(3) * 2^H + b(2) * 2^(H + ByteBits)
    IN  v \in Word /\ FromBits({Swap(k) : k \in Bits(a)}) = v
<1>. TAKE a \in Word
<1>. DEFINE b(k) == (a \div 2^(ByteBits * k)) % 2^ByteBits
            B  == 2^ByteBits
            b0 == b(0)
            b1 == b(1)
            b2 == b(2)
            b3 == b(3)
            v2 == b3 + b2 * B
            v1 == b0 + v2 * B
            v  == b1 + v1 * B
<1>1. /\ B \in Nat \ {0} /\ 2^H = B * B /\ 2^(H + ByteBits) = (B * B) * B /\ M = (B * B) * (B * B)
      /\ ByteBits \in Nat
  <2>1. 2^(H + ByteBits) = 2^H * 2^ByteBits
    BY Sizes, PowerSum, Zenon
  <2>. QED  BY <2>1, Sizes, SizePowers, Zenon
<1>2. \A k \in 0 .. 3 : /\ b(k) \in 0 .. B - 1 /\ b(k) \in Nat
                        /\ \A j \in 0 .. ByteBits - 1 : Digit(b(k), j) = Digit(a, ByteBits * k + j)
  <2>. TAKE k \in 0 .. 3
  <2>. DEFINE s == ByteBits * k
              x == a \div 2^s
  <2>1. s \in Nat
    BY Sizes
  <2>. HIDE DEF s
  <2>2. x \in Nat
    BY <2>1, PartIsWord, WordDigits, Zenon
  <2>. HIDE DEF x
  <2>3. x % 2^ByteBits \in 0 .. 2^ByteBits - 1 /\ x % 2^ByteBits \in Nat
    BY <2>2, <1>1, LowPart, Zenon
  <2>4. ASSUME NEW j \in 0 .. ByteBits - 1  PROVE Digit(x % 2^ByteBits, j) = Digit(a, s + j)
    <3>1. j \in Nat /\ a \in Nat
      BY Sizes, WordDigits
    <3>2. Digit(x % 2^ByteBits, j) = Digit(x, j)
      BY <2>2, <1>1, LowPart, Zenon
    <3>3. Digit(x, j) = Digit(a, s + j)
      BY ONLY <2>1, <3>1, DigitDiv, SMT DEF x
    <3>. QED  BY <3>2, <3>3, Zenon
  <2>. QED  BY <2>3, <2>4, Zenon DEF s, x
<1>3. /\ b0 \in 0 .. B - 1 /\ b1 \in 0 .. B - 1 /\ b2 \in 0 .. B - 1 /\ b3 \in 0 .. B - 1
      /\ b0 \in Nat /\ b1 \in Nat /\ b2 \in Nat /\ b3 \in Nat
  <2>1. 0 \in 0 .. 3 /\ 1 \in 0 .. 3 /\ 2 \in 0 .. 3 /\ 3 \in 0 .. 3
    OBVIOUS
  <2>. QED  BY <1>2, <2>1, Zenon
<1>4. ASSUME NEW j \in 0 .. ByteBits - 1
      PROVE  /\ Digit(b0, j) = Digit(a, j) /\ Digit(b1, j) = Digit(a, ByteBits + j)
             /\ Digit(b2, j) = Digit(a, H + j) /\ Digit(b3, j) = Digit(a, H + ByteBits + j)
  <2>1. 0 \in 0 .. 3 /\ 1 \in 0 .. 3 /\ 2 \in 0 .. 3 /\ 3 \in 0 .. 3
    OBVIOUS
  <2>2. /\ ByteBits * 0 + j = j /\ ByteBits * 1 + j = ByteBits + j
        /\ ByteBits * 2 + j = H + j /\ ByteBits * 3 + j = H + ByteBits + j
    BY Sizes
  <2>. QED  BY <1>2, <2>1, <2>2, Zenon
<1>. HIDE DEF b0, b1, b2, b3
<1>5. v2 \in 0 .. B * B - 1 /\ B * B \in Nat \ {0}
  <2>. HIDE DEF B
  <2>1. v2 \in 0 .. B * B - 1
    BY <1>1, <1>3, JoinRange, Zenon
  <2>2. B * B \in Nat \ {0}
    BY <1>1
  <2>. QED  BY <2>1, <2>2
<1>6. v1 \in 0 .. B * (B * B) - 1 /\ B * (B * B) \in Nat \ {0}
  <2>. HIDE DEF B, v2
  <2>. DEFINE r == B * B
  <2>. HIDE DEF r
  <2>0. r \in Nat \ {0} /\ v2 \in 0 .. r - 1
    BY <1>5 DEF r
  <2>1. v1 \in 0 .. B * r - 1
    BY <1>1, <1>3, <2>0, JoinRange, Zenon
  <2>2. B * r \in Nat \ {0}
    BY <1>1, <2>0
  <2>. QED  BY <2>1, <2>2 DEF r
<1>7. v \in Word
  <2>. HIDE DEF B, v1
  <2>. DEFINE r == B * (B * B)
  <2>1. M = B * r
    BY <1>1
  <2>. HIDE DEF r
  <2>0. r \in Nat \ {0} /\ v1 \in 0 .. r - 1
    BY <1>6 DEF r
  <2>2. v \in 0 .. B * r - 1
    BY <1>1, <1>3, <2>0, JoinRange, Zenon
  <2>. QED  BY <2>1, <2>2 DEF Word
<1>8. v2 \in Nat /\ v1 \in Nat
  BY <1>5, <1>6
<1>9. Joins(v, v1, ByteBits, b1) /\ Joins(v1, v2, ByteBits, b0) /\ Joins(v2, b2, ByteBits, b3)
  <2>. HIDE DEF v1, v2
  <2>1. Joins(v, v1, ByteBits, b1)
    BY <1>1, <1>3, <1>8, Zenon DEF Joins
  <2>2. Joins(v1, v2, ByteBits, b0)
    BY <1>1, <1>3, <1>8, Zenon DEF Joins, v1
  <2>3. Joins(v2, b2, ByteBits, b3)
    BY <1>1, <1>3, <1>8, Zenon DEF Joins, v2
  <2>. QED  BY <2>1, <2>2, <2>3
<1>10. b(1) + b(0) * 2^ByteBits + b(3) * 2^H + b(2) * 2^(H + ByteBits) = v
  <2>1. b1 + b0 * B + b3 * (B * B) + b2 * ((B * B) * B) = b1 + (b0 + (b3 + b2 * B) * B) * B
    <3>. HIDE DEF B
    <3>1. (b3 + b2 * B) * B = b3 * B + (b2 * B) * B
      BY ONLY <1>1, <1>3
    <3>2. (b0 + (b3 * B + (b2 * B) * B)) * B = b0 * B + ((b3 * B) * B + ((b2 * B) * B) * B)
      BY ONLY <1>1, <1>3
    <3>3. (b3 * B) * B = b3 * (B * B) /\ ((b2 * B) * B) * B = b2 * ((B * B) * B)
      BY ONLY <1>1, <1>3
    <3>4. b0 * B \in Nat /\ b3 * (B * B) \in Nat /\ b2 * ((B * B) * B) \in Nat
      BY ONLY <1>1, <1>3
    <3>. QED  BY ONLY <1>3, <3>1, <3>2, <3>3, <3>4
  <2>2. b(1) = b1 /\ b(0) = b0 /\ b(3) = b3 /\ b(2) = b2
    BY DEF b0, b1, b2, b3
  <2>. QED  BY <1>1, <2>1, <2>2, Zenon
<1>. DEFINE S == {Swap(k) : k \in Bits(a)}
<1>. HIDE DEF b
<1>11. ASSUME NEW k \in 0 .. W - 1  PROVE k \in S <=> Digit(v, k) = 1
  <2>1. PICK j \in 0 .. ByteBits - 1 : k \in {j, ByteBits + j, H + j, H + ByteBits + j}
    BY InByte, Zenon
  <2>. DEFINE k0 == j
              k1 == ByteBits + j
              k2 == H + j
              k3 == H + ByteBits + j
  <2>2. /\ k0 \in 0 .. W - 1 /\ k1 \in 0 .. W - 1 /\ k2 \in 0 .. W - 1 /\ k3 \in 0 .. W - 1
        /\ k0 \in Nat /\ k1 \in Nat /\ ByteBits + (ByteBits + j) = k2
        /\ ByteBits + (ByteBits + (ByteBits + j)) = k3 /\ ByteBits + j \in Nat
        /\ ByteBits + (ByteBits + j) \in Nat
    BY Sizes
  <2>3. Swap(k0) = k1 /\ Swap(k1) = k0 /\ Swap(k2) = k3 /\ Swap(k3) = k2
    BY Swaps, Zenon
  <2>4. ASSUME NEW n \in 0 .. W - 1
        PROVE  Swap(Swap(n)) = n
    <3>1. PICK i \in 0 .. ByteBits - 1 : n \in {i, ByteBits + i, H + i, H + ByteBits + i}
      BY InByte, Zenon
    <3>. QED  BY <3>1, Swaps
  <2>5. k \in S <=> Swap(k) \in Bits(a)
    <3>1. Swap(k) \in 0 .. W - 1
      BY <2>1, <2>2, <2>3
    <3>2. \A n \in Bits(a) : n \in 0 .. W - 1
      BY BitsDef
    <3>. QED  BY <2>4, <3>1, <3>2, Zenon
  <2>6. k \in S <=> Digit(a, Swap(k)) = 1
    <3>1. Swap(k) \in 0 .. W - 1
      BY <2>1, <2>2, <2>3
    <3>. QED  BY <2>5, <3>1, BitsDef
  <2>. HIDE DEF v, v1, v2, S
  <2>7. Digit(v, k0) = Digit(a, k1)
    <3>1. Digit(v, j) = Digit(b1, j)
      BY ONLY <1>9, j \in 0 .. ByteBits - 1, Concatenation, SMT
    <3>. QED  BY <1>4, <3>1, Zenon
  <2>8. \A n \in Nat : Digit(v, ByteBits + n) = Digit(v1, n)
    BY ONLY <1>9, Concatenation, SMT
  <2>9. \A n \in Nat : Digit(v1, ByteBits + n) = Digit(v2, n)
    BY ONLY <1>9, Concatenation, SMT
  <2>10. \A n \in Nat : Digit(v2, ByteBits + n) = Digit(b2, n)
    BY ONLY <1>9, Concatenation, SMT
  <2>11. Digit(v, k1) = Digit(a, k0)
    <3>1. Digit(v1, j) = Digit(b0, j)
      BY ONLY <1>9, j \in 0 .. ByteBits - 1, Concatenation, SMT
    <3>. QED  BY <1>4, <2>2, <2>8, <3>1, Zenon
  <2>12. Digit(v, k2) = Digit(a, k3)
    <3>1. Digit(v2, j) = Digit(b3, j)
      BY ONLY <1>9, j \in 0 .. ByteBits - 1, Concatenation, SMT
    <3>. QED  BY <1>4, <2>2, <2>8, <2>9, <3>1, Zenon
  <2>13. Digit(v, k3) = Digit(a, k2)
    <3>1. Digit(v2, ByteBits + j) = Digit(b2, j)
      BY <2>2, <2>10, Zenon
    <3>2. Digit(v1, ByteBits + (ByteBits + j)) = Digit(v2, ByteBits + j)
      BY <2>2, <2>9, Zenon
    <3>3. Digit(v, ByteBits + (ByteBits + (ByteBits + j))) = Digit(v1, ByteBits + (ByteBits + j))
      BY <2>2, <2>8, Zenon
    <3>. QED  BY <1>4, <2>2, <3>1, <3>2, <3>3, Zenon
  <2>. HIDE DEF k0, k1, k2, k3
  <2>14. k \in {k0, k1, k2, k3}
    BY <2>1 DEF k0, k1, k2, k3
  <2>. QED  BY ONLY <2>3, <2>6, <2>7, <2>11, <2>12, <2>13, <2>14
<1>12. FromBits(S) = v
  <2>. HIDE DEF v, S
  <2>. QED  BY <1>7, <1>11, FromBitsIs, Zenon
<1>. QED  BY <1>7, <1>10, <1>12, Zenon DEF b

\* The bits that a number needs.
IsWidth(a, p) == p \in Nat /\ a < 2^p /\ (p # 0 => a >= 2^(p - 1))

\* A number has a width.
LEMMA HasWidth ==
  \A n \in Nat : \A a \in 0 .. 2^n - 1 : \E p \in 0 .. n : IsWidth(a, p)
<1>. DEFINE S == {n \in Nat : \A a \in 0 .. 2^n - 1 : \E p \in 0 .. n : IsWidth(a, p)}
<1>1. 0 \in S
  <2>. SUFFICES ASSUME NEW a \in 0 .. 2^0 - 1  PROVE \E p \in 0 .. 0 : IsWidth(a, p)
    OBVIOUS
  <2>1. 0 \in 0 .. 0 /\ a < 2^0
    BY PowerOfZero
  <2>2. IsWidth(a, 0)
    BY <2>1 DEF IsWidth
  <2>. QED  BY <2>1, <2>2
<1>2. ASSUME NEW n \in Nat, n \in S  PROVE n + 1 \in S
  <2>. SUFFICES ASSUME NEW a \in 0 .. 2^(n + 1) - 1  PROVE \E p \in 0 .. n + 1 : IsWidth(a, p)
    OBVIOUS
  <2>. DEFINE r == 2^n
              s == 2^(n + 1)
  <2>1. r \in Nat /\ s \in Nat /\ a \in 0 .. s - 1
    BY PowerOfTwo
  <2>. HIDE DEF r, s
  <2>2. CASE a < r
    <3>1. a \in 0 .. r - 1
      BY <2>1, <2>2
    <3>2. PICK p \in 0 .. n : IsWidth(a, p)
      BY <1>2, <3>1, Zenon DEF r
    <3>. QED  BY <3>2
  <2>3. CASE a >= r
    <3>1. a < s /\ n + 1 \in Nat /\ (n + 1) - 1 = n /\ n + 1 \in 0 .. n + 1
      BY <2>1
    <3>2. IsWidth(a, n + 1)
      BY <2>3, <3>1, Zenon DEF IsWidth, r, s
    <3>. QED  BY <3>1, <3>2
  <2>. QED  BY <2>1, <2>2, <2>3
<1>. HIDE DEF S
<1>3. \A n \in Nat : n \in S
  BY <1>1, <1>2, Induction, Zenon
<1>. QED  BY <1>3, Zenon DEF S

\* It has only one.
LEMMA OneWidth == \A a \in Nat : \A p, q : IsWidth(a, p) /\ IsWidth(a, q) => p = q
<1>1. ASSUME NEW a \in Nat, NEW p, NEW q, IsWidth(a, p), IsWidth(a, q), p < q  PROVE FALSE
  <2>1. p \in Nat /\ q \in Nat /\ q # 0 /\ a < 2^p /\ a >= 2^(q - 1)
    <3>1. p \in Nat /\ q \in Nat /\ a < 2^p /\ (q # 0 => a >= 2^(q - 1))
      BY <1>1, Zenon DEF IsWidth
    <3>. QED  BY <1>1, <3>1
  <2>2. q - 1 \in Nat /\ p \in 0 .. q - 1
    BY <1>1, <2>1
  <2>3. 2^p <= 2^(q - 1) /\ 2^p \in Nat /\ 2^(q - 1) \in Nat
    BY <2>2, PowerSplit
  <2>. DEFINE r == 2^p
              s == 2^(q - 1)
  <2>4. r <= s /\ r \in Nat /\ s \in Nat /\ a < r /\ a >= s
    BY <2>1, <2>3
  <2>. HIDE DEF r, s
  <2>. QED  BY <2>4
<1>. SUFFICES ASSUME NEW a \in Nat, NEW p, NEW q, IsWidth(a, p), IsWidth(a, q)  PROVE p = q
  OBVIOUS
<1>2. p \in Nat /\ q \in Nat
  BY DEF IsWidth
<1>3. ~(p < q) /\ ~(q < p)
  BY <1>1
<1>. QED  BY <1>2, <1>3

\* The width of a number, from those of its parts.
LEMMA WidthOfParts ==
  \A a, s \in Nat : \A p : IsWidth(a \div 2^s, p) =>
    /\ p # 0 => IsWidth(a, p + s)
    /\ p = 0 => a \div 2^s = 0 /\ a % 2^s = a
    /\ a \div 2^s = 0 <=> p = 0
<1>. TAKE a, s \in Nat
<1>. TAKE p
<1>. HAVE IsWidth(a \div 2^s, p)
<1>. DEFINE c == 2^s
            x == a \div 2^s
<1>0. p \in Nat /\ x < 2^p /\ (p # 0 => x >= 2^(p - 1))
  BY DEF IsWidth
<1>1. c \in Nat \ {0}
  BY PowerOfTwo
<1>2. PICK q \in Nat, r \in 0 .. c - 1 : a = c * q + r /\ a \div c = q /\ a % c = r
  <2>. HIDE DEF c
  <2>. QED  BY ONLY <1>1, a \in Nat, Division, Zenon
<1>3. x = q
  BY <1>2
<1>4. CASE p = 0
  <2>1. q = 0
    BY <1>0, <1>3, <1>4, PowerOfZero
  <2>2. a = r
    <3>. HIDE DEF c
    <3>. QED  BY <1>1, <1>2, <2>1
  <2>. QED  BY <1>2, <1>4, <2>1, <2>2
<1>5. CASE p # 0
  <2>. DEFINE u == 2^p
              h == 2^(p - 1)
  <2>1. u \in Nat \ {0} /\ h \in Nat \ {0} /\ q < u /\ q >= h /\ p - 1 \in Nat
    <3>1. p - 1 \in Nat
      BY <1>0, <1>5
    <3>. QED  BY <1>0, <1>3, <1>5, <3>1, PowerOfTwo
  <2>2. 2^(p + s) = u * c /\ 2^((p + s) - 1) = h * c
    <3>1. (p + s) - 1 = (p - 1) + s
      BY <1>0
    <3>. QED  BY <1>0, <2>1, <3>1, PowerSum, Zenon
  <2>. HIDE DEF u, h, c, x
  <2>3. a < u * c
    <3>1. c * q <= c * (u - 1) /\ c * (u - 1) = u * c - c
      BY ONLY <1>1, <2>1, q \in Nat
    <3>2. c * q \in Nat /\ u * c \in Nat
      BY ONLY <1>1, <2>1, q \in Nat
    <3>. QED  BY ONLY <1>1, <1>2, <3>1, <3>2, r \in 0 .. c - 1
  <2>4. a >= h * c
    <3>1. c * q >= c * h /\ c * h = h * c
      BY ONLY <1>1, <2>1, q \in Nat
    <3>2. c * q \in Nat /\ h * c \in Nat
      BY ONLY <1>1, <2>1, q \in Nat
    <3>. QED  BY ONLY <1>1, <1>2, <3>1, <3>2, r \in 0 .. c - 1
  <2>5. p + s \in Nat
    BY <1>0
  <2>6. IsWidth(a, p + s)
    BY <2>2, <2>3, <2>4, <2>5, Zenon DEF IsWidth
  <2>7. q # 0
    BY ONLY <2>1, q \in Nat
  <2>. QED  BY <1>2, <1>5, <2>6, <2>7, Zenon DEF c
<1>. QED  BY <1>4, <1>5, Zenon

\* The width of a number.
WidthOf(a) == CHOOSE p : IsWidth(a, p)

\* Every number of n bits has a width, at most n.
LEMMA WidthIs ==
  \A n \in Nat : \A a \in 0 .. 2^n - 1 :
    a \in Nat /\ WidthOf(a) \in 0 .. n /\ IsWidth(a, WidthOf(a))
<1>. TAKE n \in Nat
<1>. TAKE a \in 0 .. 2^n - 1
<1>1. PICK p \in 0 .. n : IsWidth(a, p)
  BY HasWidth, Zenon
<1>2. IsWidth(a, WidthOf(a))
  BY <1>1, Zenon DEF WidthOf
<1>3. a \in Nat
  BY PowerOfTwo
<1>4. WidthOf(a) = p
  BY <1>1, <1>2, <1>3, OneWidth, Zenon
<1>. QED  BY <1>2, <1>3, <1>4

\* The leading zeros of n bits, and whether there is nothing else.
Zeros(n, a) == <<n - WidthOf(a), a = 0>>

\* What clz makes of what f says of fewer bits.
ClzOf(f, n, a) ==
  IF n = 1 THEN <<1 - a, a = 0>>
  ELSE LET h    == n \div 2
           high == f[h][a \div 2^(n - h)]
           low  == f[n - h][a % 2^(n - h)]
       IN  << IF high[2] THEN h + low[1] ELSE high[1], high[2] /\ low[2] >>

\* It is right when f is.
LEMMA ClzStep ==
  ASSUME NEW f, NEW n \in Nat, n >= 1, NEW a \in 0 .. 2^n - 1,
         \A m \in 1 .. n - 1 : \A b \in 0 .. 2^m - 1 : f[m][b] = Zeros(m, b)
  PROVE  ClzOf(f, n, a) = Zeros(n, a)
<1>1. a \in Nat /\ WidthOf(a) \in 0 .. n /\ IsWidth(a, WidthOf(a))
  BY WidthIs, Zenon
<1>2. CASE n = 1
  <2>1. 2^1 = 2
    <3>1. 2^(0 + 1) = 2 * 2^0
      BY NextPower
    <3>. QED  BY <3>1, PowerOfZero
  <2>2. a \in {0, 1}
    BY <1>2, <2>1
  <2>3. 1 - a = 1 - WidthOf(a)
    <3>1. WidthOf(a) \in {0, 1}
      BY <1>1, <1>2
    <3>2. WidthOf(a) = 0 => a < 2^0
      BY <1>1, Zenon DEF IsWidth
    <3>3. WidthOf(a) = 1 => a >= 2^(1 - 1)
      BY <1>1 DEF IsWidth
    <3>. QED  BY <2>2, <3>1, <3>2, <3>3, PowerOfZero
  <2>. QED  BY <1>2, <2>3, Zenon DEF ClzOf, Zeros
<1>3. CASE n # 1
  <2>. DEFINE h == n \div 2
              l == n - h
              x == a \div 2^l
              y == a % 2^l
  <2>1. h \in 1 .. n - 1 /\ l \in 1 .. n - 1 /\ h \in Nat /\ l \in Nat /\ h + l = n /\ l \in 0 .. n
        /\ n - l = h
    BY <1>3
  <2>. HIDE DEF h, l
  <2>2. x \in 0 .. 2^h - 1 /\ y \in 0 .. 2^l - 1
    <3>. DEFINE p == 2^l
                r == 2^h
    <3>1. p \in Nat \ {0} /\ r \in Nat \ {0} /\ 2^n = p * r
      BY <2>1, PowerSplit, Zenon
    <3>2. a \in Nat /\ a < p * r
      <4>1. p * r \in Nat
        BY <3>1
      <4>. QED  BY <1>1, <3>1, <4>1
    <3>. HIDE DEF p, r
    <3>3. PICK q \in Nat, t \in 0 .. p - 1 : a = p * q + t /\ a \div p = q /\ a % p = t
      BY ONLY <3>1, <3>2, Division, Zenon
    <3>4. q < r
      <4>. SUFFICES ASSUME q >= r  PROVE FALSE
        BY <3>1
      <4>1. p * q >= p * r
        BY ONLY <3>1, q \in Nat, q >= r
      <4>2. p * q \in Nat /\ p * r \in Nat
        BY ONLY <3>1, q \in Nat
      <4>. QED  BY ONLY <3>1, <3>2, <3>3, <4>1, <4>2, t \in 0 .. p - 1
    <3>5. q \in 0 .. r - 1
      BY <3>1, <3>4
    <3>. QED  BY <3>3, <3>5, Zenon DEF p, r
  <2>3. f[h][x] = Zeros(h, x) /\ f[l][y] = Zeros(l, y)
    BY <2>1, <2>2, Zenon
  <2>4. x \in Nat /\ WidthOf(x) \in 0 .. h /\ IsWidth(x, WidthOf(x))
    BY <2>1, <2>2, WidthIs, Zenon
  <2>5. y \in Nat /\ WidthOf(y) \in 0 .. l
    BY <2>1, <2>2, WidthIs, Zenon
  <2>6. /\ WidthOf(x) # 0 => IsWidth(a, WidthOf(x) + l)
        /\ WidthOf(x) = 0 => x = 0 /\ y = a
        /\ x = 0 <=> WidthOf(x) = 0
    <3>. HIDE DEF x, y
    <3>1. IsWidth(a \div 2^l, WidthOf(x))
      BY <2>4 DEF x
    <3>2. /\ WidthOf(x) # 0 => IsWidth(a, WidthOf(x) + l)
          /\ WidthOf(x) = 0 => a \div 2^l = 0 /\ a % 2^l = a
          /\ a \div 2^l = 0 <=> WidthOf(x) = 0
      BY ONLY <1>1, <2>1, <3>1, WidthOfParts, SMT
    <3>. QED  BY <3>2 DEF x, y
  <2>7. ClzOf(f, n, a)
          = << IF x = 0 THEN h + (l - WidthOf(y)) ELSE h - WidthOf(x), x = 0 /\ y = 0 >>
    <3>1. ClzOf(f, n, a) = << IF f[h][x][2] THEN h + f[l][y][1] ELSE f[h][x][1],
                              f[h][x][2] /\ f[l][y][2] >>
      BY <1>3, Zenon DEF ClzOf, h, l
    <3>2. f[h][x] = <<h - WidthOf(x), x = 0>> /\ f[l][y] = <<l - WidthOf(y), y = 0>>
      BY <2>3, Zenon DEF Zeros
    <3>. HIDE DEF x, y
    <3>3. ClzOf(f, n, a) = << IF <<h - WidthOf(x), x = 0>>[2] THEN h + <<l - WidthOf(y), y = 0>>[1]
                              ELSE <<h - WidthOf(x), x = 0>>[1],
                              <<h - WidthOf(x), x = 0>>[2] /\ <<l - WidthOf(y), y = 0>>[2] >>
      BY <3>1, <3>2, Zenon
    <3>. QED  BY <3>3, Zenon
  <2>. HIDE DEF x, y
  <2>8. CASE x = 0
    <3>1. h + (l - WidthOf(y)) = n - WidthOf(a)
      BY <2>1, <2>5, <2>6, <2>8
    <3>. QED  BY <2>6, <2>7, <2>8, <3>1, Zenon DEF Zeros
  <2>9. CASE x # 0
    <3>1. WidthOf(a) = WidthOf(x) + l
      BY <1>1, <2>6, <2>9, OneWidth, Zenon
    <3>2. h - WidthOf(x) = n - WidthOf(a)
      BY <2>1, <2>4, <3>1
    <3>3. a # 0
      <4>. SUFFICES ASSUME a = 0  PROVE FALSE
        OBVIOUS
      <4>1. IsWidth(0, 0)
        BY PowerOfZero DEF IsWidth
      <4>2. WidthOf(a) = 0
        BY <1>1, <4>1, OneWidth, Zenon
      <4>. QED  BY <2>1, <2>4, <3>1, <4>2
    <3>. QED  BY <2>7, <2>9, <3>2, <3>3, Zenon DEF Zeros
  <2>. QED  BY <2>8, <2>9
<1>. QED  BY <1>2, <1>3

\* What clz computes.
LEMMA ClzIs == \A n \in 1 .. W : \A a \in 0 .. 2^n - 1 : Clz[n][a] = Zeros(n, a)
<1>. DEFINE Body(f) == [n \in 1 .. W |-> [a \in 0 .. 2^n - 1 |-> ClzOf(f, n, a)]]
            g == [n \in 1 .. W |-> [a \in 0 .. 2^n - 1 |-> Zeros(n, a)]]
<1>1. W \in Nat
  BY Sizes
<1>2. g = Body(g)
  <2>. SUFFICES ASSUME NEW n \in 1 .. W, NEW a \in 0 .. 2^n - 1
                PROVE  Zeros(n, a) = ClzOf(g, n, a)
    BY Zenon
  <2>1. n \in Nat /\ n >= 1
    BY <1>1
  <2>2. ASSUME NEW m \in 1 .. n - 1, NEW b \in 0 .. 2^m - 1
        PROVE  g[m][b] = Zeros(m, b)
    <3>1. m \in 1 .. W
      BY <1>1
    <3>. QED  BY <3>1, Zenon
  <2>. HIDE DEF g
  <2>. QED  BY <2>1, <2>2, ClzStep, Zenon
<1>3. Clz = CHOOSE f : f = Body(f)
  BY Zenon DEF Clz, ClzOf
<1>4. Clz = Body(Clz)
  <2>. HIDE DEF Body, g
  <2>. QED  BY <1>2, <1>3, Zenon
<1>5. \A n \in 1 .. W : \A a \in 0 .. 2^n - 1 : Clz[n][a] = ClzOf(Clz, n, a)
  <2>. TAKE n \in 1 .. W
  <2>. TAKE a \in 0 .. 2^n - 1
  <2>1. Body(Clz)[n] = [b \in 0 .. 2^n - 1 |-> ClzOf(Clz, n, b)]
    BY Zenon
  <2>2. Body(Clz)[n][a] = ClzOf(Clz, n, a)
    BY <2>1, Zenon
  <2>. HIDE DEF Body
  <2>. QED  BY <1>4, <2>2, Zenon
<1>. HIDE DEF Body, g
<1>. DEFINE S == {n \in Nat : n \in 1 .. W => \A a \in 0 .. 2^n - 1 : Clz[n][a] = Zeros(n, a)}
<1>6. ASSUME NEW n \in Nat, \A m \in 0 .. n - 1 : m \in S  PROVE n \in S
  <2>. SUFFICES ASSUME n \in 1 .. W, NEW a \in 0 .. 2^n - 1  PROVE Clz[n][a] = Zeros(n, a)
    OBVIOUS
  <2>1. ASSUME NEW m \in 1 .. n - 1, NEW b \in 0 .. 2^m - 1  PROVE Clz[m][b] = Zeros(m, b)
    <3>1. m \in 0 .. n - 1 /\ m \in 1 .. W
      BY <1>1
    <3>. QED  BY <1>6, <3>1, Zenon
  <2>2. n >= 1
    OBVIOUS
  <2>3. ClzOf(Clz, n, a) = Zeros(n, a)
    BY <2>1, <2>2, ClzStep, Zenon
  <2>. QED  BY <1>5, <2>3, Zenon
<1>. HIDE DEF S
<1>7. \A n \in Nat : n \in S
  BY <1>6, StrongInduction, Zenon
<1>8. \A n \in 1 .. W : n \in Nat
  BY <1>1
<1>. QED  BY <1>7, <1>8, Zenon DEF S

\* A leading zero is a bit above the width.
LEMMA AboveWidth ==
  \A v \in Word : \A k \in 0 .. W - 1 :
    (\A j \in k .. W - 1 : Digit(v, j) = 0) <=> k >= WidthOf(v)
<1>. TAKE v \in Word
<1>. TAKE k \in 0 .. W - 1
<1>. DEFINE p == WidthOf(v)
<1>1. v \in Nat /\ p \in 0 .. W /\ p \in Nat /\ IsWidth(v, p) /\ W \in Nat
  <2>1. W \in Nat /\ v \in 0 .. 2^W - 1
    BY Sizes DEF Word, M
  <2>2. v \in Nat /\ p \in 0 .. W /\ IsWidth(v, p)
    BY <2>1, WidthIs, Zenon
  <2>. QED  BY <2>1, <2>2
<1>. HIDE DEF p
<1>2. v < 2^p /\ (p # 0 => v >= 2^(p - 1))
  BY <1>1, Zenon DEF IsWidth
<1>3. ASSUME k >= p, NEW j \in k .. W - 1  PROVE Digit(v, j) = 0
  <2>1. j \in Nat /\ j >= p
    BY <1>1, <1>3
  <2>2. v \in 0 .. 2^p - 1
    BY <1>1, <1>2, PowerOfTwo
  <2>. QED  BY <1>1, <2>1, <2>2, NoBitAbove, Zenon
<1>4. ASSUME k < p  PROVE p - 1 \in k .. W - 1 /\ Digit(v, p - 1) # 0
  <2>. DEFINE n == p - 1
              c == 2^n
  <2>1. n \in Nat /\ n + 1 = p /\ n \in k .. W - 1
    BY <1>1, <1>4
  <2>2. c \in Nat \ {0} /\ v >= c
    BY <1>1, <1>2, <1>4, <2>1, PowerOfTwo
  <2>3. v \in 0 .. 2^(n + 1) - 1
    BY <1>1, <1>2, <2>1, PowerOfTwo
  <2>4. v = (v % 2^n) + Digit(v, n) * 2^n /\ v % 2^n \in 0 .. 2^n - 1
    BY <2>1, <2>3, TopBit, Zenon
  <2>5. ASSUME Digit(v, n) = 0  PROVE FALSE
    <3>. DEFINE r == v % 2^n
    <3>1. v = r + 0 * c /\ r \in 0 .. c - 1
      BY <2>4, <2>5
    <3>. HIDE DEF c, r
    <3>. QED  BY <2>2, <3>1
  <2>. QED  BY <2>1, <2>5
<1>. QED  BY <1>1, <1>3, <1>4 DEF p

\* How many leading zeros a word has.
LEMMA LeadingZeros == \A v \in Word : LeadingRun(v, 0) = W - WidthOf(v)
<1>. TAKE v \in Word
<1>1. W \in Nat /\ WidthOf(v) \in 0 .. W
  <2>1. W \in Nat /\ v \in 0 .. 2^W - 1
    BY Sizes DEF Word, M
  <2>. QED  BY <2>1, WidthIs, Zenon
<1>. DEFINE T == {k \in 0 .. W - 1 : \A j \in k .. W - 1 : (v \div 2^j) % 2 = 0}
<1>2. T = {k \in 0 .. W - 1 : \A j \in k .. W - 1 : Digit(v, j) = 0}
  BY Zenon DEF Digit
<1>3. T = {k \in 0 .. W - 1 : k >= WidthOf(v)}
  <2>. HIDE DEF T
  <2>. QED  BY <1>2, AboveWidth
<1>4. T = WidthOf(v) .. W - 1
  <2>. HIDE DEF T
  <2>. QED  BY <1>1, <1>3
<1>5. LeadingRun(v, 0) = Cardinality(T)
  BY Zenon DEF LeadingRun
<1>6. Cardinality(WidthOf(v) .. W - 1) = W - WidthOf(v)
  <2>. DEFINE p == WidthOf(v)
  <2>1. p \in Int /\ W - 1 \in Int
    BY <1>1
  <2>2. Cardinality(p .. W - 1) = IF p > W - 1 THEN 0 ELSE (W - 1) - p + 1
    <3>. HIDE DEF p
    <3>. QED  BY <2>1, FS_Interval, Zenon
  <2>. HIDE DEF p
  <2>3. p \in 0 .. W
    BY <1>1 DEF p
  <2>. QED  BY <1>1, <2>2, <2>3 DEF p
<1>. QED  BY <1>4, <1>5, <1>6, Zenon

\* A word without its bits, and the digits it has instead.
LEMMA Complemented ==
  \A v \in Word : /\ Complement(v) \in Word
                  /\ \A k \in 0 .. W - 1 : Digit(Complement(v), k) = 1 - Digit(v, k)
<1>. TAKE v \in Word
<1>1. Complement(v) \in Word
  BY SizePowers DEF Word, Complement
<1>2. W \in Nat /\ v \in 0 .. 2^W - 1 /\ Complement(v) = 2^W - 1 - v
  BY Sizes DEF Word, M, Complement
<1>. QED  BY <1>1, <1>2, DigitComplement, Zenon

\* A word has as many leading ones as its complement has zeros.
LEMMA LeadingOnes == \A v \in Word : LeadingRun(v, 1) = LeadingRun(Complement(v), 0)
<1>. TAKE v \in Word
<1>. DEFINE w == Complement(v)
<1>1. \A k \in 0 .. W - 1 : Digit(w, k) = 1 - Digit(v, k) /\ Digit(v, k) \in {0, 1}
  BY Complemented, WordDigits, Zenon
<1>. HIDE DEF w
<1>2. \A k \in 0 .. W - 1 : (v \div 2^k) % 2 = 1 <=> (w \div 2^k) % 2 = 0
  <2>1. \A k \in 0 .. W - 1 : Digit(v, k) = 1 <=> Digit(w, k) = 0
    BY <1>1
  <2>. QED  BY <2>1, Zenon DEF Digit
<1>. DEFINE A == {k \in 0 .. W - 1 : \A j \in k .. W - 1 : (v \div 2^j) % 2 = 1}
            B == {k \in 0 .. W - 1 : \A j \in k .. W - 1 : (w \div 2^j) % 2 = 0}
<1>3. \A k \in 0 .. W - 1 : \A j \in k .. W - 1 : j \in 0 .. W - 1
  BY Sizes
<1>4. A = B
  BY <1>2, <1>3, Zenon
<1>. QED  BY <1>4, Zenon DEF LeadingRun, w

\* clz and clo count them.
LEMMA Counted ==
  \A v \in Word : /\ Clz[W][v][1] = LeadingRun(v, 0)
                  /\ Clz[W][Complement(v)][1] = LeadingRun(v, 1)
                  /\ LeadingRun(v, 0) \in Word /\ LeadingRun(v, 1) \in Word
<1>1. ASSUME NEW v \in Word
      PROVE  Clz[W][v][1] = LeadingRun(v, 0) /\ LeadingRun(v, 0) \in Word
  <2>1. W \in 1 .. W /\ W \in Nat /\ v \in 0 .. 2^W - 1
    BY Sizes DEF Word, M
  <2>2. Clz[W][v] = <<W - WidthOf(v), v = 0>>
    BY <2>1, ClzIs, Zenon DEF Zeros
  <2>3. WidthOf(v) \in 0 .. W
    BY <2>1, WidthIs, Zenon
  <2>4. W < M
    <3>1. \A n \in Nat : n < 2^n
      <4>. DEFINE S == {n \in Nat : n < 2^n}
      <4>1. 0 \in S
        BY PowerOfZero
      <4>2. ASSUME NEW n \in Nat, n \in S  PROVE n + 1 \in S
        <5>. DEFINE p == 2^n
                    q == 2^(n + 1)
        <5>1. p \in Nat \ {0} /\ q = 2 * p /\ n < p
          BY <4>2, NextPower, PowerOfTwo
        <5>. HIDE DEF p, q
        <5>2. n + 1 < q
          BY <5>1
        <5>. QED  BY <5>2 DEF q
      <4>. HIDE DEF S
      <4>3. \A n \in Nat : n \in S
        BY <4>1, <4>2, Induction, Zenon
      <4>. QED  BY <4>3, Zenon DEF S
    <3>. QED  BY <2>1, <3>1, Zenon DEF M
  <2>5. W - WidthOf(v) \in Word
    BY <2>1, <2>3, <2>4, SizePowers DEF Word
  <2>6. Clz[W][v][1] = W - WidthOf(v)
    <3>1. <<W - WidthOf(v), v = 0>>[1] = W - WidthOf(v)
      BY Zenon
    <3>. QED  BY <2>2, <3>1, Zenon
  <2>. QED  BY <2>5, <2>6, LeadingZeros, Zenon
<1>. TAKE v \in Word
<1>2. Complement(v) \in Word
  BY Complemented, Zenon
<1>. QED  BY <1>1, <1>2, LeadingOnes, Zenon

\* An integer that is cut is a word.
LEMMA TruncIsWord == \A v \in Int : Trunc(v) \in Word
<1>. TAKE v \in Int
<1>. DEFINE m == M
<1>1. m \in Nat \ {0}
  BY SizePowers
<1>2. v % m \in 0 .. m - 1
  <2>. HIDE DEF m
  <2>1. PICK q \in Int, r \in 0 .. m - 1 : v = m * q + r /\ v \div m = q /\ v % m = r
    BY ONLY <1>1, v \in Int, IntDivision, Zenon
  <2>. QED  BY <2>1
<1>. QED  BY <1>2 DEF Trunc, Word

\* Words that are not cut.
LEMMA TruncOfWord == \A v \in Word : Trunc(v) = v
<1>. TAKE v \in Word
<1>. DEFINE m == M
<1>1. m \in Nat \ {0} /\ v \in 0 .. m - 1 /\ v \in Nat
  BY SizePowers DEF Word
<1>. HIDE DEF m
<1>2. v = m * 0 + v /\ 0 \in Int
  BY <1>1
<1>3. v % m = v
  BY ONLY <1>1, <1>2, Quotient
<1>. QED  BY <1>3 DEF Trunc, m

\* The bits that the bytes from byte lo on have, n of them.
LEMMA BytesAre ==
  \A i \in 0 .. 3 : \A n \in 1 .. 4 - i : \A k \in 0 .. W - 1 :
    k \in UNION {b * ByteBits .. (b + 1) * ByteBits - 1 : b \in i .. i + n - 1}
      <=> ByteBits * i <= k /\ k < ByteBits * i + ByteBits * n
<1>. TAKE i \in 0 .. 3
<1>. TAKE n \in 1 .. 4 - i
<1>. TAKE k \in 0 .. W - 1
<1>. DEFINE B == ByteBits
<1>1. B \in Nat /\ B >= 3 /\ W = 4 * B /\ i \in Int /\ n \in Int /\ k \in Int
  BY Sizes
<1>2. PICK b \in 0 .. 3 : k \in b * B .. (b + 1) * B - 1
  <2>1. CASE k < B
    <3>1. k \in 0 * B .. (0 + 1) * B - 1 /\ 0 \in 0 .. 3
      BY <1>1, <2>1
    <3>. QED  BY <3>1, Zenon
  <2>2. CASE k >= B /\ k < 2 * B
    <3>1. k \in 1 * B .. (1 + 1) * B - 1 /\ 1 \in 0 .. 3
      BY <1>1, <2>2
    <3>. QED  BY <3>1, Zenon
  <2>3. CASE k >= 2 * B /\ k < 3 * B
    <3>1. k \in 2 * B .. (2 + 1) * B - 1 /\ 2 \in 0 .. 3
      BY <1>1, <2>3
    <3>. QED  BY <3>1, Zenon
  <2>4. CASE k >= 3 * B
    <3>1. k \in 3 * B .. (3 + 1) * B - 1 /\ 3 \in 0 .. 3
      BY <1>1, <2>4
    <3>. QED  BY <3>1, Zenon
  <2>. QED  BY <1>1, <2>1, <2>2, <2>3, <2>4
<1>3. ASSUME NEW c \in 0 .. 3, k \in c * B .. (c + 1) * B - 1  PROVE c = b
  <2>. HIDE DEF B
  <2>1. b \in {0, 1, 2, 3} /\ c \in {0, 1, 2, 3}
    OBVIOUS
  <2>. QED  BY ONLY <1>1, <1>2, <1>3, <2>1
<1>4. ASSUME NEW c \in 0 .. 4  PROVE B * c \in Nat /\ B * c = c * B
  BY <1>1
<1>5. b \in i .. i + n - 1 <=> B * i <= k /\ k < B * i + B * n
  <2>. HIDE DEF B
  <2>1. b \in {0, 1, 2, 3} /\ i \in {0, 1, 2, 3} /\ n \in {1, 2, 3, 4}
    OBVIOUS
  <2>2. (b \in i .. i + n - 1) <=> (i <= b /\ b < i + n)
    BY <2>1
  <2>3. CASE b = 0
    BY ONLY <1>1, <1>2, <2>1, <2>2, <2>3
  <2>4. CASE b = 1
    BY ONLY <1>1, <1>2, <2>1, <2>2, <2>4
  <2>5. CASE b = 2
    BY ONLY <1>1, <1>2, <2>1, <2>2, <2>5
  <2>6. CASE b = 3
    BY ONLY <1>1, <1>2, <2>1, <2>2, <2>6
  <2>. QED  BY <2>1, <2>3, <2>4, <2>5, <2>6
<1>6. k \in UNION {c * B .. (c + 1) * B - 1 : c \in i .. i + n - 1} <=> b \in i .. i + n - 1
  <2>1. \A c \in i .. i + n - 1 : c \in 0 .. 3
    BY <1>1
  <2>. HIDE DEF B
  <2>. QED  BY <1>2, <1>3, <2>1, Zenon
<1>. QED  BY <1>5, <1>6, Zenon DEF B

\* n bytes are merged into a word, from byte i on: in new they are where those of v
\* belong.
Merges(old, new, i, n, v) ==
  /\ old \in Word /\ new \in Word /\ i \in 0 .. 3 /\ n \in 1 .. 4 - i /\ v \in Nat
  /\ \A t \in 0 .. ByteBits * n - 1 : Digit(new, ByteBits * i + t) = Digit(v, t)

Merged(old, i, n, v) == Replaced(old, ByteBits * i, ByteBits * n, v % 2^(ByteBits * n))

\* The merge of the words by the mask is that of their bytes.
LEMMA MergeIs ==
  \A old, new, i, n, v : Merges(old, new, i, n, v) =>
    Merged(old, i, n, v) \in Word /\ Merge(old, new, i .. i + n - 1) = Merged(old, i, n, v)
<1>. TAKE old, new, i, n, v
<1>. HAVE Merges(old, new, i, n, v)
<1>0. /\ old \in Word /\ new \in Word /\ i \in 0 .. 3 /\ n \in 1 .. 4 - i /\ v \in Nat
      /\ \A t \in 0 .. ByteBits * n - 1 : Digit(new, ByteBits * i + t) = Digit(v, t)
  BY Zenon DEF Merges
<1>. USE <1>0
<1>. DEFINE F   == UNION {b * ByteBits .. (b + 1) * ByteBits - 1 : b \in i .. i + n - 1}
            lo  == ByteBits * i
            len == ByteBits * n
            y   == v % 2^len
<1>1. lo \in Nat /\ len \in Nat /\ lo + len <= W
  <2>1. i \in {0, 1, 2, 3} /\ n \in {1, 2, 3, 4} /\ i + n <= 4
    OBVIOUS
  <2>. QED  BY ONLY Sizes, <2>1
<1>2. \A k \in 0 .. W - 1 : k \in F <=> lo <= k /\ k < lo + len
  BY BytesAre, Zenon
<1>. HIDE DEF F, lo, len
<1>3. y \in 0 .. 2^len - 1 /\ \A t \in 0 .. len - 1 : Digit(y, t) = Digit(v, t)
  BY <1>1, LowPart, Zenon
<1>4. \A t \in 0 .. len - 1 : Digit(new, lo + t) = Digit(y, t)
  BY <1>3, Zenon DEF lo, len
<1>. HIDE DEF y
<1>5. TakesField(old, new, F, lo, len, y)
  BY <1>1, <1>2, <1>3, <1>4, Zenon DEF TakesField
<1>6. /\ Replaced(old, lo, len, y) \in Word
      /\ FromBits((Bits(old) \ F) \cup (Bits(new) \cap F)) = Replaced(old, lo, len, y)
  BY ONLY <1>5, FieldTaken, SMT
<1>. QED  BY <1>6, Zenon DEF F, lo, len, y, Merge, Merged

\* What a store makes of the word old that it stores v into, at byte idx.
Stored(mode, old, v, idx) == Merge(old, StoreData(mode, v, idx), ByteMask(mode, idx))

\* A word that is shifted to byte i has the bytes of v from there on.
LEMMA ShiftedBytes ==
  \A old, v \in Word : \A i \in 0 .. 3 : \A n \in 1 .. 4 - i :
    Merges(old, Trunc(v * 2^(ByteBits * i)), i, n, v)
<1>. TAKE old, v \in Word
<1>. TAKE i \in 0 .. 3
<1>. TAKE n \in 1 .. 4 - i
<1>. DEFINE s == ByteBits * i
            new == Trunc(v * 2^s)
<1>1. s \in Nat /\ v \in Nat /\ s + ByteBits * n <= W /\ ByteBits * n \in Nat /\ W \in Nat
  <2>1. i \in {0, 1, 2, 3} /\ n \in {1, 2, 3, 4} /\ i + n <= 4
    OBVIOUS
  <2>2. s \in Nat /\ s + ByteBits * n <= W /\ ByteBits * n \in Nat /\ W \in Nat
    BY ONLY Sizes, <2>1
  <2>. QED  BY <2>2, WordDigits
<1>. HIDE DEF s
<1>2. new \in Word
  <2>. DEFINE p == 2^s
  <2>1. p \in Nat
    BY <1>1, PowerOfTwo
  <2>. HIDE DEF p
  <2>2. v * p \in Int
    BY <1>1, <2>1
  <2>. QED  BY <2>2, TruncIsWord, Zenon DEF p
<1>3. ASSUME NEW t \in 0 .. ByteBits * n - 1  PROVE Digit(new, s + t) = Digit(v, t)
  <2>1. t \in Nat /\ s + t < W
    BY <1>1
  <2>. QED  BY <1>1, <2>1, ShiftedWord, Zenon
<1>. QED  BY <1>1, <1>2, <1>3, Zenon DEF Merges, s

\* sb.
LEMMA StoredByte ==
  \A old, v \in Word : \A idx \in 0 .. 3 :
    Merged(old, idx, 1, v) \in Word /\ Stored("BYTE", old, v, idx) = Merged(old, idx, 1, v)
<1>. TAKE old, v \in Word
<1>. TAKE idx \in 0 .. 3
<1>1. 1 \in 1 .. 4 - idx /\ {idx} = idx .. idx + 1 - 1
  OBVIOUS
<1>2. Merges(old, Trunc(v * 2^(ByteBits * idx)), idx, 1, v)
  BY <1>1, ShiftedBytes, Zenon
<1>3. /\ Merged(old, idx, 1, v) \in Word
      /\ Merge(old, Trunc(v * 2^(ByteBits * idx)), idx .. idx + 1 - 1) = Merged(old, idx, 1, v)
  <2>. DEFINE n == 1
  <2>1. Merges(old, Trunc(v * 2^(ByteBits * idx)), idx, n, v)
    BY <1>2
  <2>. HIDE DEF n
  <2>2. /\ Merged(old, idx, n, v) \in Word
        /\ Merge(old, Trunc(v * 2^(ByteBits * idx)), idx .. idx + n - 1) = Merged(old, idx, n, v)
    BY ONLY <2>1, MergeIs, SMT
  <2>. QED  BY <2>2, Zenon DEF n
<1>4. StoreData("BYTE", v, idx) = Trunc(v * 2^(ByteBits * idx)) /\ ByteMask("BYTE", idx) = {idx}
  BY DEF StoreData, ByteMask
<1>. QED  BY <1>1, <1>3, <1>4, Zenon DEF Stored

\* sh.
LEMMA StoredHalf ==
  \A old, v \in Word : \A idx \in {0, 2} :
    Merged(old, idx, 2, v) \in Word /\ Stored("HALF", old, v, idx) = Merged(old, idx, 2, v)
<1>. TAKE old, v \in Word
<1>. TAKE idx \in {0, 2}
<1>1. /\ 2 \in 1 .. 4 - idx /\ idx \in 0 .. 3
      /\ {2 * (idx \div 2), 2 * (idx \div 2) + 1} = idx .. idx + 2 - 1
      /\ H * (idx \div 2) = ByteBits * idx
  BY Sizes
<1>2. Merges(old, Trunc(v * 2^(ByteBits * idx)), idx, 2, v)
  BY <1>1, ShiftedBytes, Zenon
<1>3. /\ Merged(old, idx, 2, v) \in Word
      /\ Merge(old, Trunc(v * 2^(ByteBits * idx)), idx .. idx + 2 - 1) = Merged(old, idx, 2, v)
  BY ONLY <1>2, MergeIs, SMT
<1>4. /\ StoreData("HALF", v, idx) = Trunc(v * 2^(H * (idx \div 2)))
      /\ ByteMask("HALF", idx) = {2 * (idx \div 2), 2 * (idx \div 2) + 1}
  BY DEF StoreData, ByteMask
<1>. QED  BY <1>1, <1>3, <1>4, Zenon DEF Stored

\* sw.
LEMMA StoredWord ==
  \A old, v \in Word :
    /\ Merged(old, 0, 4, v) = v /\ Stored("WORD", old, v, 0) = Merged(old, 0, 4, v)
<1>. TAKE old, v \in Word
<1>1. /\ ByteBits * 0 = 0 /\ ByteBits * 4 = W /\ W \in Nat /\ BPW - 1 = 0 + 4 - 1
      /\ 0 \in 0 .. 3 /\ 4 \in 1 .. 4 - 0
  BY Sizes
<1>2. Merges(old, v, 0, 4, v)
  <2>1. v \in Nat
    BY WordDigits
  <2>2. \A t \in 0 .. W - 1 : 0 + t = t
    BY <1>1
  <2>. QED  BY <1>1, <2>1, <2>2, Zenon DEF Merges
<1>3. Merge(old, v, 0 .. 0 + 4 - 1) = Merged(old, 0, 4, v)
  BY ONLY <1>2, MergeIs, Zenon
<1>4. StoreData("WORD", v, 0) = v /\ ByteMask("WORD", 0) = 0 .. BPW - 1
  BY DEF StoreData, ByteMask
<1>5. Merged(old, 0, 4, v) = v
  <2>1. Merged(old, 0, 4, v) = Replaced(old, 0, W, v % 2^W)
    BY <1>1, Zenon DEF Merged
  <2>2. v % 2^W = v /\ old % 2^W = old
    BY TruncOfWord, Zenon DEF Trunc, M
  <2>3. old \div 2^0 = old
    BY <1>1, SumOfDigits, Zenon DEF Word, M
  <2>4. Replaced(old, 0, W, v % 2^W) = old + (v - old) * 1
    BY <2>2, <2>3, PowerOfZero, Zenon DEF Replaced
  <2>5. old \in Nat /\ v \in Nat
    BY WordDigits
  <2>6. old + (v - old) * 1 = v
    BY ONLY <2>5
  <2>. QED  BY <2>1, <2>4, <2>6, Zenon
<1>. QED  BY <1>1, <1>3, <1>4, <1>5, Zenon DEF Stored

\* swr.
LEMMA StoredRight ==
  \A old, v \in Word : \A idx \in 0 .. 3 :
    /\ Merged(old, idx, 4 - idx, v) \in Word
    /\ Stored("SWR", old, v, idx) = Merged(old, idx, 4 - idx, v)
<1>. TAKE old, v \in Word
<1>. TAKE idx \in 0 .. 3
<1>. DEFINE n == 4 - idx
<1>1. n \in 1 .. 4 - idx /\ idx .. BPW - 1 = idx .. idx + n - 1
  BY Sizes
<1>. HIDE DEF n
<1>2. Merges(old, Trunc(v * 2^(ByteBits * idx)), idx, n, v)
  BY <1>1, ShiftedBytes, Zenon
<1>3. /\ Merged(old, idx, n, v) \in Word
      /\ Merge(old, Trunc(v * 2^(ByteBits * idx)), idx .. idx + n - 1) = Merged(old, idx, n, v)
  BY ONLY <1>2, MergeIs, SMT
<1>4. StoreData("SWR", v, idx) = Trunc(v * 2^(ByteBits * idx))
      /\ ByteMask("SWR", idx) = idx .. BPW - 1
  BY DEF StoreData, ByteMask
<1>. QED  BY <1>1, <1>3, <1>4, Zenon DEF Stored, n

\* swl.
LEMMA StoredLeft ==
  \A old, v \in Word : \A idx \in 0 .. 3 :
    LET part == v \div 2^(ByteBits * (3 - idx))
    IN  /\ Merged(old, 0, idx + 1, part) \in Word
        /\ Stored("SWL", old, v, idx) = Merged(old, 0, idx + 1, part)
<1>. TAKE old, v \in Word
<1>. TAKE idx \in 0 .. 3
<1>. DEFINE s == ByteBits * (3 - idx)
            part == v \div 2^s
            n == idx + 1
<1>1. /\ n \in 1 .. 4 - 0 /\ 0 .. idx = 0 .. 0 + n - 1 /\ 0 \in 0 .. 3 /\ BPW - 1 - idx = 3 - idx
      /\ ByteBits * 0 = 0 /\ s \in Nat /\ ByteBits * n \in Nat
  <2>1. idx \in {0, 1, 2, 3} /\ BPW = 4
    BY Sizes
  <2>. QED  BY <2>1, Sizes
<1>. HIDE DEF n, s
<1>2. Merges(old, part, 0, n, part)
  <2>1. part \in Word /\ part \in Nat
    BY <1>1, PartIsWord, WordDigits, Zenon
  <2>2. \A t \in 0 .. ByteBits * n - 1 : ByteBits * 0 + t = t
    BY <1>1
  <2>. QED  BY <1>1, <2>1, <2>2, Zenon DEF Merges
<1>. HIDE DEF part
<1>3. /\ Merged(old, 0, n, part) \in Word
      /\ Merge(old, part, 0 .. 0 + n - 1) = Merged(old, 0, n, part)
  BY ONLY <1>2, MergeIs, SMT
<1>4. StoreData("SWL", v, idx) = part /\ ByteMask("SWL", idx) = 0 .. idx
  <2>1. StoreData("SWL", v, idx) = v \div 2^(ByteBits * (BPW - 1 - idx))
    BY DEF StoreData
  <2>2. ByteMask("SWL", idx) = 0 .. idx
    BY DEF ByteMask
  <2>. QED  BY <1>1, <2>1, <2>2, Zenon DEF part, s
<1>. QED  BY <1>1, <1>3, <1>4, Zenon DEF Stored, part, s, n

\* The simulator puts bytes into the word.
LEMMA PutBytesIs ==
  ASSUME NEW mem, NEW a, NEW v, NEW n
  PROVE  PutBytes(mem, a, v, n)
           = [mem EXCEPT ![a \div BPW] = Merged(mem[a \div BPW], a % BPW, n, v)]
BY Zenon DEF PutBytes, Merged, Replaced, ByteShift

\* The low bits of an integer as a signed number.
LEMMA SignNType == \A v \in Int : \A l \in Nat : SignN(v, l) \in Int
<1>. TAKE v \in Int
<1>. TAKE l \in Nat
<1>. DEFINE p == 2^l
<1>1. p \in Nat \ {0}
  BY PowerOfTwo
<1>2. v % p \in Int
  <2>. HIDE DEF p
  <2>1. PICK q \in Int, r \in 0 .. p - 1 : v = p * q + r /\ v \div p = q /\ v % p = r
    BY ONLY <1>1, v \in Int, IntDivision, Zenon
  <2>. QED  BY <2>1
<1>3. SignN(v, l) = (IF v % p >= 2^(l - 1) THEN (v % p) - p ELSE v % p)
  BY Zenon DEF SignN
<1>. HIDE DEF p
<1>. QED  BY <1>1, <1>2, <1>3

\* The n bytes of a word from byte idx on.
BytesOf(word, idx, n) == (word \div 2^(ByteBits * idx)) % 2^(ByteBits * n)

\* It is a word.
LEMMA BytesAreWord ==
  \A word \in Word : \A idx, n \in Nat :
    BytesOf(word, idx, n) \in Word /\ BytesOf(word, idx, n) \in Int
<1>. TAKE word \in Word
<1>. TAKE idx, n \in Nat
<1>1. ByteBits * idx \in Nat /\ ByteBits * n \in Nat
  BY Sizes
<1>2. word \div 2^(ByteBits * idx) \in Word
  BY <1>1, PartIsWord, Zenon
<1>3. BytesOf(word, idx, n) \in Word
  BY <1>1, <1>2, PartIsWord, Zenon DEF BytesOf
<1>4. BytesOf(word, idx, n) \in Nat
  BY <1>3, WordDigits, Zenon
<1>. QED  BY <1>3, <1>4

\* lb and lbu.
LEMMA LoadedByte ==
  \A old, word \in Word : \A idx \in 0 .. 3 :
    /\ Load("BYTE", old, word, idx) = Trunc(SignN(BytesOf(word, idx, 1), ByteBits))
    /\ Load("UNSIGN_BYTE", old, word, idx) = BytesOf(word, idx, 1)
    /\ Trunc(SignN(BytesOf(word, idx, 1), ByteBits)) \in Word /\ BytesOf(word, idx, 1) \in Word
<1>. TAKE old, word \in Word
<1>. TAKE idx \in 0 .. 3
<1>1. ByteBits * 1 = ByteBits /\ ByteBits \in Nat
  BY Sizes
<1>2. Load("BYTE", old, word, idx)
        = Trunc(SignN((word \div 2^(ByteBits * idx)) % 2^ByteBits, ByteBits))
  BY DEF Load
<1>3. Load("UNSIGN_BYTE", old, word, idx) = (word \div 2^(ByteBits * idx)) % 2^ByteBits
  BY DEF Load
<1>4. BytesOf(word, idx, 1) = (word \div 2^(ByteBits * idx)) % 2^ByteBits
  BY <1>1, Zenon DEF BytesOf
<1>5. idx \in Nat /\ 1 \in Nat
  OBVIOUS
<1>6. BytesOf(word, idx, 1) \in Word /\ BytesOf(word, idx, 1) \in Int
  BY <1>5, BytesAreWord, Zenon
<1>7. SignN(BytesOf(word, idx, 1), ByteBits) \in Int
  BY <1>1, <1>6, SignNType, Zenon
<1>. QED  BY <1>2, <1>3, <1>4, <1>6, <1>7, TruncIsWord, Zenon

\* lh and lhu.
LEMMA LoadedHalf ==
  \A old, word \in Word : \A idx \in {0, 2} :
    /\ Load("HALF", old, word, idx) = Trunc(SignN(BytesOf(word, idx, 2), H))
    /\ Load("UNSIGN_HALF", old, word, idx) = BytesOf(word, idx, 2)
    /\ Trunc(SignN(BytesOf(word, idx, 2), H)) \in Word /\ BytesOf(word, idx, 2) \in Word
<1>. TAKE old, word \in Word
<1>. TAKE idx \in {0, 2}
<1>1. ByteBits * 2 = H /\ H \in Nat /\ H * (idx \div 2) = ByteBits * idx /\ idx % 2 # 1
  BY Sizes
<1>. DEFINE half == (word \div 2^(H * (idx \div 2))) % 2^H
<1>2. Load("HALF", old, word, idx) = (IF idx % 2 = 1 THEN X ELSE Trunc(SignN(half, H)))
  BY Zenon DEF Load
<1>3. Load("UNSIGN_HALF", old, word, idx) = (IF idx % 2 = 1 THEN X ELSE half)
  BY Zenon DEF Load
<1>4. BytesOf(word, idx, 2) = half
  BY <1>1, Zenon DEF BytesOf
<1>5. idx \in Nat /\ 2 \in Nat
  OBVIOUS
<1>6. BytesOf(word, idx, 2) \in Word /\ BytesOf(word, idx, 2) \in Int
  BY <1>5, BytesAreWord, Zenon
<1>7. SignN(BytesOf(word, idx, 2), H) \in Int
  BY <1>1, <1>6, SignNType, Zenon
<1>. HIDE DEF half
<1>. QED  BY <1>1, <1>2, <1>3, <1>4, <1>6, <1>7, TruncIsWord, Zenon

\* lw.
LEMMA LoadedWord ==
  \A old, word \in Word :
    Load("WORD", old, word, 0) = BytesOf(word, 0, BPW) /\ BytesOf(word, 0, BPW) \in Word
<1>. TAKE old, word \in Word
<1>1. ByteBits * 0 = 0 /\ ByteBits * BPW = W /\ W \in Nat
  BY Sizes
<1>2. Load("WORD", old, word, 0) = word
  BY DEF Load
<1>3. word \div 2^0 = word
  BY <1>1, SumOfDigits, Zenon DEF Word, M
<1>4. word % 2^W = word
  BY TruncOfWord, Zenon DEF Trunc, M
<1>5. BytesOf(word, 0, BPW) = word
  BY <1>1, <1>3, <1>4, Zenon DEF BytesOf
<1>. QED  BY <1>2, <1>5, Zenon

\* lwl.
LEMMA LoadedLeft ==
  \A old, word \in Word : \A idx \in 0 .. 3 :
    LET n == idx + 1
        v == BytesOf(word, 0, n) * 2^(ByteBits * (BPW - n)) + (old % 2^(ByteBits * (BPW - n)))
    IN  Load("LWL", old, word, idx) = v /\ v \in Word
<1>. TAKE old, word \in Word
<1>. TAKE idx \in 0 .. 3
<1>. DEFINE n == idx + 1
            left == ByteBits * (BPW - n)
            low  == ByteBits * n
            l == 2^left
            f == 2^low
<1>1. left \in Nat /\ low \in 0 .. W /\ low \in Nat /\ W - low = left /\ ByteBits * 0 = 0
      /\ n \in Nat
      /\ ByteBits * (BPW - 1 - idx) = left /\ left \in 0 .. W /\ W - left = low /\ W \in Nat
  <2>1. idx \in {0, 1, 2, 3}
    OBVIOUS
  <2>. QED  BY ONLY Sizes, <2>1
<1>. HIDE DEF left, low
<1>2. l \in Nat \ {0} /\ f \in Nat \ {0} /\ M = f * l
  BY <1>1, Parts, Zenon
<1>3. word \in Nat /\ word \div 2^0 = word
  BY <1>1, SumOfDigits, WordDigits, Zenon DEF Word, M
<1>4. Trunc(word * l) = (word % f) * l
  BY <1>2, <1>3, ModOfMultiple, Zenon DEF Trunc
<1>5. BytesOf(word, 0, n) = word % f
  BY <1>1, <1>3, Zenon DEF BytesOf, low
<1>6. Load("LWL", old, word, idx) = (old % 2^(ByteBits * (BPW - 1 - idx)))
        + Trunc(word * 2^(ByteBits * (BPW - 1 - idx)))
  BY DEF Load
<1>7. word % f \in 0 .. f - 1 /\ old % l \in 0 .. l - 1
  BY <1>1, Parts, Zenon
<1>8. (old % l) + (word % f) * l \in Word
  <2>1. word % 2^low \in 0 .. 2^(W - left) - 1 /\ old % 2^left \in 0 .. 2^left - 1
    BY <1>1, <1>7, Zenon
  <2>. QED  BY ONLY <1>1, <2>1, JoinedWord, Zenon
<1>9. (old % l) + (word % f) * l = (word % f) * l + (old % l)
  <2>. HIDE DEF l, f
  <2>1. word % f \in Nat /\ old % l \in Nat
    BY <1>2, <1>7
  <2>2. (word % f) * l \in Nat
    BY <1>2, <2>1
  <2>. QED  BY <2>1, <2>2
<1>. QED  BY <1>1, <1>4, <1>5, <1>6, <1>8, <1>9, Zenon DEF left

\* lwr.
LEMMA LoadedRight ==
  \A old, word \in Word : \A idx \in 0 .. 3 :
    LET n == BPW - idx
        v == old - (old % 2^(ByteBits * n)) + BytesOf(word, idx, n)
    IN  Load("LWR", old, word, idx) = v /\ v \in Word
<1>. TAKE old, word \in Word
<1>. TAKE idx \in 0 .. 3
<1>. DEFINE n == BPW - idx
            kept == ByteBits * n
            low  == ByteBits * idx
            k == 2^kept
            x == word \div 2^low
<1>1. kept \in 0 .. W /\ kept \in Nat /\ W - low = kept /\ low \in 0 .. W /\ W - kept = low
      /\ W - ByteBits * idx = kept
  <2>1. idx \in {0, 1, 2, 3}
    OBVIOUS
  <2>. QED  BY ONLY Sizes, <2>1
<1>. HIDE DEF kept, low
<1>2. k \in Nat \ {0} /\ old = (old \div k) * k + (old % k) /\ old % k \in 0 .. k - 1
  BY <1>1, Parts, Zenon
<1>3. x \in 0 .. k - 1
  <2>1. x \in 0 .. 2^(W - low) - 1
    BY <1>1, Parts, Zenon
  <2>. QED  BY <1>1, <2>1, Zenon
<1>. HIDE DEF x
<1>4. x % k = x
  <2>. HIDE DEF k
  <2>1. x \in Nat /\ x = k * 0 + x /\ 0 \in Int
    BY <1>2, <1>3
  <2>. QED  BY ONLY <1>2, <1>3, <2>1, Quotient
<1>5. BytesOf(word, idx, n) = x
  BY <1>4, Zenon DEF BytesOf, x, kept, low
<1>6. Load("LWR", old, word, idx) = ((old \div k) * k) + x
  <2>1. Load("LWR", old, word, idx)
          = ((old \div 2^(W - ByteBits * idx)) * 2^(W - ByteBits * idx))
            + (word \div 2^(ByteBits * idx))
    BY DEF Load
  <2>. QED  BY <1>1, <2>1, Zenon DEF x, low
<1>7. old \div k \in 0 .. 2^low - 1 /\ old \div k \in Nat
  <2>1. old \div k \in 0 .. 2^(W - kept) - 1
    BY <1>1, Parts, Zenon
  <2>2. old \div k \in Word
    BY <1>1, PartIsWord, Zenon
  <2>. QED  BY <1>1, <2>1, <2>2, WordDigits, Zenon
<1>8. x + (old \div k) * k \in Word
  <2>1. x \in 0 .. 2^kept - 1 /\ old \div k \in 0 .. 2^(W - kept) - 1
    BY <1>1, <1>3, <1>7, Zenon
  <2>. QED  BY ONLY <1>1, <2>1, JoinedWord, Zenon
<1>9. ((old \div k) * k) + x = x + (old \div k) * k /\ ((old \div k) * k) + x = old - (old % k) + x
  <2>. DEFINE q == old \div k
              r == old % k
  <2>1. q \in Nat /\ r \in Int /\ x \in Nat /\ old = q * k + r
    BY <1>2, <1>3, <1>7
  <2>2. q * k \in Nat
    BY <1>2, <2>1
  <2>. HIDE DEF q, r, k
  <2>3. (q * k) + x = x + q * k /\ (q * k) + x = old - r + x
    BY ONLY <2>1, <2>2
  <2>. QED  BY <2>3 DEF q, r
<1>. QED  BY <1>5, <1>6, <1>8, <1>9, Zenon DEF kept

----------------------------------------------------------------------------
\* Signed numbers.

Half == 2^(W - 1)

\* It is half the number of words.
LEMMA Halves == Half \in Nat \ {0} /\ M = 2 * Half /\ M \in Nat \ {0}
BY SizePowers, Zenon DEF Half

\* An integer that is a little too small or too large for a word.
LEMMA TruncNear ==
  \A v \in Int : -M <= v /\ v < 2 * M =>
    Trunc(v) = IF v < 0 THEN v + M ELSE IF v < M THEN v ELSE v - M
<1>. TAKE v \in Int
<1>. HAVE -M <= v /\ v < 2 * M
<1>1. M \in Nat \ {0}
  BY Halves, Zenon
<1>2. CASE v < 0
  <2>1. v = M * (-1) + (v + M) /\ v + M \in 0 .. M - 1 /\ -1 \in Int
    BY <1>1, <1>2
  <2>2. v % M = v + M
    BY ONLY <1>1, <2>1, v \in Int, IntQuotient
  <2>. QED  BY <1>2, <2>2 DEF Trunc
<1>3. CASE ~(v < 0) /\ v < M
  <2>1. v = M * 0 + v /\ v \in 0 .. M - 1 /\ 0 \in Int
    BY <1>1, <1>3
  <2>2. v % M = v
    BY ONLY <1>1, <2>1, v \in Int, IntQuotient
  <2>. QED  BY <1>3, <2>2 DEF Trunc
<1>4. CASE ~(v < 0) /\ ~(v < M)
  <2>1. v = M * 1 + (v - M) /\ v - M \in 0 .. M - 1 /\ 1 \in Int
    BY <1>1, <1>4
  <2>2. v % M = v - M
    BY ONLY <1>1, <2>1, v \in Int, IntQuotient
  <2>. QED  BY <1>4, <2>2 DEF Trunc
<1>. QED  BY <1>2, <1>3, <1>4

\* The signed number that a word stands for.
LEMMA SignedIs ==
  \A v \in Word : Signed(v) = (IF v >= Half THEN v - M ELSE v) /\ Signed(v) \in Int
<1>. TAKE v \in Word
<1>1. v % 2^W = v
  BY TruncOfWord, Zenon DEF Trunc, M
<1>2. Signed(v) = IF v >= 2^(W - 1) THEN v - 2^W ELSE v
  BY <1>1, Zenon DEF Signed, SignN
<1>3. Signed(v) = IF v >= Half THEN v - M ELSE v
  BY <1>2, Zenon DEF Half, M
<1>. QED  BY <1>3, Halves DEF Word

\* The range of a signed number of l bits.
LEMMA SignNRange ==
  \A v \in Int : \A l \in Nat \ {0} : SignN(v, l) \in -(2^(l - 1)) .. 2^(l - 1) - 1
<1>. TAKE v \in Int
<1>. TAKE l \in Nat \ {0}
<1>. DEFINE p == 2^l
            h == 2^(l - 1)
            u == v % p
<1>1. l - 1 \in Nat /\ (l - 1) + 1 = l
  OBVIOUS
<1>2. h \in Nat \ {0} /\ p \in Nat \ {0} /\ p = 2 * h
  BY <1>1, PowerOfTwo, NextPower, Zenon
<1>3. SignN(v, l) = IF u >= h THEN u - p ELSE u
  BY Zenon DEF SignN
<1>4. u \in 0 .. p - 1
  <2>. HIDE DEF p
  <2>1. PICK q \in Int, r \in 0 .. p - 1 : v = p * q + r /\ v \div p = q /\ v % p = r
    BY ONLY <1>2, v \in Int, IntDivision, Zenon
  <2>. QED  BY <2>1
<1>. HIDE DEF p, h, u
<1>5. SignN(v, l) \in -h .. h - 1
  BY <1>2, <1>3, <1>4
<1>. QED  BY <1>5, Zenon DEF h

\* A signed number that fits a word is what the word stands for.
LEMMA SignedOfTrunc ==
  \A s \in -Half .. Half - 1 : Trunc(s) \in Word /\ Signed(Trunc(s)) = s
<1>. TAKE s \in -Half .. Half - 1
<1>1. s \in Int /\ -M <= s /\ s < 2 * M
  BY Halves
<1>2. Trunc(s) = IF s < 0 THEN s + M ELSE IF s < M THEN s ELSE s - M
  BY <1>1, TruncNear, Zenon
<1>3. Trunc(s) \in Word
  BY <1>1, TruncIsWord, Zenon
<1>4. Signed(Trunc(s)) = IF Trunc(s) >= Half THEN Trunc(s) - M ELSE Trunc(s)
  BY <1>3, SignedIs, Zenon
<1>. QED  BY <1>2, <1>3, <1>4, Halves

\* The immediate of an instruction, with its sign.
LEMMA SignedImmed ==
  \A imm \in Immed :
    /\ SignN(imm, H) \in Int /\ SignN(imm, H) \in -Half .. Half - 1
    /\ Trunc(SignN(imm, H)) \in Word /\ Signed(Trunc(SignN(imm, H))) = SignN(imm, H)
<1>. TAKE imm \in Immed
<1>1. H \in Nat \ {0} /\ W - 1 \in Nat /\ H - 1 \in 0 .. W - 1
  BY Sizes
<1>2. imm \in Int
  BY SizePowers DEF Immed
<1>3. SignN(imm, H) \in -(2^(H - 1)) .. 2^(H - 1) - 1
  BY <1>1, <1>2, SignNRange, Zenon
<1>4. 2^(H - 1) <= Half /\ 2^(H - 1) \in Nat \ {0}
  BY <1>1, PowerSplit, Zenon DEF Half
<1>5. SignN(imm, H) \in Int /\ SignN(imm, H) \in -Half .. Half - 1
  BY <1>3, <1>4, Halves
<1>. QED  BY <1>5, SignedOfTrunc, Zenon

\* Adding the immediate.
LEMMA ImmedAdded ==
  \A v \in Word : \A imm \in Immed :
    LET s == SignN(imm, H)
    IN  Trunc(v + Trunc(s)) = Trunc(v + s) /\ Trunc(v + s) \in Word
<1>. TAKE v \in Word
<1>. TAKE imm \in Immed
<1>. DEFINE s == SignN(imm, H)
            t == Trunc(s)
<1>1. s \in Int /\ s \in -Half .. Half - 1 /\ t \in Word
  BY SignedImmed, Zenon
<1>2. s \in Int /\ -M <= s /\ s < 2 * M
  BY <1>1, Halves
<1>3. t = IF s < 0 THEN s + M ELSE IF s < M THEN s ELSE s - M
  BY <1>2, TruncNear, Zenon
<1>. HIDE DEF s, t
<1>4. v \in Int /\ v \in 0 .. M - 1 /\ t \in 0 .. M - 1
  BY <1>1, Halves DEF Word
<1>. DEFINE x == v + s
            y == v + t
<1>5. x \in Int /\ -M <= x /\ x < 2 * M
  BY <1>1, <1>4, Halves
<1>6. y \in Int /\ -M <= y /\ y < 2 * M
  BY <1>4, Halves
<1>7. x = v + s /\ y = v + t
  OBVIOUS
<1>. HIDE DEF x, y
<1>8. Trunc(x) = (IF x < 0 THEN x + M ELSE IF x < M THEN x ELSE x - M) /\ Trunc(x) \in Word
  BY <1>5, TruncNear, TruncIsWord, Zenon
<1>9. Trunc(y) = IF y < 0 THEN y + M ELSE IF y < M THEN y ELSE y - M
  BY <1>6, TruncNear, Zenon
<1>10. Trunc(y) = Trunc(x)
  BY <1>1, <1>3, <1>4, <1>5, <1>6, <1>7, <1>8, <1>9, Halves
<1>. QED  BY <1>8, <1>10, Zenon DEF t, s, x, y

\* A sum or a difference overflows when it is out of the range of a signed word.
LEMMA OverflowIs ==
  \A a, b \in Word :
    /\ Overflow(a, b, FALSE) <=> Signed(a) + Signed(b) \notin -Half .. Half - 1
    /\ Overflow(a, b, TRUE)  <=> Signed(a) - Signed(b) \notin -Half .. Half - 1
<1>. TAKE a, b \in Word
<1>1. a \in Nat /\ b \in Nat /\ a < M /\ b < M
  BY WordDigits, Zenon
<1>2. \A v \in Word : Msb(v) = IF v >= Half THEN 1 ELSE 0
  <2>. TAKE v \in Word
  <2>1. v \in Nat /\ v < M
    BY WordDigits, Zenon
  <2>2. CASE v >= Half
    <3>1. v = Half * 1 + (v - Half) /\ v - Half \in 0 .. Half - 1 /\ 1 \in Int
      BY <2>1, <2>2, Halves
    <3>2. v \div Half = 1
      BY ONLY <3>1, <2>1, Halves, Quotient
    <3>. QED  BY <2>2, <3>2, Zenon DEF Msb, Half
  <2>3. CASE ~(v >= Half)
    <3>1. v = Half * 0 + v /\ v \in 0 .. Half - 1 /\ 0 \in Int
      BY <2>1, <2>3, Halves
    <3>2. v \div Half = 0
      BY ONLY <3>1, <2>1, Halves, Quotient
    <3>. QED  BY <2>3, <3>2, Zenon DEF Msb, Half
  <2>. QED  BY <2>2, <2>3
<1>3. /\ Signed(a) = IF a >= Half THEN a - M ELSE a
      /\ Signed(b) = IF b >= Half THEN b - M ELSE b
  BY SignedIs, Zenon
<1>4. ASSUME NEW y \in Word
      PROVE  /\ y = Arithmetic(a, b, FALSE) =>
                 (Overflow(a, b, FALSE) <=> \/ ~(a >= Half) /\ y >= Half /\ ~(b >= Half)
                                            \/ a >= Half /\ ~(y >= Half) /\ b >= Half)
             /\ y = Arithmetic(a, b, TRUE) =>
                 (Overflow(a, b, TRUE) <=> \/ ~(a >= Half) /\ y >= Half /\ b >= Half
                                           \/ a >= Half /\ ~(y >= Half) /\ ~(b >= Half))
  <2>1. Msb(a) = (IF a >= Half THEN 1 ELSE 0) /\ Msb(b) = (IF b >= Half THEN 1 ELSE 0)
        /\ Msb(y) = (IF y >= Half THEN 1 ELSE 0)
    BY <1>2, Zenon
  <2>2. (Msb(a) = 0 <=> ~(a >= Half)) /\ (Msb(a) = 1 <=> a >= Half)
        /\ (Msb(y) = 0 <=> ~(y >= Half)) /\ (Msb(y) = 1 <=> y >= Half)
        /\ (Msb(b) = 1 <=> b >= Half)
    BY <2>1
  <2>. DEFINE o(z, sub) == \/ Msb(a) = 0 /\ Msb(z) = 1 /\ ~((Msb(b) = 1) # sub)
                           \/ Msb(a) = 1 /\ Msb(z) = 0 /\ ((Msb(b) = 1) # sub)
  <2>3. \A sub \in BOOLEAN : Overflow(a, b, sub) = o(Arithmetic(a, b, sub), sub)
    BY Zenon DEF Overflow
  <2>4. o(y, FALSE) <=> \/ ~(a >= Half) /\ y >= Half /\ ~(b >= Half)
                        \/ a >= Half /\ ~(y >= Half) /\ b >= Half
    BY <2>2, Zenon
  <2>5. o(y, TRUE) <=> \/ ~(a >= Half) /\ y >= Half /\ b >= Half
                       \/ a >= Half /\ ~(y >= Half) /\ ~(b >= Half)
    BY <2>2, Zenon
  <2>. HIDE DEF o
  <2>. QED  BY <2>3, <2>4, <2>5, Zenon
<1>5. Overflow(a, b, FALSE) <=> Signed(a) + Signed(b) \notin -Half .. Half - 1
  <2>. DEFINE x == a + b
              y == Trunc(x)
  <2>1. x \in Int /\ -M <= x /\ x < 2 * M
    BY <1>1, Halves
  <2>2. x = a + b
    OBVIOUS
  <2>7. y = Arithmetic(a, b, FALSE)
    BY Zenon DEF Arithmetic
  <2>. HIDE DEF x
  <2>3. y \in Word /\ y = IF x < 0 THEN x + M ELSE IF x < M THEN x ELSE x - M
    BY <2>1, TruncNear, TruncIsWord, Zenon
  <2>. HIDE DEF y
  <2>4. Overflow(a, b, FALSE) <=> \/ ~(a >= Half) /\ y >= Half /\ ~(b >= Half)
                                  \/ a >= Half /\ ~(y >= Half) /\ b >= Half
    BY <1>4, <2>3, <2>7, Zenon
  <2>. DEFINE sa == Signed(a)
              sb == Signed(b)
  <2>5. /\ sa = IF a >= Half THEN a - M ELSE a
        /\ sb = IF b >= Half THEN b - M ELSE b
    BY <1>3, Zenon
  <2>. HIDE DEF sa, sb
  <2>6. sa + sb \notin -Half .. Half - 1 <=> \/ ~(a >= Half) /\ y >= Half /\ ~(b >= Half)
                                             \/ a >= Half /\ ~(y >= Half) /\ b >= Half
    <3>. DEFINE r == sa + sb
    <3>1. sa \in Int /\ sb \in Int /\ y \in Int /\ r \in Int
      BY ONLY <1>1, <2>1, <2>3, <2>5, Halves
    <3>2. r \notin -Half .. Half - 1 <=> r < -Half \/ r >= Half
      <4>. HIDE DEF r
      <4>. QED  BY ONLY <3>1, Halves
    <3>3. CASE a >= Half /\ b >= Half
      <4>2. r = y - M /\ y = x - M /\ x >= M
        BY ONLY <1>1, <2>1, <2>2, <2>3, <2>5, <3>3, Halves
      <4>1. r < -Half \/ r >= Half <=> ~(y >= Half)
        <5>. HIDE DEF r
        <5>. QED  BY ONLY <1>1, <2>1, <3>1, <4>2, Halves
      <4>. QED  BY <3>2, <3>3, <4>1, Zenon
    <3>4. CASE a >= Half /\ ~(b >= Half)
      <4>1. r < -Half \/ r >= Half <=> FALSE
        BY ONLY <1>1, <2>1, <2>2, <2>3, <2>5, <3>4, Halves
      <4>. QED  BY <3>2, <3>4, <4>1, Zenon
    <3>5. CASE ~(a >= Half) /\ b >= Half
      <4>1. r < -Half \/ r >= Half <=> FALSE
        BY ONLY <1>1, <2>1, <2>2, <2>3, <2>5, <3>5, Halves
      <4>. QED  BY <3>2, <3>5, <4>1, Zenon
    <3>6. CASE ~(a >= Half) /\ ~(b >= Half)
      <4>2. r = y /\ y = x /\ x >= 0
        BY ONLY <1>1, <2>1, <2>2, <2>3, <2>5, <3>6, Halves
      <4>1. r < -Half \/ r >= Half <=> y >= Half
        <5>. HIDE DEF r
        <5>. QED  BY ONLY <1>1, <2>1, <3>1, <4>2, Halves
      <4>. QED  BY <3>2, <3>6, <4>1, Zenon
    <3>. QED  BY <3>3, <3>4, <3>5, <3>6, Zenon
  <2>. QED  BY <2>4, <2>6, Zenon DEF sa, sb
<1>6. Overflow(a, b, TRUE) <=> Signed(a) - Signed(b) \notin -Half .. Half - 1
  <2>. DEFINE x == a - b
              y == Trunc(x)
  <2>1. x \in Int /\ -M <= x /\ x < 2 * M
    BY <1>1, Halves
  <2>2. x = a - b
    OBVIOUS
  <2>7. y = Arithmetic(a, b, TRUE)
    BY Zenon DEF Arithmetic
  <2>. HIDE DEF x
  <2>3. y \in Word /\ y = IF x < 0 THEN x + M ELSE IF x < M THEN x ELSE x - M
    BY <2>1, TruncNear, TruncIsWord, Zenon
  <2>. HIDE DEF y
  <2>4. Overflow(a, b, TRUE) <=> \/ ~(a >= Half) /\ y >= Half /\ b >= Half
                                 \/ a >= Half /\ ~(y >= Half) /\ ~(b >= Half)
    BY <1>4, <2>3, <2>7, Zenon
  <2>. DEFINE sa == Signed(a)
              sb == Signed(b)
  <2>5. /\ sa = IF a >= Half THEN a - M ELSE a
        /\ sb = IF b >= Half THEN b - M ELSE b
    BY <1>3, Zenon
  <2>. HIDE DEF sa, sb
  <2>6. sa - sb \notin -Half .. Half - 1 <=> \/ ~(a >= Half) /\ y >= Half /\ b >= Half
                                             \/ a >= Half /\ ~(y >= Half) /\ ~(b >= Half)
    <3>. DEFINE r == sa - sb
    <3>1. sa \in Int /\ sb \in Int /\ y \in Int /\ r \in Int
      BY ONLY <1>1, <2>1, <2>3, <2>5, Halves
    <3>2. r \notin -Half .. Half - 1 <=> r < -Half \/ r >= Half
      <4>. HIDE DEF r
      <4>. QED  BY ONLY <3>1, Halves
    <3>3. CASE a >= Half /\ b >= Half
      <4>1. r < -Half \/ r >= Half <=> FALSE
        BY ONLY <1>1, <2>1, <2>2, <2>3, <2>5, <3>3, Halves
      <4>. QED  BY <3>2, <3>3, <4>1, Zenon
    <3>4. CASE a >= Half /\ ~(b >= Half)
      <4>2. r = y - M /\ y = x /\ x >= 0
        BY ONLY <1>1, <2>1, <2>2, <2>3, <2>5, <3>4, Halves
      <4>1. r < -Half \/ r >= Half <=> ~(y >= Half)
        <5>. HIDE DEF r
        <5>. QED  BY ONLY <1>1, <2>1, <2>2, <3>1, <3>4, <4>2, Halves
      <4>. QED  BY <3>2, <3>4, <4>1, Zenon
    <3>5. CASE ~(a >= Half) /\ b >= Half
      <4>2. r = y /\ y = x + M /\ x < 0
        BY ONLY <1>1, <2>1, <2>2, <2>3, <2>5, <3>5, Halves
      <4>1. r < -Half \/ r >= Half <=> y >= Half
        <5>. HIDE DEF r
        <5>. QED  BY ONLY <1>1, <2>1, <2>2, <3>1, <3>5, <4>2, Halves
      <4>. QED  BY <3>2, <3>5, <4>1, Zenon
    <3>6. CASE ~(a >= Half) /\ ~(b >= Half)
      <4>1. r < -Half \/ r >= Half <=> FALSE
        BY ONLY <1>1, <2>1, <2>2, <2>3, <2>5, <3>6, Halves
      <4>. QED  BY <3>2, <3>6, <4>1, Zenon
    <3>. QED  BY <3>3, <3>4, <3>5, <3>6, Zenon
  <2>. QED  BY <2>4, <2>6, Zenon DEF sa, sb
<1>. QED  BY <1>5, <1>6

----------------------------------------------------------------------------
\* Products and quotients.

\* Integers that differ by a multiple of the range of a word are cut to the same.
LEMMA TruncCongruent == \A n, k \in Int : Trunc(n + k * M) = Trunc(n)
<1>. TAKE n, k \in Int
<1>1. M \in Nat \ {0}
  BY Halves, Zenon
<1>2. PICK q \in Int, r \in 0 .. M - 1 : n = M * q + r /\ n \div M = q /\ n % M = r
  BY <1>1, IntDivision, Zenon
<1>3. n + k * M = M * (q + k) + r /\ n + k * M \in Int /\ q + k \in Int
  BY <1>1, <1>2
<1>4. (n + k * M) % M = r
  BY <1>1, <1>2, <1>3, IntQuotient, Zenon
<1>. QED  BY <1>2, <1>4, Zenon DEF Trunc

\* A product is cut to the same whether its factors have signs or not.
LEMMA ProductCut ==
  \A a, b \in Word :
    Trunc(Signed(a) * Signed(b)) = Trunc(a * b) /\ Trunc(a * b) \in Word
<1>. TAKE a, b \in Word
<1>1. a \in Int /\ b \in Int /\ M \in Int
  BY WordDigits, Halves
<1>2. PICK j \in {0, 1} : Signed(a) = a - j * M
  BY <1>1, SignedIs
<1>3. PICK k \in {0, 1} : Signed(b) = b - k * M
  BY <1>1, SignedIs
<1>4. a * b \in Int /\ a * k \in Int /\ b * j \in Int /\ M * j * k \in Int
  BY <1>1
<1>. DEFINE n == a * b
            c == M * j * k - a * k - b * j
<1>5. n \in Int /\ c \in Int
  BY <1>4
<1>6. (a - j * M) * (b - k * M) = n + c * M
  <2>1. CASE j = 0 /\ k = 0
    BY <1>1, <2>1
  <2>2. CASE j = 0 /\ k = 1
    BY <1>1, <2>2
  <2>3. CASE j = 1 /\ k = 0
    BY <1>1, <2>3
  <2>4. CASE j = 1 /\ k = 1
    BY <1>1, <2>4
  <2>. QED  BY <2>1, <2>2, <2>3, <2>4
<1>7. Trunc(n) \in Word
  BY <1>5, TruncIsWord, Zenon
<1>. HIDE DEF n, c
<1>8. Trunc(n + c * M) = Trunc(n)
  BY <1>5, TruncCongruent, Zenon
<1>9. Signed(a) * Signed(b) = n + c * M
  BY <1>2, <1>3, <1>6, Zenon
<1>. QED  BY <1>7, <1>8, <1>9, Zenon DEF n

\* The words of a product.
LEMMA HiLoWords ==
  \A p \in Int : (p \div M) % M \in Word /\ p % M \in Word
<1>. TAKE p \in Int
<1>1. M \in Nat \ {0}
  BY Halves, Zenon
<1>2. p \div M \in Int
  <2>1. PICK q \in Int, r \in 0 .. M - 1 : p = M * q + r /\ p \div M = q /\ p % M = r
    BY <1>1, IntDivision, Zenon
  <2>. QED  BY <2>1, Zenon
<1>. QED  BY <1>2, TruncIsWord, Zenon DEF Trunc

\* The words of a pair.
LEMMA PairHolds ==
  \A h, l \in Word : h * M + l \in Int /\ ((h * M + l) \div M) % M = h /\ (h * M + l) % M = l
<1>. TAKE h, l \in Word
<1>1. h \in Int /\ l \in Int /\ l \in 0 .. M - 1 /\ M \in Nat \ {0}
  BY Halves, WordDigits DEF Word
<1>. DEFINE p == h * M + l
<1>2. p \in Int /\ p = M * h + l
  BY <1>1
<1>. HIDE DEF p
<1>3. p \div M = h /\ p % M = l
  BY <1>1, <1>2, IntQuotient, Zenon
<1>4. h % M = h
  BY TruncOfWord, Zenon DEF Trunc
<1>. QED  BY <1>2, <1>3, <1>4, Zenon DEF p

\* hi and lo of the number that the two words are.
LEMMA HiLoOfPair == \A h, l \in Word : h * M + l \in Int /\ HiLo(h * M + l) = <<h, l>>
BY PairHolds, Zenon DEF HiLo

\* The quotient of the simulator: towards zero.
Quo(n, d) ==
  IF (n < 0) = (d < 0) THEN Magnitude(n) \div Magnitude(d) ELSE -(Magnitude(n) \div Magnitude(d))

\* A signed division: its quotient has the sign that the operands ask for, and its
\* rest the sign of the dividend.
LEMMA SignedDivision ==
  \A n \in Int : \A d \in Int \ {0} :
    LET q == Magnitude(n) \div Magnitude(d)
        r == Magnitude(n) % Magnitude(d)
    IN  /\ q \in Int /\ r \in Int /\ Quo(n, d) \in Int
        /\ Quo(n, d) = IF (n < 0) # (d < 0) THEN -q ELSE q
        /\ n - Quo(n, d) * d = IF n < 0 THEN -r ELSE r
<1>. TAKE n \in Int
<1>. TAKE d \in Int \ {0}
<1>. DEFINE a == Magnitude(n)
            b == Magnitude(d)
<1>1. a = (IF n < 0 THEN -n ELSE n) /\ b = IF d < 0 THEN -d ELSE d
  BY Zenon DEF Magnitude
<1>2. a \in Nat /\ b \in Nat \ {0}
  BY <1>1
<1>. HIDE DEF a, b
<1>3. PICK q \in Nat, r \in 0 .. b - 1 : a = b * q + r /\ a \div b = q /\ a % b = r
  BY <1>2, Division, Zenon
<1>4. Quo(n, d) = (IF (n < 0) = (d < 0) THEN q ELSE -q) /\ q \in Int /\ r \in Int
  <2>1. Quo(n, d) = IF (n < 0) = (d < 0) THEN q ELSE -q
    BY <1>3, Zenon DEF Quo, a, b
  <2>. QED  BY <1>2, <1>3, <2>1
<1>5. Quo(n, d) \in Int /\ Quo(n, d) = IF (n < 0) # (d < 0) THEN -q ELSE q
  <2>1. -q \in Int /\ q \in Int
    BY <1>4
  <2>2. CASE (n < 0) = (d < 0)
    BY <1>4, <2>1, <2>2, Zenon
  <2>3. CASE (n < 0) # (d < 0)
    BY <1>4, <2>1, <2>3, Zenon
  <2>. QED  BY <2>2, <2>3, Zenon
<1>6. n - Quo(n, d) * d = IF n < 0 THEN -r ELSE r
  <2>1. CASE n < 0 /\ d < 0
    <3>1. Quo(n, d) = q
      BY <1>4, <2>1, Zenon
    <3>2. n = -a /\ d = -b
      BY <1>1, <2>1
    <3>. QED  BY ONLY <1>2, <1>3, <2>1, <3>1, <3>2
  <2>2. CASE n < 0 /\ ~(d < 0)
    <3>1. Quo(n, d) = -q
      BY <1>4, <2>2, Zenon
    <3>2. n = -a /\ d = b
      BY <1>1, <2>2
    <3>. QED  BY ONLY <1>2, <1>3, <2>2, <3>1, <3>2
  <2>3. CASE ~(n < 0) /\ d < 0
    <3>1. Quo(n, d) = -q
      <4>1. ~((n < 0) = (d < 0))
        <5>. SUFFICES ASSUME (n < 0) = (d < 0)
                      PROVE  FALSE
          OBVIOUS
        <5>. QED  BY <2>3
      <4>. QED  BY <1>4, <4>1, Zenon
    <3>2. n = a /\ d = -b
      BY <1>1, <2>3
    <3>. QED  BY ONLY <1>2, <1>3, <2>3, <3>1, <3>2
  <2>4. CASE ~(n < 0) /\ ~(d < 0)
    <3>1. Quo(n, d) = q
      <4>1. (n < 0) = (d < 0)
        BY <2>4
      <4>. QED  BY <1>4, <4>1, Zenon
    <3>2. n = a /\ d = b
      BY <1>1, <2>4
    <3>. QED  BY ONLY <1>2, <1>3, <2>4, <3>1, <3>2
  <2>. QED  BY <2>1, <2>2, <2>3, <2>4, Zenon
<1>. QED  BY <1>3, <1>4, <1>5, <1>6, Zenon DEF a, b

\* What the unit computes, operation by operation, as the words of a number.
LEMMA Multiplied ==
  \A a, b, hi, lo \in Word :
    /\ MulDiv("MULT", a, b, hi, lo)  = HiLo(Signed(a) * Signed(b))
    /\ MulDiv("MULTU", a, b, hi, lo) = HiLo(a * b)
    /\ MulDiv("MADD", a, b, hi, lo)  = HiLo(hi * M + lo + Signed(a) * Signed(b))
    /\ MulDiv("MADDU", a, b, hi, lo) = HiLo(hi * M + lo + a * b)
    /\ MulDiv("MSUB", a, b, hi, lo)  = HiLo(hi * M + lo - Signed(a) * Signed(b))
    /\ MulDiv("MSUBU", a, b, hi, lo) = HiLo(hi * M + lo - a * b)
<1>. TAKE a, b, hi, lo \in Word
<1>. DEFINE sa == Signed(a)
            sb == Signed(b)
<1>7. sa \in Int /\ sb \in Int /\ a \in Int /\ b \in Int /\ hi \in Int /\ lo \in Int /\ M \in Int
  BY SignedIs, WordDigits, Halves
<1>8. sa * sb \in Int /\ a * b \in Int /\ hi * M \in Int
  BY <1>7
<1>. HIDE DEF sa, sb
<1>1. MulDiv("MULT", a, b, hi, lo)  = HiLo(sa * sb)
  BY DEF MulDiv, sa, sb
<1>2. MulDiv("MULTU", a, b, hi, lo) = HiLo(a * b)
  BY DEF MulDiv, sa, sb
<1>3. MulDiv("MADD", a, b, hi, lo)  = HiLo(hi * M + lo + sa * sb)
  BY DEF MulDiv, sa, sb
<1>4. MulDiv("MADDU", a, b, hi, lo) = HiLo(hi * M + lo + a * b)
  BY DEF MulDiv, sa, sb
<1>5. MulDiv("MSUB", a, b, hi, lo)  = HiLo(hi * M + lo - sa * sb)
  BY <1>7, <1>8 DEF MulDiv, sa, sb
<1>6. MulDiv("MSUBU", a, b, hi, lo) = HiLo(hi * M + lo - a * b)
  BY <1>7, <1>8 DEF MulDiv, sa, sb
<1>. QED  BY <1>1, <1>2, <1>3, <1>4, <1>5, <1>6, Zenon DEF sa, sb

\* Each of the numbers is an integer.
LEMMA ProductTypes ==
  \A a, b, hi, lo \in Word :
    /\ Signed(a) * Signed(b) \in Int /\ a * b \in Int
    /\ hi * M + lo + Signed(a) * Signed(b) \in Int /\ hi * M + lo + a * b \in Int
    /\ hi * M + lo - Signed(a) * Signed(b) \in Int /\ hi * M + lo - a * b \in Int
    /\ hi * M + lo \in Int
<1>. TAKE a, b, hi, lo \in Word
<1>1. Signed(a) \in Int /\ Signed(b) \in Int
  BY SignedIs, Zenon
<1>2. a \in Int /\ b \in Int /\ hi \in Int /\ lo \in Int /\ M \in Int
  BY WordDigits, Halves
<1>3. Signed(a) * Signed(b) \in Int /\ a * b \in Int /\ hi * M \in Int
  BY <1>1, <1>2
<1>. DEFINE p == Signed(a) * Signed(b)
            u == a * b
            h == hi * M
<1>4. p \in Int /\ u \in Int /\ h \in Int
  BY <1>3
<1>. HIDE DEF p, u, h
<1>5. h + lo + p \in Int /\ h + lo + u \in Int /\ h + lo - p \in Int /\ h + lo - u \in Int
      /\ h + lo \in Int
  BY <1>2, <1>4
<1>. QED  BY <1>4, <1>5, Zenon DEF p, u, h

\* mul writes the low word of the signed product.
LEMMA LowProduct ==
  \A a, b, hi, lo \in Word :
    MulDiv("MULT", a, b, hi, lo)[2] = Trunc(a * b) /\ Trunc(a * b) \in Word
<1>. TAKE a, b, hi, lo \in Word
<1>1. MulDiv("MULT", a, b, hi, lo) = HiLo(Signed(a) * Signed(b))
  BY ONLY a \in Word, b \in Word, hi \in Word, lo \in Word, Multiplied, SMT
<1>2. \A p : HiLo(p)[2] = Trunc(p)
  <2>. TAKE p
  <2>1. HiLo(p) = <<(p \div M) % M, p % M>>
    BY Zenon DEF HiLo
  <2>2. \A x, y : <<x, y>>[2] = y
    BY Zenon
  <2>. QED  BY <2>1, <2>2, Zenon DEF Trunc
<1>3. MulDiv("MULT", a, b, hi, lo)[2] = Trunc(Signed(a) * Signed(b))
  BY <1>1, <1>2, Zenon
<1>. QED  BY <1>3, ProductCut, Zenon

\* A division by another number than zero.
LEMMA DividedUnsigned ==
  \A a, b, hi, lo \in Word : b # 0 =>
    /\ MulDiv("DIVU", a, b, hi, lo) = HiLo((a % b) * M + (a \div b))
    /\ (a % b) * M + (a \div b) \in Int
<1>. TAKE a, b, hi, lo \in Word
<1>. HAVE b # 0
<1>1. a \in Nat /\ b \in Nat \ {0} /\ a < M /\ b < M
  BY WordDigits
<1>2. Magnitude(a) = a /\ Magnitude(b) = b /\ ~(a < 0) /\ ~(b < 0)
  BY <1>1 DEF Magnitude
<1>3. PICK q \in Nat, r \in 0 .. b - 1 : a = b * q + r /\ a \div b = q /\ a % b = r
  BY <1>1, Division, Zenon
<1>4. q <= a
  <2>1. (b - 1) * q \in Nat
    BY ONLY <1>1, <1>3
  <2>2. b * q = (b - 1) * q + q
    BY ONLY <1>1, <1>3
  <2>3. a = (b - 1) * q + q + r
    BY ONLY <1>1, <1>3, <2>2
  <2>. QED  BY ONLY <1>1, <1>3, <2>1, <2>3
<1>5. q \in Word /\ r \in Word
  BY <1>1, <1>3, <1>4, Halves DEF Word
<1>6. MulDiv("DIVU", a, b, hi, lo) = << Trunc(r), Trunc(q) >>
  <2>. DEFINE f == "DIVU"
              signed == f \in {"MULT", "MADD", "MSUB", "DIV"}
  <2>1. ~signed
    OBVIOUS
  <2>2. MulDiv(f, a, b, hi, lo) =
          << Trunc(IF a < 0 THEN -(Magnitude(a) % Magnitude(b)) ELSE Magnitude(a) % Magnitude(b)),
             Trunc(IF (a < 0) # (b < 0) THEN -(Magnitude(a) \div Magnitude(b))
                   ELSE Magnitude(a) \div Magnitude(b)) >>
    BY <2>1, Zenon DEF MulDiv
  <2>3. ~((a < 0) # (b < 0))
    BY <1>2
  <2>. QED  BY <1>2, <1>3, <2>2, <2>3, Zenon
<1>7. MulDiv("DIVU", a, b, hi, lo) = <<r, q>>
  BY <1>5, <1>6, TruncOfWord, Zenon
<1>. QED  BY <1>3, <1>5, <1>7, HiLoOfPair, Zenon

\* A signed division leaves the remainder and the quotient towards zero.
LEMMA DividedSigned ==
  \A a, b, hi, lo \in Word : b # 0 =>
    LET n == Signed(a)
        d == Signed(b)
        p == Trunc(n - Quo(n, d) * d) * M + Trunc(Quo(n, d))
    IN  MulDiv("DIV", a, b, hi, lo) = HiLo(p) /\ p \in Int
<1>. TAKE a, b, hi, lo \in Word
<1>. HAVE b # 0
<1>. DEFINE n == Signed(a)
            d == Signed(b)
            q == Magnitude(n) \div Magnitude(d)
            r == Magnitude(n) % Magnitude(d)
<1>1. n \in Int /\ d \in Int
  BY SignedIs, Zenon
<1>2. d # 0
  <2>1. d = IF b >= Half THEN b - M ELSE b
    BY SignedIs, Zenon
  <2>2. b \in Nat /\ b < M
    BY WordDigits, Zenon
  <2>. HIDE DEF d
  <2>. QED  BY <2>1, <2>2, Halves
<1>. HIDE DEF n, d
<1>3. d \in Int \ {0}
  BY <1>1, <1>2
<1>4. /\ q \in Int /\ r \in Int /\ Quo(n, d) \in Int
      /\ Quo(n, d) = IF (n < 0) # (d < 0) THEN -q ELSE q
      /\ n - Quo(n, d) * d = IF n < 0 THEN -r ELSE r
  BY <1>1, <1>3, SignedDivision, Zenon
<1>5. MulDiv("DIV", a, b, hi, lo) =
        << Trunc(IF n < 0 THEN -r ELSE r), Trunc(IF (n < 0) # (d < 0) THEN -q ELSE q) >>
  BY Zenon DEF MulDiv, n, d
<1>6. Quo(n, d) * d \in Int
  BY <1>1, <1>4
<1>7. n - Quo(n, d) * d \in Int
  BY <1>1, <1>6
<1>8. MulDiv("DIV", a, b, hi, lo) = << Trunc(n - Quo(n, d) * d), Trunc(Quo(n, d)) >>
  BY <1>4, <1>5, Zenon
<1>9. Trunc(n - Quo(n, d) * d) \in Word /\ Trunc(Quo(n, d)) \in Word
  BY <1>4, <1>7, TruncIsWord, Zenon
<1>. QED  BY <1>8, <1>9, HiLoOfPair, Zenon DEF n, d

----------------------------------------------------------------------------
\* What the decoder makes of the instructions that the simulator defines.

Plain(c)      == c.exc_chk = "NONE" /\ ~c.write_cop0 /\ ~c.write_llbit
NoMemory(c)   == ~c.read_mem /\ c.mem_write_cond = "KEEP"
NoProduct(c)  == ~c.write_hi /\ ~c.write_lo
NoRegister(c) == ~c.write_reg
NoJump(c)     == c.pc_src = "NEXT"
Takes(c, a, b) == c.alu_srcA = a /\ c.alu_srcB = b
Delivers(c, dest, src) ==
  c.write_reg /\ c.write_cond = "ALWAYS" /\ c.dest_reg = dest /\ c.reg_src = src

\* The decoders behind the main decoder.
LEMMA DecoderOf ==
  /\ \A op \in D!RtypeOps : D!Control(op) = D!RtypeControl(op)
  /\ \A op \in D!RegimmOps : D!Control(op) = D!RegimmControl(op)
  /\ \A op \in D!Special2Ops : D!Control(op) = D!Special2Control(op)
  /\ \A op \in D!Special3Ops : D!Control(op) = D!Special3Control(op)
<1>1. \A op \in D!RtypeOps : D!Control(op) = D!RtypeControl(op)
  BY DEF D!Control, D!RtypeOps, D!ShiftSaOps, D!ShiftVarOps, D!TrapOps, D!AluOps, D!MulDivOps,
         D!RegimmOps, D!LtzOps, D!GezOps, D!TrapImmOps, D!LinkBranchOps, D!Cop0Ops,
         D!Special2Ops, D!MulAccOps, D!Special3Ops, D!ByteShuffleOps, D!JumpOps, D!BranchOps,
         D!BranchEqOps, D!BranchNeOps, D!BranchLeOps, D!BranchGtOps, D!LogicImmOps, D!LoadOps,
         D!StoreOps
<1>2. \A op \in D!RegimmOps : D!Control(op) = D!RegimmControl(op)
  BY DEF D!Control, D!RtypeOps, D!ShiftSaOps, D!ShiftVarOps, D!TrapOps, D!AluOps, D!MulDivOps,
         D!RegimmOps, D!LtzOps, D!GezOps, D!TrapImmOps, D!LinkBranchOps, D!Cop0Ops,
         D!Special2Ops, D!MulAccOps, D!Special3Ops, D!ByteShuffleOps, D!JumpOps, D!BranchOps,
         D!BranchEqOps, D!BranchNeOps, D!BranchLeOps, D!BranchGtOps, D!LogicImmOps, D!LoadOps,
         D!StoreOps
<1>3. \A op \in D!Special2Ops : D!Control(op) = D!Special2Control(op)
  BY DEF D!Control, D!RtypeOps, D!ShiftSaOps, D!ShiftVarOps, D!TrapOps, D!AluOps, D!MulDivOps,
         D!RegimmOps, D!LtzOps, D!GezOps, D!TrapImmOps, D!LinkBranchOps, D!Cop0Ops,
         D!Special2Ops, D!MulAccOps, D!Special3Ops, D!ByteShuffleOps, D!JumpOps, D!BranchOps,
         D!BranchEqOps, D!BranchNeOps, D!BranchLeOps, D!BranchGtOps, D!LogicImmOps, D!LoadOps,
         D!StoreOps
<1>4. \A op \in D!Special3Ops : D!Control(op) = D!Special3Control(op)
  BY DEF D!Control, D!RtypeOps, D!ShiftSaOps, D!ShiftVarOps, D!TrapOps, D!AluOps, D!MulDivOps,
         D!RegimmOps, D!LtzOps, D!GezOps, D!TrapImmOps, D!LinkBranchOps, D!Cop0Ops,
         D!Special2Ops, D!MulAccOps, D!Special3Ops, D!ByteShuffleOps, D!JumpOps, D!BranchOps,
         D!BranchEqOps, D!BranchNeOps, D!BranchLeOps, D!BranchGtOps, D!LogicImmOps, D!LoadOps,
         D!StoreOps
<1>. QED  BY <1>1, <1>2, <1>3, <1>4

\* A shift by a constant.
LEMMA DecodedShiftSa ==
  \A op \in D!ShiftSaOps :
    LET c == D!Control(op)
    IN  /\ Plain(c) /\ NoMemory(c) /\ NoProduct(c) /\ NoJump(c)
        /\ Delivers(c, "RD", "ALU") /\ c.alu_funct = D!FunctOf[op]
        /\ c.alu_srcB = "RT" /\ c.alu_srcSa = "SA"
<1>. TAKE op \in D!ShiftSaOps
<1>. DEFINE c == D!Control(op)
<1>1. c = D!RtypeControl(op)
  BY DecoderOf DEF D!RtypeOps, D!ShiftSaOps, D!ShiftVarOps, D!TrapOps, D!AluOps, D!MulDivOps
<1>2. D!RtypeControl(op) = [D!WriteRd(D!DefaultControl, "ALU") EXCEPT
             !.alu_srcB = "RT", !.alu_srcSa = "SA", !.opd_use = "RT", !.alu_funct = D!FunctOf[op]]
  BY Zenon DEF D!RtypeControl, D!RtypeOps, D!ShiftSaOps, D!ShiftVarOps, D!TrapOps, D!AluOps,
     D!MulDivOps
<1>. HIDE DEF c
<1>3. c = [D!WriteRd(D!DefaultControl, "ALU") EXCEPT
             !.alu_srcB = "RT", !.alu_srcSa = "SA", !.opd_use = "RT", !.alu_funct = D!FunctOf[op]]
  BY <1>1, <1>2, Zenon
<1>4. /\ Plain(c) /\ NoMemory(c) /\ NoProduct(c) /\ NoJump(c)
      /\ Delivers(c, "RD", "ALU") /\ c.alu_funct = D!FunctOf[op]
      /\ c.alu_srcB = "RT" /\ c.alu_srcSa = "SA"
  BY ONLY <1>3 DEF D!WriteRd, D!DefaultControl, D!ClearControl, Plain, NoMemory, NoProduct, NoJump,
         Delivers
<1>. QED  BY <1>4, Zenon DEF c

\* A shift by a register.
LEMMA DecodedShiftVar ==
  \A op \in D!ShiftVarOps :
    LET c == D!Control(op)
    IN  /\ Plain(c) /\ NoMemory(c) /\ NoProduct(c) /\ NoJump(c)
        /\ Delivers(c, "RD", "ALU") /\ c.alu_funct = D!FunctOf[op]
        /\ c.alu_srcB = "RT" /\ c.alu_srcSa = "RS"
<1>. TAKE op \in D!ShiftVarOps
<1>. DEFINE c == D!Control(op)
<1>1. c = D!RtypeControl(op)
  BY DecoderOf DEF D!RtypeOps, D!ShiftSaOps, D!ShiftVarOps, D!TrapOps, D!AluOps, D!MulDivOps
<1>2. D!RtypeControl(op) = [D!WriteRd(D!DefaultControl, "ALU") EXCEPT
             !.alu_srcB = "RT", !.alu_srcSa = "RS", !.alu_funct = D!FunctOf[op]]
  BY Zenon DEF D!RtypeControl, D!RtypeOps, D!ShiftSaOps, D!ShiftVarOps, D!TrapOps, D!AluOps,
     D!MulDivOps
<1>. HIDE DEF c
<1>3. c = [D!WriteRd(D!DefaultControl, "ALU") EXCEPT
             !.alu_srcB = "RT", !.alu_srcSa = "RS", !.alu_funct = D!FunctOf[op]]
  BY <1>1, <1>2, Zenon
<1>4. /\ Plain(c) /\ NoMemory(c) /\ NoProduct(c) /\ NoJump(c)
      /\ Delivers(c, "RD", "ALU") /\ c.alu_funct = D!FunctOf[op]
      /\ c.alu_srcB = "RT" /\ c.alu_srcSa = "RS"
  BY ONLY <1>3 DEF D!WriteRd, D!DefaultControl, D!ClearControl, Plain, NoMemory, NoProduct, NoJump,
         Delivers
<1>. QED  BY <1>4, Zenon DEF c

\* Arithmetic and logic of two registers.
LEMMA DecodedAlu ==
  \A op \in D!AluOps :
    LET c == D!Control(op)
    IN  /\ c.exc_chk = (IF op \in {"ADD", "SUB"} THEN "OVERFLOW" ELSE "NONE")
        /\ ~c.write_cop0 /\ ~c.write_llbit
        /\ NoMemory(c) /\ NoProduct(c) /\ NoJump(c)
        /\ Takes(c, "RS", "RT") /\ Delivers(c, "RD", "ALU") /\ c.alu_funct = D!FunctOf[op]
<1>. TAKE op \in D!AluOps
<1>. DEFINE c == D!Control(op)
<1>1. c = D!RtypeControl(op)
  BY DecoderOf DEF D!RtypeOps, D!ShiftSaOps, D!ShiftVarOps, D!TrapOps, D!AluOps, D!MulDivOps
<1>2. D!RtypeControl(op) = [D!WriteRd(D!WithSources("RS", "RT"), "ALU") EXCEPT
             !.alu_funct = D!FunctOf[op],
             !.exc_chk = IF op \in {"ADD", "SUB"} THEN "OVERFLOW" ELSE "NONE"]
  BY Zenon DEF D!RtypeControl, D!RtypeOps, D!ShiftSaOps, D!ShiftVarOps, D!TrapOps, D!AluOps,
     D!MulDivOps
<1>. HIDE DEF c
<1>3. c = [D!WriteRd(D!WithSources("RS", "RT"), "ALU") EXCEPT
             !.alu_funct = D!FunctOf[op],
             !.exc_chk = IF op \in {"ADD", "SUB"} THEN "OVERFLOW" ELSE "NONE"]
  BY <1>1, <1>2, Zenon
<1>4. /\ c.exc_chk = (IF op \in {"ADD", "SUB"} THEN "OVERFLOW" ELSE "NONE")
      /\ ~c.write_cop0 /\ ~c.write_llbit
      /\ NoMemory(c) /\ NoProduct(c) /\ NoJump(c)
      /\ Takes(c, "RS", "RT") /\ Delivers(c, "RD", "ALU") /\ c.alu_funct = D!FunctOf[op]
  BY ONLY <1>3 DEF D!WriteRd, D!WithSources, D!DefaultControl, D!ClearControl, NoMemory, NoProduct,
         NoJump, Takes, Delivers
<1>. QED  BY <1>4, Zenon DEF c

\* A conditional move.
LEMMA DecodedMoved ==
  \A op \in {"MOVZ", "MOVN"} :
    LET c == D!Control(op)
    IN  /\ Plain(c) /\ NoMemory(c) /\ NoProduct(c) /\ NoJump(c)
        /\ Takes(c, "RT", "ZERO") /\ c.flag_sel = D!FlagOf[op]
        /\ c.write_reg /\ c.write_cond = "WHEN_FLAG" /\ c.dest_reg = "RD" /\ c.reg_src = "RS"
<1>. TAKE op \in {"MOVZ", "MOVN"}
<1>. DEFINE c == D!Control(op)
<1>1. c = D!RtypeControl(op)
  BY DecoderOf DEF D!RtypeOps, D!ShiftSaOps, D!ShiftVarOps, D!TrapOps, D!AluOps, D!MulDivOps
<1>2. D!RtypeControl(op) = [D!WriteRd(D!WithSources("RT", "ZERO"), "RS") EXCEPT
             !.write_cond = "WHEN_FLAG", !.flag_sel = D!FlagOf[op]]
  BY Zenon DEF D!RtypeControl, D!RtypeOps, D!ShiftSaOps, D!ShiftVarOps, D!TrapOps, D!AluOps,
     D!MulDivOps
<1>. HIDE DEF c
<1>3. c = [D!WriteRd(D!WithSources("RT", "ZERO"), "RS") EXCEPT
             !.write_cond = "WHEN_FLAG", !.flag_sel = D!FlagOf[op]]
  BY <1>1, <1>2, Zenon
<1>4. /\ Plain(c) /\ NoMemory(c) /\ NoProduct(c) /\ NoJump(c)
      /\ Takes(c, "RT", "ZERO") /\ c.flag_sel = D!FlagOf[op]
      /\ c.write_reg /\ c.write_cond = "WHEN_FLAG" /\ c.dest_reg = "RD" /\ c.reg_src = "RS"
  BY ONLY <1>3 DEF D!WriteRd, D!WithSources, D!DefaultControl, D!ClearControl, Plain, NoMemory,
         NoProduct, NoJump, Takes
<1>. QED  BY <1>4, Zenon DEF c

\* A comparison of two registers.
LEMMA DecodedSlt ==
  \A op \in {"SLT", "SLTU"} :
    LET c == D!Control(op)
    IN  /\ Plain(c) /\ NoMemory(c) /\ NoProduct(c) /\ NoJump(c)
        /\ Takes(c, "RS", "RT") /\ Delivers(c, "RD", "FLAG") /\ c.flag_sel = D!FlagOf[op]
<1>. TAKE op \in {"SLT", "SLTU"}
<1>. DEFINE c == D!Control(op)
<1>1. c = D!RtypeControl(op)
  BY DecoderOf DEF D!RtypeOps, D!ShiftSaOps, D!ShiftVarOps, D!TrapOps, D!AluOps, D!MulDivOps
<1>2. D!RtypeControl(op)
        = [D!WriteRd(D!WithSources("RS", "RT"), "FLAG") EXCEPT !.flag_sel = D!FlagOf[op]]
  BY Zenon DEF D!RtypeControl, D!RtypeOps, D!ShiftSaOps, D!ShiftVarOps, D!TrapOps, D!AluOps,
     D!MulDivOps
<1>. HIDE DEF c
<1>3. c = [D!WriteRd(D!WithSources("RS", "RT"), "FLAG") EXCEPT !.flag_sel = D!FlagOf[op]]
  BY <1>1, <1>2, Zenon
<1>4. /\ Plain(c) /\ NoMemory(c) /\ NoProduct(c) /\ NoJump(c)
      /\ Takes(c, "RS", "RT") /\ Delivers(c, "RD", "FLAG") /\ c.flag_sel = D!FlagOf[op]
  BY ONLY <1>3 DEF D!WriteRd, D!WithSources, D!DefaultControl, D!ClearControl, Plain, NoMemory,
         NoProduct, NoJump, Takes, Delivers
<1>. QED  BY <1>4, Zenon DEF c

\* mfhi.
LEMMA DecodedFromHi ==
  \A op \in {"MFHI"} :
    LET c == D!Control(op)
    IN  /\ Plain(c) /\ NoMemory(c) /\ NoProduct(c) /\ NoJump(c)
        /\ Delivers(c, "RD", "HI")
<1>. TAKE op \in {"MFHI"}
<1>. DEFINE c == D!Control(op)
<1>1. c = D!RtypeControl(op)
  BY DecoderOf DEF D!RtypeOps, D!ShiftSaOps, D!ShiftVarOps, D!TrapOps, D!AluOps, D!MulDivOps
<1>2. D!RtypeControl(op) = D!WriteRd(D!DefaultControl, "HI")
  BY Zenon DEF D!RtypeControl, D!RtypeOps, D!ShiftSaOps, D!ShiftVarOps, D!TrapOps, D!AluOps,
     D!MulDivOps
<1>. HIDE DEF c
<1>3. c = D!WriteRd(D!DefaultControl, "HI")
  BY <1>1, <1>2, Zenon
<1>4. /\ Plain(c) /\ NoMemory(c) /\ NoProduct(c) /\ NoJump(c)
      /\ Delivers(c, "RD", "HI")
  BY ONLY <1>3 DEF D!WriteRd, D!DefaultControl, D!ClearControl, Plain, NoMemory, NoProduct, NoJump,
         Delivers
<1>. QED  BY <1>4, Zenon DEF c

\* mflo.
LEMMA DecodedFromLo ==
  \A op \in {"MFLO"} :
    LET c == D!Control(op)
    IN  /\ Plain(c) /\ NoMemory(c) /\ NoProduct(c) /\ NoJump(c)
        /\ Delivers(c, "RD", "LO")
<1>. TAKE op \in {"MFLO"}
<1>. DEFINE c == D!Control(op)
<1>1. c = D!RtypeControl(op)
  BY DecoderOf DEF D!RtypeOps, D!ShiftSaOps, D!ShiftVarOps, D!TrapOps, D!AluOps, D!MulDivOps
<1>2. D!RtypeControl(op) = D!WriteRd(D!DefaultControl, "LO")
  BY Zenon DEF D!RtypeControl, D!RtypeOps, D!ShiftSaOps, D!ShiftVarOps, D!TrapOps, D!AluOps,
     D!MulDivOps
<1>. HIDE DEF c
<1>3. c = D!WriteRd(D!DefaultControl, "LO")
  BY <1>1, <1>2, Zenon
<1>4. /\ Plain(c) /\ NoMemory(c) /\ NoProduct(c) /\ NoJump(c)
      /\ Delivers(c, "RD", "LO")
  BY ONLY <1>3 DEF D!WriteRd, D!DefaultControl, D!ClearControl, Plain, NoMemory, NoProduct, NoJump,
         Delivers
<1>. QED  BY <1>4, Zenon DEF c

\* mthi.
LEMMA DecodedToHi ==
  \A op \in {"MTHI"} :
    LET c == D!Control(op)
    IN  /\ Plain(c) /\ NoMemory(c) /\ NoRegister(c) /\ NoJump(c)
        /\ c.write_hi /\ ~c.write_lo /\ c.hilo_src = "RS"
<1>. TAKE op \in {"MTHI"}
<1>. DEFINE c == D!Control(op)
<1>1. c = D!RtypeControl(op)
  BY DecoderOf DEF D!RtypeOps, D!ShiftSaOps, D!ShiftVarOps, D!TrapOps, D!AluOps, D!MulDivOps
<1>2. D!RtypeControl(op)
        = [D!DefaultControl EXCEPT !.opd_use = "RS", !.hilo_src = "RS", !.write_hi = TRUE]
  BY Zenon DEF D!RtypeControl, D!RtypeOps, D!ShiftSaOps, D!ShiftVarOps, D!TrapOps, D!AluOps,
     D!MulDivOps
<1>. HIDE DEF c
<1>3. c = [D!DefaultControl EXCEPT !.opd_use = "RS", !.hilo_src = "RS", !.write_hi = TRUE]
  BY <1>1, <1>2, Zenon
<1>4. /\ Plain(c) /\ NoMemory(c) /\ NoRegister(c) /\ NoJump(c)
      /\ c.write_hi /\ ~c.write_lo /\ c.hilo_src = "RS"
  BY ONLY <1>3 DEF D!DefaultControl, D!ClearControl, Plain, NoMemory, NoRegister, NoJump
<1>. QED  BY <1>4, Zenon DEF c

\* mtlo.
LEMMA DecodedToLo ==
  \A op \in {"MTLO"} :
    LET c == D!Control(op)
    IN  /\ Plain(c) /\ NoMemory(c) /\ NoRegister(c) /\ NoJump(c)
        /\ ~c.write_hi /\ c.write_lo /\ c.hilo_src = "RS"
<1>. TAKE op \in {"MTLO"}
<1>. DEFINE c == D!Control(op)
<1>1. c = D!RtypeControl(op)
  BY DecoderOf DEF D!RtypeOps, D!ShiftSaOps, D!ShiftVarOps, D!TrapOps, D!AluOps, D!MulDivOps
<1>2. D!RtypeControl(op)
        = [D!DefaultControl EXCEPT !.opd_use = "RS", !.hilo_src = "RS", !.write_lo = TRUE]
  BY Zenon DEF D!RtypeControl, D!RtypeOps, D!ShiftSaOps, D!ShiftVarOps, D!TrapOps, D!AluOps,
     D!MulDivOps
<1>. HIDE DEF c
<1>3. c = [D!DefaultControl EXCEPT !.opd_use = "RS", !.hilo_src = "RS", !.write_lo = TRUE]
  BY <1>1, <1>2, Zenon
<1>4. /\ Plain(c) /\ NoMemory(c) /\ NoRegister(c) /\ NoJump(c)
      /\ ~c.write_hi /\ c.write_lo /\ c.hilo_src = "RS"
  BY ONLY <1>3 DEF D!DefaultControl, D!ClearControl, Plain, NoMemory, NoRegister, NoJump
<1>. QED  BY <1>4, Zenon DEF c

\* A product or a quotient.
LEMMA DecodedMulDiv ==
  \A op \in D!MulDivOps :
    LET c == D!Control(op)
    IN  /\ Plain(c) /\ NoMemory(c) /\ NoRegister(c) /\ NoJump(c)
        /\ c.write_hi /\ c.write_lo /\ c.hilo_src = "MULDIV" /\ c.muldiv_funct = op
<1>. TAKE op \in D!MulDivOps
<1>. DEFINE c == D!Control(op)
<1>1. c = D!RtypeControl(op)
  BY DecoderOf DEF D!RtypeOps, D!ShiftSaOps, D!ShiftVarOps, D!TrapOps, D!AluOps, D!MulDivOps
<1>2. D!RtypeControl(op) = [D!DefaultControl EXCEPT !.hilo_src = "MULDIV", !.write_hi = TRUE,
                                       !.write_lo = TRUE, !.muldiv_funct = op]
  BY Zenon DEF D!RtypeControl, D!RtypeOps, D!ShiftSaOps, D!ShiftVarOps, D!TrapOps, D!AluOps,
     D!MulDivOps
<1>. HIDE DEF c
<1>3. c = [D!DefaultControl EXCEPT !.hilo_src = "MULDIV", !.write_hi = TRUE,
                                       !.write_lo = TRUE, !.muldiv_funct = op]
  BY <1>1, <1>2, Zenon
<1>4. /\ Plain(c) /\ NoMemory(c) /\ NoRegister(c) /\ NoJump(c)
      /\ c.write_hi /\ c.write_lo /\ c.hilo_src = "MULDIV" /\ c.muldiv_funct = op
  BY ONLY <1>3 DEF D!DefaultControl, D!ClearControl, Plain, NoMemory, NoRegister, NoJump
<1>. QED  BY <1>4, Zenon DEF c

\* A product that is accumulated.
LEMMA DecodedMulAcc ==
  \A op \in D!MulAccOps :
    LET c == D!Control(op)
    IN  /\ Plain(c) /\ NoMemory(c) /\ NoRegister(c) /\ NoJump(c)
        /\ c.write_hi /\ c.write_lo /\ c.hilo_src = "MULDIV" /\ c.muldiv_funct = op
<1>. TAKE op \in D!MulAccOps
<1>. DEFINE c == D!Control(op)
<1>1. c = D!Special2Control(op)
  BY DecoderOf DEF D!Special2Ops, D!MulAccOps
<1>2. D!Special2Control(op) = [D!DefaultControl EXCEPT !.hilo_src = "MULDIV", !.write_hi = TRUE,
                                       !.write_lo = TRUE, !.muldiv_funct = op]
  BY Zenon DEF D!Special2Control, D!Special2Ops, D!MulAccOps
<1>. HIDE DEF c
<1>3. c = [D!DefaultControl EXCEPT !.hilo_src = "MULDIV", !.write_hi = TRUE,
                                       !.write_lo = TRUE, !.muldiv_funct = op]
  BY <1>1, <1>2, Zenon
<1>4. /\ Plain(c) /\ NoMemory(c) /\ NoRegister(c) /\ NoJump(c)
      /\ c.write_hi /\ c.write_lo /\ c.hilo_src = "MULDIV" /\ c.muldiv_funct = op
  BY ONLY <1>3 DEF D!DefaultControl, D!ClearControl, Plain, NoMemory, NoRegister, NoJump
<1>. QED  BY <1>4, Zenon DEF c

\* mul.
LEMMA DecodedMul ==
  \A op \in {"MUL"} :
    LET c == D!Control(op)
    IN  /\ Plain(c) /\ NoMemory(c) /\ NoProduct(c) /\ NoJump(c)
        /\ Delivers(c, "RD", "MUL") /\ c.muldiv_funct = "MULT"
<1>. TAKE op \in {"MUL"}
<1>. DEFINE c == D!Control(op)
<1>1. c = D!Special2Control(op)
  BY DecoderOf DEF D!Special2Ops, D!MulAccOps
<1>2. D!Special2Control(op) = [D!WriteRd(D!DefaultControl, "MUL") EXCEPT !.muldiv_funct = "MULT"]
  BY Zenon DEF D!Special2Control, D!Special2Ops, D!MulAccOps
<1>. HIDE DEF c
<1>3. c = [D!WriteRd(D!DefaultControl, "MUL") EXCEPT !.muldiv_funct = "MULT"]
  BY <1>1, <1>2, Zenon
<1>4. /\ Plain(c) /\ NoMemory(c) /\ NoProduct(c) /\ NoJump(c)
      /\ Delivers(c, "RD", "MUL") /\ c.muldiv_funct = "MULT"
  BY ONLY <1>3 DEF D!WriteRd, D!DefaultControl, D!ClearControl, Plain, NoMemory, NoProduct, NoJump,
         Delivers
<1>. QED  BY <1>4, Zenon DEF c

\* clz and clo.
LEMMA DecodedCount ==
  \A op \in {"CLZ", "CLO"} :
    LET c == D!Control(op)
    IN  /\ Plain(c) /\ NoMemory(c) /\ NoProduct(c) /\ NoJump(c)
        /\ c.alu_srcA = "RS" /\ Delivers(c, "RD", "ALU") /\ c.alu_funct = D!FunctOf[op]
<1>. TAKE op \in {"CLZ", "CLO"}
<1>. DEFINE c == D!Control(op)
<1>1. c = D!Special2Control(op)
  BY DecoderOf DEF D!Special2Ops, D!MulAccOps
<1>2. D!Special2Control(op) = [D!WriteRd(D!DefaultControl, "ALU") EXCEPT
             !.opd_use = "RS", !.alu_srcA = "RS", !.alu_funct = D!FunctOf[op]]
  BY Zenon DEF D!Special2Control, D!Special2Ops, D!MulAccOps
<1>. HIDE DEF c
<1>3. c = [D!WriteRd(D!DefaultControl, "ALU") EXCEPT
             !.opd_use = "RS", !.alu_srcA = "RS", !.alu_funct = D!FunctOf[op]]
  BY <1>1, <1>2, Zenon
<1>4. /\ Plain(c) /\ NoMemory(c) /\ NoProduct(c) /\ NoJump(c)
      /\ c.alu_srcA = "RS" /\ Delivers(c, "RD", "ALU") /\ c.alu_funct = D!FunctOf[op]
  BY ONLY <1>3 DEF D!WriteRd, D!DefaultControl, D!ClearControl, Plain, NoMemory, NoProduct, NoJump,
         Delivers
<1>. QED  BY <1>4, Zenon DEF c

\* ext.
LEMMA DecodedExt ==
  \A op \in {"EXT"} :
    LET c == D!Control(op)
    IN  /\ Plain(c) /\ NoMemory(c) /\ NoProduct(c) /\ NoJump(c)
        /\ c.alu_srcA = "RS" /\ Delivers(c, "RT", "SPECIAL3") /\ c.alu_funct = "EXTRACT_BIT"
<1>. TAKE op \in {"EXT"}
<1>. DEFINE c == D!Control(op)
<1>1. c = D!Special3Control(op)
  BY DecoderOf DEF D!Special3Ops, D!ByteShuffleOps
<1>2. D!Special3Control(op) = [D!WriteRt(D!DefaultControl, "SPECIAL3") EXCEPT
             !.opd_use = "RS", !.alu_funct = "EXTRACT_BIT", !.alu_srcA = "RS"]
  BY Zenon DEF D!Special3Control, D!Special3Ops, D!ByteShuffleOps
<1>. HIDE DEF c
<1>3. c = [D!WriteRt(D!DefaultControl, "SPECIAL3") EXCEPT
             !.opd_use = "RS", !.alu_funct = "EXTRACT_BIT", !.alu_srcA = "RS"]
  BY <1>1, <1>2, Zenon
<1>4. /\ Plain(c) /\ NoMemory(c) /\ NoProduct(c) /\ NoJump(c)
      /\ c.alu_srcA = "RS" /\ Delivers(c, "RT", "SPECIAL3") /\ c.alu_funct = "EXTRACT_BIT"
  BY ONLY <1>3 DEF D!WriteRt, D!DefaultControl, D!ClearControl, Plain, NoMemory, NoProduct, NoJump,
         Delivers
<1>. QED  BY <1>4, Zenon DEF c

\* ins.
LEMMA DecodedIns ==
  \A op \in {"INS"} :
    LET c == D!Control(op)
    IN  /\ Plain(c) /\ NoMemory(c) /\ NoProduct(c) /\ NoJump(c)
        /\ Takes(c, "RS", "RT") /\ Delivers(c, "RT", "SPECIAL3") /\ c.alu_funct = "INSERT_BIT"
<1>. TAKE op \in {"INS"}
<1>. DEFINE c == D!Control(op)
<1>1. c = D!Special3Control(op)
  BY DecoderOf DEF D!Special3Ops, D!ByteShuffleOps
<1>2. D!Special3Control(op)
        = [D!WriteRt(D!WithSources("RS", "RT"), "SPECIAL3") EXCEPT !.alu_funct = "INSERT_BIT"]
  BY Zenon DEF D!Special3Control, D!Special3Ops, D!ByteShuffleOps
<1>. HIDE DEF c
<1>3. c = [D!WriteRt(D!WithSources("RS", "RT"), "SPECIAL3") EXCEPT !.alu_funct = "INSERT_BIT"]
  BY <1>1, <1>2, Zenon
<1>4. /\ Plain(c) /\ NoMemory(c) /\ NoProduct(c) /\ NoJump(c)
      /\ Takes(c, "RS", "RT") /\ Delivers(c, "RT", "SPECIAL3") /\ c.alu_funct = "INSERT_BIT"
  BY ONLY <1>3 DEF D!WriteRt, D!WithSources, D!DefaultControl, D!ClearControl, Plain, NoMemory,
         NoProduct, NoJump, Takes, Delivers
<1>. QED  BY <1>4, Zenon DEF c

\* A shuffle of bytes.
LEMMA DecodedShuffle ==
  \A op \in D!ByteShuffleOps :
    LET c == D!Control(op)
    IN  /\ Plain(c) /\ NoMemory(c) /\ NoProduct(c) /\ NoJump(c)
        /\ c.alu_srcA = "RT" /\ Delivers(c, "RD", "SPECIAL3") /\ c.alu_funct = D!FunctOf[op]
<1>. TAKE op \in D!ByteShuffleOps
<1>. DEFINE c == D!Control(op)
<1>1. c = D!Special3Control(op)
  BY DecoderOf DEF D!Special3Ops, D!ByteShuffleOps
<1>2. D!Special3Control(op) = [D!WriteRd(D!DefaultControl, "SPECIAL3") EXCEPT
             !.opd_use = "RS", !.alu_srcA = "RT", !.alu_funct = D!FunctOf[op]]
  BY Zenon DEF D!Special3Control, D!Special3Ops, D!ByteShuffleOps
<1>. HIDE DEF c
<1>3. c = [D!WriteRd(D!DefaultControl, "SPECIAL3") EXCEPT
             !.opd_use = "RS", !.alu_srcA = "RT", !.alu_funct = D!FunctOf[op]]
  BY <1>1, <1>2, Zenon
<1>4. /\ Plain(c) /\ NoMemory(c) /\ NoProduct(c) /\ NoJump(c)
      /\ c.alu_srcA = "RT" /\ Delivers(c, "RD", "SPECIAL3") /\ c.alu_funct = D!FunctOf[op]
  BY ONLY <1>3 DEF D!WriteRd, D!DefaultControl, D!ClearControl, Plain, NoMemory, NoProduct, NoJump,
         Delivers
<1>. QED  BY <1>4, Zenon DEF c

\* Adding an immediate.
LEMMA DecodedAddImm ==
  \A op \in {"ADDI", "ADDIU"} :
    LET c == D!Control(op)
    IN  /\ c.exc_chk = (IF op = "ADDI" THEN "OVERFLOW" ELSE "NONE")
        /\ ~c.write_cop0 /\ ~c.write_llbit
        /\ NoMemory(c) /\ NoProduct(c) /\ NoJump(c)
        /\ Takes(c, "RS", "SIGN_IMMED") /\ Delivers(c, "RT", "ALU") /\ c.alu_funct = "ADD"
<1>. TAKE op \in {"ADDI", "ADDIU"}
<1>. DEFINE c == D!Control(op)
<1>1. c = [D!WriteRt(D!WithSources("RS", "SIGN_IMMED"), "ALU") EXCEPT
             !.opd_use = "RS", !.alu_funct = "ADD",
             !.exc_chk = IF op = "ADDI" THEN "OVERFLOW" ELSE "NONE"]
  BY DEF D!Control, D!RtypeOps, D!ShiftSaOps, D!ShiftVarOps, D!TrapOps, D!AluOps, D!MulDivOps,
         D!RegimmOps, D!LtzOps, D!GezOps, D!TrapImmOps, D!LinkBranchOps, D!Cop0Ops,
         D!Special2Ops, D!MulAccOps, D!Special3Ops, D!ByteShuffleOps, D!JumpOps, D!BranchOps,
         D!BranchEqOps, D!BranchNeOps, D!BranchLeOps, D!BranchGtOps, D!LogicImmOps, D!LoadOps,
         D!StoreOps
<1>. HIDE DEF c
<1>4. /\ c.exc_chk = (IF op = "ADDI" THEN "OVERFLOW" ELSE "NONE")
      /\ ~c.write_cop0 /\ ~c.write_llbit
      /\ NoMemory(c) /\ NoProduct(c) /\ NoJump(c)
      /\ Takes(c, "RS", "SIGN_IMMED") /\ Delivers(c, "RT", "ALU") /\ c.alu_funct = "ADD"
  BY ONLY <1>1 DEF D!WriteRt, D!WithSources, D!DefaultControl, D!ClearControl, NoMemory, NoProduct,
         NoJump, Takes, Delivers
<1>. QED  BY <1>4, Zenon DEF c

\* Comparing with an immediate.
LEMMA DecodedSltImm ==
  \A op \in {"SLTI", "SLTIU"} :
    LET c == D!Control(op)
    IN  /\ Plain(c) /\ NoMemory(c) /\ NoProduct(c) /\ NoJump(c)
        /\ Takes(c, "RS", "SIGN_IMMED") /\ Delivers(c, "RT", "FLAG") /\ c.flag_sel = D!FlagOf[op]
<1>. TAKE op \in {"SLTI", "SLTIU"}
<1>. DEFINE c == D!Control(op)
<1>1. c = [D!WriteRt(D!WithSources("RS", "SIGN_IMMED"), "FLAG") EXCEPT
             !.opd_use = "RS", !.flag_sel = D!FlagOf[op]]
  BY DEF D!Control, D!RtypeOps, D!ShiftSaOps, D!ShiftVarOps, D!TrapOps, D!AluOps, D!MulDivOps,
         D!RegimmOps, D!LtzOps, D!GezOps, D!TrapImmOps, D!LinkBranchOps, D!Cop0Ops,
         D!Special2Ops, D!MulAccOps, D!Special3Ops, D!ByteShuffleOps, D!JumpOps, D!BranchOps,
         D!BranchEqOps, D!BranchNeOps, D!BranchLeOps, D!BranchGtOps, D!LogicImmOps, D!LoadOps,
         D!StoreOps
<1>. HIDE DEF c
<1>4. /\ Plain(c) /\ NoMemory(c) /\ NoProduct(c) /\ NoJump(c)
      /\ Takes(c, "RS", "SIGN_IMMED") /\ Delivers(c, "RT", "FLAG") /\ c.flag_sel = D!FlagOf[op]
  BY ONLY <1>1 DEF D!WriteRt, D!WithSources, D!DefaultControl, D!ClearControl, Plain, NoMemory,
         NoProduct, NoJump, Takes, Delivers
<1>. QED  BY <1>4, Zenon DEF c

\* Logic with an immediate.
LEMMA DecodedLogicImm ==
  \A op \in D!LogicImmOps :
    LET c == D!Control(op)
    IN  /\ Plain(c) /\ NoMemory(c) /\ NoProduct(c) /\ NoJump(c)
        /\ Takes(c, "RS", "IMMED") /\ Delivers(c, "RT", "ALU") /\ c.alu_funct = D!FunctOf[op]
<1>. TAKE op \in D!LogicImmOps
<1>. DEFINE c == D!Control(op)
<1>1. c = [D!WriteRt(D!WithSources("RS", "IMMED"), "ALU") EXCEPT
             !.opd_use = "RS", !.alu_funct = D!FunctOf[op]]
  BY DEF D!Control, D!RtypeOps, D!ShiftSaOps, D!ShiftVarOps, D!TrapOps, D!AluOps, D!MulDivOps,
         D!RegimmOps, D!LtzOps, D!GezOps, D!TrapImmOps, D!LinkBranchOps, D!Cop0Ops,
         D!Special2Ops, D!MulAccOps, D!Special3Ops, D!ByteShuffleOps, D!JumpOps, D!BranchOps,
         D!BranchEqOps, D!BranchNeOps, D!BranchLeOps, D!BranchGtOps, D!LogicImmOps, D!LoadOps,
         D!StoreOps
<1>. HIDE DEF c
<1>4. /\ Plain(c) /\ NoMemory(c) /\ NoProduct(c) /\ NoJump(c)
      /\ Takes(c, "RS", "IMMED") /\ Delivers(c, "RT", "ALU") /\ c.alu_funct = D!FunctOf[op]
  BY ONLY <1>1 DEF D!WriteRt, D!WithSources, D!DefaultControl, D!ClearControl, Plain, NoMemory,
         NoProduct, NoJump, Takes, Delivers
<1>. QED  BY <1>4, Zenon DEF c

\* lui.
LEMMA DecodedLui ==
  \A op \in {"LUI"} :
    LET c == D!Control(op)
    IN  /\ Plain(c) /\ NoMemory(c) /\ NoProduct(c) /\ NoJump(c)
        /\ Takes(c, "RS", "UP_IMMED") /\ Delivers(c, "RT", "ALU") /\ c.alu_funct = "ADD"
<1>. TAKE op \in {"LUI"}
<1>. DEFINE c == D!Control(op)
<1>1. c = [D!WriteRt(D!WithSources("RS", "UP_IMMED"), "ALU") EXCEPT
             !.opd_use = "NONE", !.alu_funct = "ADD"]
  BY DEF D!Control, D!RtypeOps, D!ShiftSaOps, D!ShiftVarOps, D!TrapOps, D!AluOps, D!MulDivOps,
         D!RegimmOps, D!LtzOps, D!GezOps, D!TrapImmOps, D!LinkBranchOps, D!Cop0Ops,
         D!Special2Ops, D!MulAccOps, D!Special3Ops, D!ByteShuffleOps, D!JumpOps, D!BranchOps,
         D!BranchEqOps, D!BranchNeOps, D!BranchLeOps, D!BranchGtOps, D!LogicImmOps, D!LoadOps,
         D!StoreOps
<1>. HIDE DEF c
<1>4. /\ Plain(c) /\ NoMemory(c) /\ NoProduct(c) /\ NoJump(c)
      /\ Takes(c, "RS", "UP_IMMED") /\ Delivers(c, "RT", "ALU") /\ c.alu_funct = "ADD"
  BY ONLY <1>1 DEF D!WriteRt, D!WithSources, D!DefaultControl, D!ClearControl, Plain, NoMemory,
         NoProduct, NoJump, Takes, Delivers
<1>. QED  BY <1>4, Zenon DEF c

\* A load.
LEMMA DecodedLoad ==
  \A op \in D!LoadOps :
    LET c == D!Control(op)
    IN  /\ Plain(c) /\ NoProduct(c) /\ NoJump(c)
        /\ c.read_mem /\ c.mem_write_cond = "KEEP" /\ c.read_mode = D!ReadModeOf[op]
        /\ Takes(c, "RS", "SIGN_IMMED") /\ Delivers(c, "RT", "MEM") /\ c.alu_funct = "ADD"
<1>. TAKE op \in D!LoadOps
<1>. DEFINE c == D!Control(op)
<1>1. c = [D!WriteRt(D!MemAddrControl, "MEM") EXCEPT
             !.opd_use = "RS", !.read_mem = TRUE, !.read_mode = D!ReadModeOf[op]]
  BY DEF D!Control, D!RtypeOps, D!ShiftSaOps, D!ShiftVarOps, D!TrapOps, D!AluOps, D!MulDivOps,
         D!RegimmOps, D!LtzOps, D!GezOps, D!TrapImmOps, D!LinkBranchOps, D!Cop0Ops,
         D!Special2Ops, D!MulAccOps, D!Special3Ops, D!ByteShuffleOps, D!JumpOps, D!BranchOps,
         D!BranchEqOps, D!BranchNeOps, D!BranchLeOps, D!BranchGtOps, D!LogicImmOps, D!LoadOps,
         D!StoreOps
<1>. HIDE DEF c
<1>4. /\ Plain(c) /\ NoProduct(c) /\ NoJump(c)
      /\ c.read_mem /\ c.mem_write_cond = "KEEP" /\ c.read_mode = D!ReadModeOf[op]
      /\ Takes(c, "RS", "SIGN_IMMED") /\ Delivers(c, "RT", "MEM") /\ c.alu_funct = "ADD"
  BY ONLY <1>1 DEF D!WriteRt, D!MemAddrControl, D!WithSources, D!DefaultControl, D!ClearControl,
     Plain,
         NoProduct, NoJump, Takes, Delivers
<1>. QED  BY <1>4, Zenon DEF c

\* A store.
LEMMA DecodedStore ==
  \A op \in D!StoreOps :
    LET c == D!Control(op)
    IN  /\ Plain(c) /\ NoProduct(c) /\ NoRegister(c) /\ NoJump(c)
        /\ ~c.read_mem /\ c.mem_write_cond = "ALWAYS" /\ c.write_mode = D!WriteModeOf[op]
        /\ Takes(c, "RS", "SIGN_IMMED") /\ c.alu_funct = "ADD"
<1>. TAKE op \in D!StoreOps
<1>. DEFINE c == D!Control(op)
<1>1. c = [D!MemAddrControl EXCEPT !.mem_write_cond = "ALWAYS",
                                     !.write_mode = D!WriteModeOf[op]]
  BY DEF D!Control, D!RtypeOps, D!ShiftSaOps, D!ShiftVarOps, D!TrapOps, D!AluOps, D!MulDivOps,
         D!RegimmOps, D!LtzOps, D!GezOps, D!TrapImmOps, D!LinkBranchOps, D!Cop0Ops,
         D!Special2Ops, D!MulAccOps, D!Special3Ops, D!ByteShuffleOps, D!JumpOps, D!BranchOps,
         D!BranchEqOps, D!BranchNeOps, D!BranchLeOps, D!BranchGtOps, D!LogicImmOps, D!LoadOps,
         D!StoreOps
<1>. HIDE DEF c
<1>4. /\ Plain(c) /\ NoProduct(c) /\ NoRegister(c) /\ NoJump(c)
      /\ ~c.read_mem /\ c.mem_write_cond = "ALWAYS" /\ c.write_mode = D!WriteModeOf[op]
      /\ Takes(c, "RS", "SIGN_IMMED") /\ c.alu_funct = "ADD"
  BY ONLY <1>1 DEF D!MemAddrControl, D!WithSources, D!DefaultControl, D!ClearControl, Plain,
     NoProduct,
         NoRegister, NoJump, Takes
<1>. QED  BY <1>4, Zenon DEF c

\* beq.
LEMMA DecodedBeq ==
  \A op \in {"BEQ"} :
    LET c == D!Control(op)
    IN  /\ Plain(c) /\ NoMemory(c) /\ NoProduct(c) /\ NoRegister(c)
        /\ Takes(c, "RS", "RT") /\ c.pc_src = "BRANCH" /\ c.flag_sel = "EQ"
<1>. TAKE op \in {"BEQ"}
<1>. DEFINE c == D!Control(op)
<1>1. c = D!BranchWith(D!WithSources("RS", "RT"), "EQ")
  BY DEF D!Control, D!RtypeOps, D!ShiftSaOps, D!ShiftVarOps, D!TrapOps, D!AluOps, D!MulDivOps,
         D!RegimmOps, D!LtzOps, D!GezOps, D!TrapImmOps, D!LinkBranchOps, D!Cop0Ops,
         D!Special2Ops, D!MulAccOps, D!Special3Ops, D!ByteShuffleOps, D!JumpOps, D!BranchOps,
         D!BranchEqOps, D!BranchNeOps, D!BranchLeOps, D!BranchGtOps, D!LogicImmOps, D!LoadOps,
         D!StoreOps
<1>. HIDE DEF c
<1>4. /\ Plain(c) /\ NoMemory(c) /\ NoProduct(c) /\ NoRegister(c)
      /\ Takes(c, "RS", "RT") /\ c.pc_src = "BRANCH" /\ c.flag_sel = "EQ"
  BY ONLY <1>1 DEF D!BranchWith, D!WithSources, D!DefaultControl, D!ClearControl, Plain, NoMemory,
         NoProduct, NoRegister, Takes
<1>. QED  BY <1>4, Zenon DEF c

\* bne.
LEMMA DecodedBne ==
  \A op \in {"BNE"} :
    LET c == D!Control(op)
    IN  /\ Plain(c) /\ NoMemory(c) /\ NoProduct(c) /\ NoRegister(c)
        /\ Takes(c, "RS", "RT") /\ c.pc_src = "BRANCH" /\ c.flag_sel = "NE"
<1>. TAKE op \in {"BNE"}
<1>. DEFINE c == D!Control(op)
<1>1. c = D!BranchWith(D!WithSources("RS", "RT"), "NE")
  BY DEF D!Control, D!RtypeOps, D!ShiftSaOps, D!ShiftVarOps, D!TrapOps, D!AluOps, D!MulDivOps,
         D!RegimmOps, D!LtzOps, D!GezOps, D!TrapImmOps, D!LinkBranchOps, D!Cop0Ops,
         D!Special2Ops, D!MulAccOps, D!Special3Ops, D!ByteShuffleOps, D!JumpOps, D!BranchOps,
         D!BranchEqOps, D!BranchNeOps, D!BranchLeOps, D!BranchGtOps, D!LogicImmOps, D!LoadOps,
         D!StoreOps
<1>. HIDE DEF c
<1>4. /\ Plain(c) /\ NoMemory(c) /\ NoProduct(c) /\ NoRegister(c)
      /\ Takes(c, "RS", "RT") /\ c.pc_src = "BRANCH" /\ c.flag_sel = "NE"
  BY ONLY <1>1 DEF D!BranchWith, D!WithSources, D!DefaultControl, D!ClearControl, Plain, NoMemory,
         NoProduct, NoRegister, Takes
<1>. QED  BY <1>4, Zenon DEF c

\* blez.
LEMMA DecodedBlez ==
  \A op \in {"BLEZ"} :
    LET c == D!Control(op)
    IN  /\ Plain(c) /\ NoMemory(c) /\ NoProduct(c) /\ NoRegister(c)
        /\ Takes(c, "RS", "RT") /\ c.pc_src = "BRANCH" /\ c.flag_sel = "LE"
<1>. TAKE op \in {"BLEZ"}
<1>. DEFINE c == D!Control(op)
<1>1. c = D!BranchWith(D!WithSources("RS", "RT"), "LE")
  BY DEF D!Control, D!RtypeOps, D!ShiftSaOps, D!ShiftVarOps, D!TrapOps, D!AluOps, D!MulDivOps,
         D!RegimmOps, D!LtzOps, D!GezOps, D!TrapImmOps, D!LinkBranchOps, D!Cop0Ops,
         D!Special2Ops, D!MulAccOps, D!Special3Ops, D!ByteShuffleOps, D!JumpOps, D!BranchOps,
         D!BranchEqOps, D!BranchNeOps, D!BranchLeOps, D!BranchGtOps, D!LogicImmOps, D!LoadOps,
         D!StoreOps
<1>. HIDE DEF c
<1>4. /\ Plain(c) /\ NoMemory(c) /\ NoProduct(c) /\ NoRegister(c)
      /\ Takes(c, "RS", "RT") /\ c.pc_src = "BRANCH" /\ c.flag_sel = "LE"
  BY ONLY <1>1 DEF D!BranchWith, D!WithSources, D!DefaultControl, D!ClearControl, Plain, NoMemory,
         NoProduct, NoRegister, Takes
<1>. QED  BY <1>4, Zenon DEF c

\* bgtz.
LEMMA DecodedBgtz ==
  \A op \in {"BGTZ"} :
    LET c == D!Control(op)
    IN  /\ Plain(c) /\ NoMemory(c) /\ NoProduct(c) /\ NoRegister(c)
        /\ Takes(c, "RS", "RT") /\ c.pc_src = "BRANCH" /\ c.flag_sel = "GT"
<1>. TAKE op \in {"BGTZ"}
<1>. DEFINE c == D!Control(op)
<1>1. c = D!BranchWith(D!WithSources("RS", "RT"), "GT")
  BY DEF D!Control, D!RtypeOps, D!ShiftSaOps, D!ShiftVarOps, D!TrapOps, D!AluOps, D!MulDivOps,
         D!RegimmOps, D!LtzOps, D!GezOps, D!TrapImmOps, D!LinkBranchOps, D!Cop0Ops,
         D!Special2Ops, D!MulAccOps, D!Special3Ops, D!ByteShuffleOps, D!JumpOps, D!BranchOps,
         D!BranchEqOps, D!BranchNeOps, D!BranchLeOps, D!BranchGtOps, D!LogicImmOps, D!LoadOps,
         D!StoreOps
<1>. HIDE DEF c
<1>4. /\ Plain(c) /\ NoMemory(c) /\ NoProduct(c) /\ NoRegister(c)
      /\ Takes(c, "RS", "RT") /\ c.pc_src = "BRANCH" /\ c.flag_sel = "GT"
  BY ONLY <1>1 DEF D!BranchWith, D!WithSources, D!DefaultControl, D!ClearControl, Plain, NoMemory,
         NoProduct, NoRegister, Takes
<1>. QED  BY <1>4, Zenon DEF c

\* bltz.
LEMMA DecodedBltz ==
  \A op \in {"BLTZ"} :
    LET c == D!Control(op)
    IN  /\ Plain(c) /\ NoMemory(c) /\ NoProduct(c) /\ NoRegister(c)
        /\ Takes(c, "RS", "ZERO") /\ c.pc_src = "BRANCH" /\ c.flag_sel = "LT"
<1>. TAKE op \in {"BLTZ"}
<1>. DEFINE c == D!Control(op)
<1>1. c = D!RegimmControl(op)
  BY DecoderOf DEF D!RegimmOps, D!LtzOps, D!GezOps, D!TrapImmOps, D!LinkBranchOps
<1>2. D!RegimmControl(op)
        = [D!BranchWith(D!WithSources("RS", "ZERO"), "LT") EXCEPT !.opd_use = "RS"]
  BY Zenon DEF D!RegimmControl, D!RegimmOps, D!LtzOps, D!GezOps, D!TrapImmOps, D!LinkBranchOps
<1>. HIDE DEF c
<1>3. c = [D!BranchWith(D!WithSources("RS", "ZERO"), "LT") EXCEPT !.opd_use = "RS"]
  BY <1>1, <1>2, Zenon
<1>4. /\ Plain(c) /\ NoMemory(c) /\ NoProduct(c) /\ NoRegister(c)
      /\ Takes(c, "RS", "ZERO") /\ c.pc_src = "BRANCH" /\ c.flag_sel = "LT"
  BY ONLY <1>3 DEF D!BranchWith, D!WithSources, D!DefaultControl, D!ClearControl, Plain, NoMemory,
         NoProduct, NoRegister, Takes
<1>. QED  BY <1>4, Zenon DEF c

\* bltzal.
LEMMA DecodedBltzal ==
  \A op \in {"BLTZAL"} :
    LET c == D!Control(op)
    IN  /\ Plain(c) /\ NoMemory(c) /\ NoProduct(c) /\ Delivers(c, "31", "LINKADDR")
        /\ Takes(c, "RS", "ZERO") /\ c.pc_src = "BRANCH" /\ c.flag_sel = "LT"
<1>. TAKE op \in {"BLTZAL"}
<1>. DEFINE c == D!Control(op)
<1>1. c = D!RegimmControl(op)
  BY DecoderOf DEF D!RegimmOps, D!LtzOps, D!GezOps, D!TrapImmOps, D!LinkBranchOps
<1>2. D!RegimmControl(op)
        = D!Link([D!BranchWith(D!WithSources("RS", "ZERO"), "LT") EXCEPT !.opd_use = "RS"])
  BY Zenon DEF D!RegimmControl, D!RegimmOps, D!LtzOps, D!GezOps, D!TrapImmOps, D!LinkBranchOps
<1>. HIDE DEF c
<1>3. c = D!Link([D!BranchWith(D!WithSources("RS", "ZERO"), "LT") EXCEPT !.opd_use = "RS"])
  BY <1>1, <1>2, Zenon
<1>4. /\ Plain(c) /\ NoMemory(c) /\ NoProduct(c) /\ Delivers(c, "31", "LINKADDR")
      /\ Takes(c, "RS", "ZERO") /\ c.pc_src = "BRANCH" /\ c.flag_sel = "LT"
  BY ONLY <1>3 DEF D!Link, D!BranchWith, D!WithSources, D!DefaultControl, D!ClearControl, Plain,
         NoMemory, NoProduct, Takes, Delivers
<1>. QED  BY <1>4, Zenon DEF c

\* bgez.
LEMMA DecodedBgez ==
  \A op \in {"BGEZ"} :
    LET c == D!Control(op)
    IN  /\ Plain(c) /\ NoMemory(c) /\ NoProduct(c) /\ NoRegister(c)
        /\ Takes(c, "RS", "ZERO") /\ c.pc_src = "BRANCH" /\ c.flag_sel = "GE"
<1>. TAKE op \in {"BGEZ"}
<1>. DEFINE c == D!Control(op)
<1>1. c = D!RegimmControl(op)
  BY DecoderOf DEF D!RegimmOps, D!LtzOps, D!GezOps, D!TrapImmOps, D!LinkBranchOps
<1>2. D!RegimmControl(op)
        = [D!BranchWith(D!WithSources("RS", "ZERO"), "GE") EXCEPT !.opd_use = "RS"]
  BY Zenon DEF D!RegimmControl, D!RegimmOps, D!LtzOps, D!GezOps, D!TrapImmOps, D!LinkBranchOps
<1>. HIDE DEF c
<1>3. c = [D!BranchWith(D!WithSources("RS", "ZERO"), "GE") EXCEPT !.opd_use = "RS"]
  BY <1>1, <1>2, Zenon
<1>4. /\ Plain(c) /\ NoMemory(c) /\ NoProduct(c) /\ NoRegister(c)
      /\ Takes(c, "RS", "ZERO") /\ c.pc_src = "BRANCH" /\ c.flag_sel = "GE"
  BY ONLY <1>3 DEF D!BranchWith, D!WithSources, D!DefaultControl, D!ClearControl, Plain, NoMemory,
         NoProduct, NoRegister, Takes
<1>. QED  BY <1>4, Zenon DEF c

\* bgezal.
LEMMA DecodedBgezal ==
  \A op \in {"BGEZAL"} :
    LET c == D!Control(op)
    IN  /\ Plain(c) /\ NoMemory(c) /\ NoProduct(c) /\ Delivers(c, "31", "LINKADDR")
        /\ Takes(c, "RS", "ZERO") /\ c.pc_src = "BRANCH" /\ c.flag_sel = "GE"
<1>. TAKE op \in {"BGEZAL"}
<1>. DEFINE c == D!Control(op)
<1>1. c = D!RegimmControl(op)
  BY DecoderOf DEF D!RegimmOps, D!LtzOps, D!GezOps, D!TrapImmOps, D!LinkBranchOps
<1>2. D!RegimmControl(op)
        = D!Link([D!BranchWith(D!WithSources("RS", "ZERO"), "GE") EXCEPT !.opd_use = "RS"])
  BY Zenon DEF D!RegimmControl, D!RegimmOps, D!LtzOps, D!GezOps, D!TrapImmOps, D!LinkBranchOps
<1>. HIDE DEF c
<1>3. c = D!Link([D!BranchWith(D!WithSources("RS", "ZERO"), "GE") EXCEPT !.opd_use = "RS"])
  BY <1>1, <1>2, Zenon
<1>4. /\ Plain(c) /\ NoMemory(c) /\ NoProduct(c) /\ Delivers(c, "31", "LINKADDR")
      /\ Takes(c, "RS", "ZERO") /\ c.pc_src = "BRANCH" /\ c.flag_sel = "GE"
  BY ONLY <1>3 DEF D!Link, D!BranchWith, D!WithSources, D!DefaultControl, D!ClearControl, Plain,
         NoMemory, NoProduct, Takes, Delivers
<1>. QED  BY <1>4, Zenon DEF c

\* j.
LEMMA DecodedJump ==
  \A op \in {"J"} :
    LET c == D!Control(op)
    IN  /\ Plain(c) /\ NoMemory(c) /\ NoProduct(c) /\ NoRegister(c) /\ c.pc_src = "JUMP"
<1>. TAKE op \in {"J"}
<1>. DEFINE c == D!Control(op)
<1>1. c = [D!DefaultControl EXCEPT !.opd_use = "NONE", !.pc_src = "JUMP"]
  BY DEF D!Control, D!RtypeOps, D!ShiftSaOps, D!ShiftVarOps, D!TrapOps, D!AluOps, D!MulDivOps,
         D!RegimmOps, D!LtzOps, D!GezOps, D!TrapImmOps, D!LinkBranchOps, D!Cop0Ops,
         D!Special2Ops, D!MulAccOps, D!Special3Ops, D!ByteShuffleOps, D!JumpOps, D!BranchOps,
         D!BranchEqOps, D!BranchNeOps, D!BranchLeOps, D!BranchGtOps, D!LogicImmOps, D!LoadOps,
         D!StoreOps
<1>. HIDE DEF c
<1>4. /\ Plain(c) /\ NoMemory(c) /\ NoProduct(c) /\ NoRegister(c) /\ c.pc_src = "JUMP"
  BY ONLY <1>1 DEF D!DefaultControl, D!ClearControl, Plain, NoMemory, NoProduct, NoRegister
<1>. QED  BY <1>4, Zenon DEF c

\* jal.
LEMMA DecodedJumpLink ==
  \A op \in {"JAL"} :
    LET c == D!Control(op)
    IN  /\ Plain(c) /\ NoMemory(c) /\ NoProduct(c) /\ Delivers(c, "31", "LINKADDR")
        /\ c.pc_src = "JUMP"
<1>. TAKE op \in {"JAL"}
<1>. DEFINE c == D!Control(op)
<1>1. c = [D!Link(D!DefaultControl) EXCEPT !.opd_use = "NONE", !.pc_src = "JUMP"]
  BY DEF D!Control, D!RtypeOps, D!ShiftSaOps, D!ShiftVarOps, D!TrapOps, D!AluOps, D!MulDivOps,
         D!RegimmOps, D!LtzOps, D!GezOps, D!TrapImmOps, D!LinkBranchOps, D!Cop0Ops,
         D!Special2Ops, D!MulAccOps, D!Special3Ops, D!ByteShuffleOps, D!JumpOps, D!BranchOps,
         D!BranchEqOps, D!BranchNeOps, D!BranchLeOps, D!BranchGtOps, D!LogicImmOps, D!LoadOps,
         D!StoreOps
<1>. HIDE DEF c
<1>4. /\ Plain(c) /\ NoMemory(c) /\ NoProduct(c) /\ Delivers(c, "31", "LINKADDR")
      /\ c.pc_src = "JUMP"
  BY ONLY <1>1 DEF D!Link, D!DefaultControl, D!ClearControl, Plain, NoMemory, NoProduct, Delivers
<1>. QED  BY <1>4, Zenon DEF c

\* jr.
LEMMA DecodedJumpReg ==
  \A op \in {"JR"} :
    LET c == D!Control(op)
    IN  /\ Plain(c) /\ NoMemory(c) /\ NoProduct(c) /\ NoRegister(c) /\ c.pc_src = "REGISTER"
<1>. TAKE op \in {"JR"}
<1>. DEFINE c == D!Control(op)
<1>1. c = D!RtypeControl(op)
  BY DecoderOf DEF D!RtypeOps, D!ShiftSaOps, D!ShiftVarOps, D!TrapOps, D!AluOps, D!MulDivOps
<1>2. D!RtypeControl(op) = [D!DefaultControl EXCEPT !.opd_use = "RS", !.pc_src = "REGISTER"]
  BY Zenon DEF D!RtypeControl, D!RtypeOps, D!ShiftSaOps, D!ShiftVarOps, D!TrapOps, D!AluOps,
     D!MulDivOps
<1>. HIDE DEF c
<1>3. c = [D!DefaultControl EXCEPT !.opd_use = "RS", !.pc_src = "REGISTER"]
  BY <1>1, <1>2, Zenon
<1>4. /\ Plain(c) /\ NoMemory(c) /\ NoProduct(c) /\ NoRegister(c) /\ c.pc_src = "REGISTER"
  BY ONLY <1>3 DEF D!DefaultControl, D!ClearControl, Plain, NoMemory, NoProduct, NoRegister
<1>. QED  BY <1>4, Zenon DEF c

\* jalr.
LEMMA DecodedJumpRegLink ==
  \A op \in {"JALR"} :
    LET c == D!Control(op)
    IN  /\ Plain(c) /\ NoMemory(c) /\ NoProduct(c) /\ Delivers(c, "RD", "LINKADDR")
        /\ c.pc_src = "REGISTER"
<1>. TAKE op \in {"JALR"}
<1>. DEFINE c == D!Control(op)
<1>1. c = D!RtypeControl(op)
  BY DecoderOf DEF D!RtypeOps, D!ShiftSaOps, D!ShiftVarOps, D!TrapOps, D!AluOps, D!MulDivOps
<1>2. D!RtypeControl(op) = [D!WriteRd(D!DefaultControl, "LINKADDR") EXCEPT
             !.opd_use = "RS", !.pc_src = "REGISTER"]
  BY Zenon DEF D!RtypeControl, D!RtypeOps, D!ShiftSaOps, D!ShiftVarOps, D!TrapOps, D!AluOps,
     D!MulDivOps
<1>. HIDE DEF c
<1>3. c = [D!WriteRd(D!DefaultControl, "LINKADDR") EXCEPT
             !.opd_use = "RS", !.pc_src = "REGISTER"]
  BY <1>1, <1>2, Zenon
<1>4. /\ Plain(c) /\ NoMemory(c) /\ NoProduct(c) /\ Delivers(c, "RD", "LINKADDR")
      /\ c.pc_src = "REGISTER"
  BY ONLY <1>3 DEF D!WriteRd, D!DefaultControl, D!ClearControl, Plain, NoMemory, NoProduct, Delivers
<1>. QED  BY <1>4, Zenon DEF c

----------------------------------------------------------------------------
\* What the stages make of an instruction.

Ctl(i)        == D!Control(i.op)
OpdA(m, i)    == SourceA(Ctl(i), m.gpr[i.rs], m.gpr[i.rt])
OpdB(m, i)    == SourceB(Ctl(i), m.gpr[i.rt], i.imm)
AluOut(m, i)  == Alu(Ctl(i).alu_funct, OpdA(m, i), OpdB(m, i), ShiftAmount(m, i, Ctl(i)))
FlagOut(m, i) == Flag(Ctl(i).flag_sel, OpdA(m, i), OpdB(m, i))
ProductOut(m, i) ==
  MulDiv(Ctl(i).muldiv_funct, m.gpr[i.rs], m.gpr[i.rt], m.hi, m.lo)
TrapOut(m, i) == TrapOf(Ctl(i), OpdA(m, i), OpdB(m, i), AluOut(m, i), FlagOut(m, i))
DataOut(m, i) ==
  RegisterData(m, i, Ctl(i), OpdA(m, i), OpdB(m, i), AluOut(m, i), FlagOut(m, i), ProductOut(m, i))

GprOut(m, i) ==
  IF WritesRegister(Ctl(i), FlagOut(m, i)) THEN SetReg(m.gpr, DestReg(Ctl(i), i), DataOut(m, i))
  ELSE m.gpr
HiOut(m, i) == IF Ctl(i).write_hi THEN HiLoData(m, i, Ctl(i), ProductOut(m, i), 1) ELSE m.hi
LoOut(m, i) == IF Ctl(i).write_lo THEN HiLoData(m, i, Ctl(i), ProductOut(m, i), 2) ELSE m.lo
MemOut(m, i) ==
  LET w   == AluOut(m, i) \div BPW
      idx == AluOut(m, i) % BPW
  IN  IF WritesMemory(m, Ctl(i))
      THEN [m.mem EXCEPT ![w] = Stored(Ctl(i).write_mode, m.mem[w], m.gpr[i.rt], idx)]
      ELSE m.mem

\* The fields of a machine.
LEMMA MachineFields ==
  \A m \in Machine :
    /\ m = [ gpr |-> m.gpr, hi |-> m.hi, lo |-> m.lo, llbit |-> m.llbit, cop0 |-> m.cop0,
             mem |-> m.mem, pc |-> m.pc, trap |-> m.trap, log |-> m.log ]
    /\ m.gpr \in Registers /\ m.hi \in Word /\ m.lo \in Word /\ m.llbit \in BOOLEAN
    /\ m.cop0 \in [{"Status", "Cause", "EPC", "LLAddr"} -> Word] /\ m.mem \in [MemWord -> Word]
    /\ m.pc \in Word /\ m.trap \in {"NONE", "OV", "ADEL", "ADES"} /\ m.log = <<>>
BY DEF Machine

\* The table of the controls holds what the decoder gives.
LEMMA ControlIs == \A i \in Instr : ControlOf[i.op] = Ctl(i)
<1>. TAKE i \in Instr
<1>1. i.op \in D!Op
  BY DEF Instr, SimOp, D!Op, D!RtypeOps, D!ShiftSaOps, D!ShiftVarOps, D!AluOps, D!MulDivOps,
         D!MulAccOps, D!RegimmOps, D!LtzOps, D!GezOps, D!Special2Ops, D!Special3Ops,
         D!ByteShuffleOps, D!MainOps, D!LogicImmOps, D!LoadOps, D!StoreOps, D!JumpOps,
         D!BranchOps, D!BranchEqOps, D!BranchNeOps, D!BranchLeOps, D!BranchGtOps
<1>. QED  BY <1>1, Zenon DEF ControlOf, Ctl

\* What the processor does in an instruction, from what its units deliver.
LEMMA StepIs ==
  \A m : \A i \in Instr :
    CpuStep(m, i) =
      WriteBack(m, i, Ctl(i), OpdA(m, i), OpdB(m, i), AluOut(m, i), FlagOut(m, i), ProductOut(m, i))
<1>. TAKE m
<1>. TAKE i \in Instr
<1>2. ControlOf[i.op] = Ctl(i)
  BY ControlIs, Zenon
<1>. QED  BY <1>2, Zenon DEF CpuStep, Operands, Calculate, OpdA, OpdB, AluOut, FlagOut, ProductOut

\* An instruction that raises an exception changes nothing else.
LEMMA RaisingStep ==
  ASSUME NEW m \in Machine, NEW i \in Instr, NEW to, NEW other, TrapOut(m, i) # "NONE"
  PROVE  Executed(m, i, to, other) = [m EXCEPT !.trap = TrapOut(m, i)]
<1>. DEFINE t == TrapOut(m, i)
<1>1. CpuStep(m, i) = [m EXCEPT !.trap = t]
  BY StepIs, Zenon DEF WriteBack, TrapOut
<1>2. Executed(m, i, to, other)
        = [CpuStep(m, i) EXCEPT !.log = <<>>,
                                !.pc = IF CpuStep(m, i).trap # "NONE" THEN @
                                       ELSE NextPc(m, i, to, other)]
  BY Zenon DEF Executed
<1>3. /\ m = [ gpr |-> m.gpr, hi |-> m.hi, lo |-> m.lo, llbit |-> m.llbit, cop0 |-> m.cop0,
               mem |-> m.mem, pc |-> m.pc, trap |-> m.trap, log |-> m.log ]
      /\ m.log = <<>>
  BY MachineFields, Zenon
<1>4. t # "NONE"
  OBVIOUS
<1>. HIDE DEF t
<1>5. Executed(m, i, to, other) = [m EXCEPT !.trap = t]
  BY ONLY <1>1, <1>2, <1>3, <1>4
<1>. QED  BY <1>5, Zenon DEF t

\* What any other one leaves.
LEMMA WritingStep ==
  ASSUME NEW m \in Machine, NEW i \in Instr, NEW to, NEW other, TrapOut(m, i) = "NONE",
         m.trap = "NONE", ~Ctl(i).write_cop0, ~Ctl(i).write_llbit
  PROVE  Executed(m, i, to, other)
           = [ gpr |-> GprOut(m, i), hi |-> HiOut(m, i), lo |-> LoOut(m, i), llbit |-> m.llbit,
               cop0 |-> m.cop0, mem |-> MemOut(m, i), pc |-> NextPc(m, i, to, other),
               trap |-> "NONE", log |-> <<>> ]
<1>. DEFINE c == Ctl(i)
            y == AluOut(m, i)
            f == FlagOut(m, i)
            product == ProductOut(m, i)
            data == DataOut(m, i)
            n == MemoryAfter(m, i, c, y)
            next == NextPc(m, i, to, other)
<1>1. CpuStep(m, i) = [n EXCEPT
        !.gpr = IF WritesRegister(c, f) THEN SetReg(@, DestReg(c, i), data) ELSE @,
        !.hi    = IF c.write_hi THEN HiLoData(m, i, c, product, 1) ELSE @,
        !.lo    = IF c.write_lo THEN HiLoData(m, i, c, product, 2) ELSE @,
        !.llbit = @ \/ c.write_llbit,
        !.cop0  = IF c.write_cop0
                  THEN [@ EXCEPT ![Cop0Reg(c, i)] = Cop0Data(m, i, c, y)] ELSE @]
  BY StepIs, Zenon DEF WriteBack, TrapOut, DataOut
<1>2. Executed(m, i, to, other)
        = [CpuStep(m, i) EXCEPT !.log = <<>>,
                                !.pc = IF CpuStep(m, i).trap # "NONE" THEN @ ELSE next]
  BY Zenon DEF Executed
<1>3. /\ m = [ gpr |-> m.gpr, hi |-> m.hi, lo |-> m.lo, llbit |-> m.llbit, cop0 |-> m.cop0,
               mem |-> m.mem, pc |-> m.pc, trap |-> m.trap, log |-> m.log ]
      /\ m.llbit \in BOOLEAN
  BY MachineFields, Zenon
<1>4. \E log : n = [ gpr |-> m.gpr, hi |-> m.hi, lo |-> m.lo, llbit |-> m.llbit, cop0 |-> m.cop0,
                     mem |-> MemOut(m, i), pc |-> m.pc, trap |-> m.trap, log |-> log ]
  <2>. DEFINE w   == y \div BPW
              new == Stored(c.write_mode, m.mem[w], m.gpr[i.rt], y % BPW)
  <2>1. CASE ~WritesMemory(m, c)
    <3>1. n = m
      BY <2>1, Zenon DEF MemoryAfter
    <3>2. MemOut(m, i) = m.mem
      BY <2>1, Zenon DEF MemOut
    <3>. HIDE DEF n
    <3>. QED  BY <1>3, <3>1, <3>2
  <2>2. CASE WritesMemory(m, c)
    <3>1. n = StoreTo(m, w, new)
      BY <2>2, Zenon DEF MemoryAfter, Stored
    <3>2. MemOut(m, i) = [m.mem EXCEPT ![w] = new]
      BY <2>2, Zenon DEF MemOut
    <3>. HIDE DEF n, w, new
    <3>. DEFINE log == IF w # DbgAddr \div BPW THEN m.log
                       ELSE Append(m.log, [ funct |-> new, arg0 |-> m.mem[w + 1],
                                            arg1 |-> m.mem[w + 2], gpr |-> m.gpr ])
    <3>3. StoreTo(m, w, new) = [m EXCEPT !.mem = [m.mem EXCEPT ![w] = new], !.log = log]
      BY <1>3 DEF StoreTo
    <3>. HIDE DEF log
    <3>4. n = [ gpr |-> m.gpr, hi |-> m.hi, lo |-> m.lo, llbit |-> m.llbit, cop0 |-> m.cop0,
                mem |-> MemOut(m, i), pc |-> m.pc, trap |-> m.trap, log |-> log ]
      BY ONLY <1>3, <3>1, <3>2, <3>3
    <3>. QED  BY <3>4
  <2>. QED  BY <2>1, <2>2
<1>5. ~c.write_llbit /\ ~c.write_cop0 /\ m.trap = "NONE"
  OBVIOUS
<1>6. /\ GprOut(m, i) = IF WritesRegister(c, f) THEN SetReg(m.gpr, DestReg(c, i), data) ELSE m.gpr
      /\ HiOut(m, i) = IF c.write_hi THEN HiLoData(m, i, c, product, 1) ELSE m.hi
      /\ LoOut(m, i) = IF c.write_lo THEN HiLoData(m, i, c, product, 2) ELSE m.lo
  BY Zenon DEF GprOut, HiOut, LoOut
<1>. HIDE DEF c, y, f, product, data, n, next
<1>7. PICK log : n = [ gpr |-> m.gpr, hi |-> m.hi, lo |-> m.lo, llbit |-> m.llbit, cop0 |-> m.cop0,
                       mem |-> MemOut(m, i), pc |-> m.pc, trap |-> m.trap, log |-> log ]
  BY <1>4
<1>8. CpuStep(m, i) = [ gpr |-> GprOut(m, i), hi |-> HiOut(m, i), lo |-> LoOut(m, i),
                        llbit |-> m.llbit, cop0 |-> m.cop0,
                        mem |-> MemOut(m, i), pc |-> m.pc, trap |-> "NONE", log |-> log ]
  <2>1. /\ n.gpr = m.gpr /\ n.hi = m.hi /\ n.lo = m.lo /\ n.llbit = m.llbit /\ n.cop0 = m.cop0
        /\ n.mem = MemOut(m, i) /\ n.pc = m.pc /\ n.trap = "NONE" /\ n.log = log
    BY ONLY <1>5, <1>7
  <2>. DEFINE gpr  == IF WritesRegister(c, f) THEN SetReg(n.gpr, DestReg(c, i), data) ELSE n.gpr
              hi   == IF c.write_hi THEN HiLoData(m, i, c, product, 1) ELSE n.hi
              lo   == IF c.write_lo THEN HiLoData(m, i, c, product, 2) ELSE n.lo
              llbit == n.llbit \/ c.write_llbit
              cop0 == IF c.write_cop0
                      THEN [n.cop0 EXCEPT ![Cop0Reg(c, i)] = Cop0Data(m, i, c, y)] ELSE n.cop0
  <2>2. CpuStep(m, i) = [n EXCEPT !.gpr = gpr, !.hi = hi, !.lo = lo, !.llbit = llbit, !.cop0 = cop0]
    BY ONLY <1>1, <1>7
  <2>3. gpr = GprOut(m, i) /\ hi = HiOut(m, i) /\ lo = LoOut(m, i) /\ cop0 = m.cop0
    BY <1>5, <1>6, <2>1, Zenon
  <2>4. llbit = m.llbit
    BY <1>3, <1>5, <2>1
  <2>. HIDE DEF gpr, hi, lo, llbit, cop0
  <2>. QED  BY ONLY <1>5, <1>7, <2>2, <2>3, <2>4
<1>9. Executed(m, i, to, other)
           = [ gpr |-> GprOut(m, i), hi |-> HiOut(m, i), lo |-> LoOut(m, i), llbit |-> m.llbit,
               cop0 |-> m.cop0, mem |-> MemOut(m, i), pc |-> next,
               trap |-> "NONE", log |-> <<>> ]
  <2>1. CpuStep(m, i).trap = "NONE"
    BY ONLY <1>8
  <2>2. Executed(m, i, to, other) = [CpuStep(m, i) EXCEPT !.log = <<>>, !.pc = next]
    <3>. DEFINE k == CpuStep(m, i)
    <3>1. (IF k.trap # "NONE" THEN k.pc ELSE next) = next
      BY <2>1, Zenon
    <3>. HIDE DEF k
    <3>. QED  BY <1>2, <3>1 DEF k
  <2>. DEFINE k == CpuStep(m, i)
              e == Executed(m, i, to, other)
              none == <<>>
  <2>3. /\ k = [ gpr |-> GprOut(m, i), hi |-> HiOut(m, i), lo |-> LoOut(m, i), llbit |-> m.llbit,
                cop0 |-> m.cop0, mem |-> MemOut(m, i), pc |-> m.pc, trap |-> "NONE", log |-> log ]
        /\ e = [k EXCEPT !.log = none, !.pc = next]
    BY <1>8, <2>2, Zenon
  <2>. HIDE DEF k, e, none
  <2>4. e = [ gpr |-> GprOut(m, i), hi |-> HiOut(m, i), lo |-> LoOut(m, i), llbit |-> m.llbit,
              cop0 |-> m.cop0, mem |-> MemOut(m, i), pc |-> next, trap |-> "NONE", log |-> none ]
    BY ONLY <2>3
  <2>. QED  BY <2>4, Zenon DEF e, none
<1>. QED  BY <1>9, Zenon DEF next

\* Where the instructions differ: which raise exceptions, use the memory, write hi or
\* lo, go elsewhere, and write no register.
ProductOps  == D!MulDivOps \cup D!MulAccOps \cup {"MTHI", "MTLO"}
GoingOps    == D!JumpOps \cup {"JR", "JALR", "BEQ", "BNE", "BLEZ", "BGTZ", "BLTZ", "BLTZAL", "BGEZ",
                               "BGEZAL"}
SilentOps   == ProductOps \cup D!StoreOps \cup (GoingOps \ {"JAL", "JALR", "BLTZAL", "BGEZAL"})
Summary(op, c) ==
  /\ ~c.write_cop0 /\ ~c.write_llbit
  /\ op \notin D!LoadOps \cup D!StoreOps => NoMemory(c)
  /\ op \notin {"ADD", "SUB", "ADDI"} => c.exc_chk = "NONE"
  /\ op \notin ProductOps => NoProduct(c)
  /\ op \notin GoingOps => NoJump(c)
  /\ op \in SilentOps => NoRegister(c)

\* Of every instruction the simulator defines, the control is as summed up.
LEMMA Summaries == \A op \in SimOp : Summary(op, D!Control(op))
<1>1. \A op \in D!ShiftSaOps : Summary(op, D!Control(op))
  <2>. TAKE op \in D!ShiftSaOps
  <2>. DEFINE c == D!Control(op)
  <2>1. Plain(c) /\ NoMemory(c) /\ NoProduct(c) /\ NoJump(c)
    BY DecodedShiftSa, Zenon
  <2>. HIDE DEF c
  <2>2. Summary(op, c)
    BY <2>1 DEF Summary, ProductOps, GoingOps, SilentOps, Plain, NoRegister, D!ShiftSaOps,
           D!ShiftVarOps, D!AluOps, D!MulDivOps, D!MulAccOps, D!ByteShuffleOps, D!LogicImmOps,
           D!LoadOps, D!StoreOps, D!JumpOps
  <2>. QED  BY <2>2, Zenon DEF c
<1>2. \A op \in D!ShiftVarOps : Summary(op, D!Control(op))
  <2>. TAKE op \in D!ShiftVarOps
  <2>. DEFINE c == D!Control(op)
  <2>1. Plain(c) /\ NoMemory(c) /\ NoProduct(c) /\ NoJump(c)
    BY DecodedShiftVar, Zenon
  <2>. HIDE DEF c
  <2>2. Summary(op, c)
    BY <2>1 DEF Summary, ProductOps, GoingOps, SilentOps, Plain, NoRegister, D!ShiftSaOps,
           D!ShiftVarOps, D!AluOps, D!MulDivOps, D!MulAccOps, D!ByteShuffleOps, D!LogicImmOps,
           D!LoadOps, D!StoreOps, D!JumpOps
  <2>. QED  BY <2>2, Zenon DEF c
<1>3. \A op \in D!AluOps : Summary(op, D!Control(op))
  <2>. TAKE op \in D!AluOps
  <2>. DEFINE c == D!Control(op)
  <2>1. c.exc_chk = (IF op \in {"ADD", "SUB"} THEN "OVERFLOW" ELSE "NONE") /\ ~c.write_cop0
        /\ ~c.write_llbit /\ NoMemory(c) /\ NoProduct(c) /\ NoJump(c)
    BY DecodedAlu, Zenon
  <2>. HIDE DEF c
  <2>2. Summary(op, c)
    BY <2>1 DEF Summary, ProductOps, GoingOps, SilentOps, Plain, NoRegister, D!ShiftSaOps,
           D!ShiftVarOps, D!AluOps, D!MulDivOps, D!MulAccOps, D!ByteShuffleOps, D!LogicImmOps,
           D!LoadOps, D!StoreOps, D!JumpOps
  <2>. QED  BY <2>2, Zenon DEF c
<1>4. \A op \in {"MOVZ", "MOVN"} : Summary(op, D!Control(op))
  <2>. TAKE op \in {"MOVZ", "MOVN"}
  <2>. DEFINE c == D!Control(op)
  <2>1. Plain(c) /\ NoMemory(c) /\ NoProduct(c) /\ NoJump(c)
    BY DecodedMoved, Zenon
  <2>. HIDE DEF c
  <2>2. Summary(op, c)
    BY <2>1 DEF Summary, ProductOps, GoingOps, SilentOps, Plain, NoRegister, D!ShiftSaOps,
           D!ShiftVarOps, D!AluOps, D!MulDivOps, D!MulAccOps, D!ByteShuffleOps, D!LogicImmOps,
           D!LoadOps, D!StoreOps, D!JumpOps
  <2>. QED  BY <2>2, Zenon DEF c
<1>5. \A op \in {"SLT", "SLTU"} : Summary(op, D!Control(op))
  <2>. TAKE op \in {"SLT", "SLTU"}
  <2>. DEFINE c == D!Control(op)
  <2>1. Plain(c) /\ NoMemory(c) /\ NoProduct(c) /\ NoJump(c)
    BY DecodedSlt, Zenon
  <2>. HIDE DEF c
  <2>2. Summary(op, c)
    BY <2>1 DEF Summary, ProductOps, GoingOps, SilentOps, Plain, NoRegister, D!ShiftSaOps,
           D!ShiftVarOps, D!AluOps, D!MulDivOps, D!MulAccOps, D!ByteShuffleOps, D!LogicImmOps,
           D!LoadOps, D!StoreOps, D!JumpOps
  <2>. QED  BY <2>2, Zenon DEF c
<1>6. \A op \in {"MFHI"} : Summary(op, D!Control(op))
  <2>. TAKE op \in {"MFHI"}
  <2>. DEFINE c == D!Control(op)
  <2>1. Plain(c) /\ NoMemory(c) /\ NoProduct(c) /\ NoJump(c)
    BY DecodedFromHi, Zenon
  <2>. HIDE DEF c
  <2>2. Summary(op, c)
    BY <2>1 DEF Summary, ProductOps, GoingOps, SilentOps, Plain, NoRegister, D!ShiftSaOps,
           D!ShiftVarOps, D!AluOps, D!MulDivOps, D!MulAccOps, D!ByteShuffleOps, D!LogicImmOps,
           D!LoadOps, D!StoreOps, D!JumpOps
  <2>. QED  BY <2>2, Zenon DEF c
<1>7. \A op \in {"MFLO"} : Summary(op, D!Control(op))
  <2>. TAKE op \in {"MFLO"}
  <2>. DEFINE c == D!Control(op)
  <2>1. Plain(c) /\ NoMemory(c) /\ NoProduct(c) /\ NoJump(c)
    BY DecodedFromLo, Zenon
  <2>. HIDE DEF c
  <2>2. Summary(op, c)
    BY <2>1 DEF Summary, ProductOps, GoingOps, SilentOps, Plain, NoRegister, D!ShiftSaOps,
           D!ShiftVarOps, D!AluOps, D!MulDivOps, D!MulAccOps, D!ByteShuffleOps, D!LogicImmOps,
           D!LoadOps, D!StoreOps, D!JumpOps
  <2>. QED  BY <2>2, Zenon DEF c
<1>8. \A op \in {"MTHI"} : Summary(op, D!Control(op))
  <2>. TAKE op \in {"MTHI"}
  <2>. DEFINE c == D!Control(op)
  <2>1. Plain(c) /\ NoMemory(c) /\ NoRegister(c) /\ NoJump(c)
    BY DecodedToHi, Zenon
  <2>. HIDE DEF c
  <2>2. Summary(op, c)
    BY <2>1 DEF Summary, ProductOps, GoingOps, SilentOps, Plain, NoRegister, D!ShiftSaOps,
           D!ShiftVarOps, D!AluOps, D!MulDivOps, D!MulAccOps, D!ByteShuffleOps, D!LogicImmOps,
           D!LoadOps, D!StoreOps, D!JumpOps
  <2>. QED  BY <2>2, Zenon DEF c
<1>9. \A op \in {"MTLO"} : Summary(op, D!Control(op))
  <2>. TAKE op \in {"MTLO"}
  <2>. DEFINE c == D!Control(op)
  <2>1. Plain(c) /\ NoMemory(c) /\ NoRegister(c) /\ NoJump(c)
    BY DecodedToLo, Zenon
  <2>. HIDE DEF c
  <2>2. Summary(op, c)
    BY <2>1 DEF Summary, ProductOps, GoingOps, SilentOps, Plain, NoRegister, D!ShiftSaOps,
           D!ShiftVarOps, D!AluOps, D!MulDivOps, D!MulAccOps, D!ByteShuffleOps, D!LogicImmOps,
           D!LoadOps, D!StoreOps, D!JumpOps
  <2>. QED  BY <2>2, Zenon DEF c
<1>10. \A op \in D!MulDivOps : Summary(op, D!Control(op))
  <2>. TAKE op \in D!MulDivOps
  <2>. DEFINE c == D!Control(op)
  <2>1. Plain(c) /\ NoMemory(c) /\ NoRegister(c) /\ NoJump(c)
    BY DecodedMulDiv, Zenon
  <2>. HIDE DEF c
  <2>2. Summary(op, c)
    BY <2>1 DEF Summary, ProductOps, GoingOps, SilentOps, Plain, NoRegister, D!ShiftSaOps,
           D!ShiftVarOps, D!AluOps, D!MulDivOps, D!MulAccOps, D!ByteShuffleOps, D!LogicImmOps,
           D!LoadOps, D!StoreOps, D!JumpOps
  <2>. QED  BY <2>2, Zenon DEF c
<1>11. \A op \in D!MulAccOps : Summary(op, D!Control(op))
  <2>. TAKE op \in D!MulAccOps
  <2>. DEFINE c == D!Control(op)
  <2>1. Plain(c) /\ NoMemory(c) /\ NoRegister(c) /\ NoJump(c)
    BY DecodedMulAcc, Zenon
  <2>. HIDE DEF c
  <2>2. Summary(op, c)
    BY <2>1 DEF Summary, ProductOps, GoingOps, SilentOps, Plain, NoRegister, D!ShiftSaOps,
           D!ShiftVarOps, D!AluOps, D!MulDivOps, D!MulAccOps, D!ByteShuffleOps, D!LogicImmOps,
           D!LoadOps, D!StoreOps, D!JumpOps
  <2>. QED  BY <2>2, Zenon DEF c
<1>12. \A op \in {"MUL"} : Summary(op, D!Control(op))
  <2>. TAKE op \in {"MUL"}
  <2>. DEFINE c == D!Control(op)
  <2>1. Plain(c) /\ NoMemory(c) /\ NoProduct(c) /\ NoJump(c)
    BY DecodedMul, Zenon
  <2>. HIDE DEF c
  <2>2. Summary(op, c)
    BY <2>1 DEF Summary, ProductOps, GoingOps, SilentOps, Plain, NoRegister, D!ShiftSaOps,
           D!ShiftVarOps, D!AluOps, D!MulDivOps, D!MulAccOps, D!ByteShuffleOps, D!LogicImmOps,
           D!LoadOps, D!StoreOps, D!JumpOps
  <2>. QED  BY <2>2, Zenon DEF c
<1>13. \A op \in {"CLZ", "CLO"} : Summary(op, D!Control(op))
  <2>. TAKE op \in {"CLZ", "CLO"}
  <2>. DEFINE c == D!Control(op)
  <2>1. Plain(c) /\ NoMemory(c) /\ NoProduct(c) /\ NoJump(c)
    BY DecodedCount, Zenon
  <2>. HIDE DEF c
  <2>2. Summary(op, c)
    BY <2>1 DEF Summary, ProductOps, GoingOps, SilentOps, Plain, NoRegister, D!ShiftSaOps,
           D!ShiftVarOps, D!AluOps, D!MulDivOps, D!MulAccOps, D!ByteShuffleOps, D!LogicImmOps,
           D!LoadOps, D!StoreOps, D!JumpOps
  <2>. QED  BY <2>2, Zenon DEF c
<1>14. \A op \in {"EXT"} : Summary(op, D!Control(op))
  <2>. TAKE op \in {"EXT"}
  <2>. DEFINE c == D!Control(op)
  <2>1. Plain(c) /\ NoMemory(c) /\ NoProduct(c) /\ NoJump(c)
    BY DecodedExt, Zenon
  <2>. HIDE DEF c
  <2>2. Summary(op, c)
    BY <2>1 DEF Summary, ProductOps, GoingOps, SilentOps, Plain, NoRegister, D!ShiftSaOps,
           D!ShiftVarOps, D!AluOps, D!MulDivOps, D!MulAccOps, D!ByteShuffleOps, D!LogicImmOps,
           D!LoadOps, D!StoreOps, D!JumpOps
  <2>. QED  BY <2>2, Zenon DEF c
<1>15. \A op \in {"INS"} : Summary(op, D!Control(op))
  <2>. TAKE op \in {"INS"}
  <2>. DEFINE c == D!Control(op)
  <2>1. Plain(c) /\ NoMemory(c) /\ NoProduct(c) /\ NoJump(c)
    BY DecodedIns, Zenon
  <2>. HIDE DEF c
  <2>2. Summary(op, c)
    BY <2>1 DEF Summary, ProductOps, GoingOps, SilentOps, Plain, NoRegister, D!ShiftSaOps,
           D!ShiftVarOps, D!AluOps, D!MulDivOps, D!MulAccOps, D!ByteShuffleOps, D!LogicImmOps,
           D!LoadOps, D!StoreOps, D!JumpOps
  <2>. QED  BY <2>2, Zenon DEF c
<1>16. \A op \in D!ByteShuffleOps : Summary(op, D!Control(op))
  <2>. TAKE op \in D!ByteShuffleOps
  <2>. DEFINE c == D!Control(op)
  <2>1. Plain(c) /\ NoMemory(c) /\ NoProduct(c) /\ NoJump(c)
    BY DecodedShuffle, Zenon
  <2>. HIDE DEF c
  <2>2. Summary(op, c)
    BY <2>1 DEF Summary, ProductOps, GoingOps, SilentOps, Plain, NoRegister, D!ShiftSaOps,
           D!ShiftVarOps, D!AluOps, D!MulDivOps, D!MulAccOps, D!ByteShuffleOps, D!LogicImmOps,
           D!LoadOps, D!StoreOps, D!JumpOps
  <2>. QED  BY <2>2, Zenon DEF c
<1>17. \A op \in {"ADDI", "ADDIU"} : Summary(op, D!Control(op))
  <2>. TAKE op \in {"ADDI", "ADDIU"}
  <2>. DEFINE c == D!Control(op)
  <2>1. c.exc_chk = (IF op = "ADDI" THEN "OVERFLOW" ELSE "NONE") /\ ~c.write_cop0 /\ ~c.write_llbit
        /\ NoMemory(c) /\ NoProduct(c) /\ NoJump(c)
    BY DecodedAddImm, Zenon
  <2>. HIDE DEF c
  <2>2. Summary(op, c)
    BY <2>1 DEF Summary, ProductOps, GoingOps, SilentOps, Plain, NoRegister, D!ShiftSaOps,
           D!ShiftVarOps, D!AluOps, D!MulDivOps, D!MulAccOps, D!ByteShuffleOps, D!LogicImmOps,
           D!LoadOps, D!StoreOps, D!JumpOps
  <2>. QED  BY <2>2, Zenon DEF c
<1>18. \A op \in {"SLTI", "SLTIU"} : Summary(op, D!Control(op))
  <2>. TAKE op \in {"SLTI", "SLTIU"}
  <2>. DEFINE c == D!Control(op)
  <2>1. Plain(c) /\ NoMemory(c) /\ NoProduct(c) /\ NoJump(c)
    BY DecodedSltImm, Zenon
  <2>. HIDE DEF c
  <2>2. Summary(op, c)
    BY <2>1 DEF Summary, ProductOps, GoingOps, SilentOps, Plain, NoRegister, D!ShiftSaOps,
           D!ShiftVarOps, D!AluOps, D!MulDivOps, D!MulAccOps, D!ByteShuffleOps, D!LogicImmOps,
           D!LoadOps, D!StoreOps, D!JumpOps
  <2>. QED  BY <2>2, Zenon DEF c
<1>19. \A op \in D!LogicImmOps : Summary(op, D!Control(op))
  <2>. TAKE op \in D!LogicImmOps
  <2>. DEFINE c == D!Control(op)
  <2>1. Plain(c) /\ NoMemory(c) /\ NoProduct(c) /\ NoJump(c)
    BY DecodedLogicImm, Zenon
  <2>. HIDE DEF c
  <2>2. Summary(op, c)
    BY <2>1 DEF Summary, ProductOps, GoingOps, SilentOps, Plain, NoRegister, D!ShiftSaOps,
           D!ShiftVarOps, D!AluOps, D!MulDivOps, D!MulAccOps, D!ByteShuffleOps, D!LogicImmOps,
           D!LoadOps, D!StoreOps, D!JumpOps
  <2>. QED  BY <2>2, Zenon DEF c
<1>20. \A op \in {"LUI"} : Summary(op, D!Control(op))
  <2>. TAKE op \in {"LUI"}
  <2>. DEFINE c == D!Control(op)
  <2>1. Plain(c) /\ NoMemory(c) /\ NoProduct(c) /\ NoJump(c)
    BY DecodedLui, Zenon
  <2>. HIDE DEF c
  <2>2. Summary(op, c)
    BY <2>1 DEF Summary, ProductOps, GoingOps, SilentOps, Plain, NoRegister, D!ShiftSaOps,
           D!ShiftVarOps, D!AluOps, D!MulDivOps, D!MulAccOps, D!ByteShuffleOps, D!LogicImmOps,
           D!LoadOps, D!StoreOps, D!JumpOps
  <2>. QED  BY <2>2, Zenon DEF c
<1>21. \A op \in D!LoadOps : Summary(op, D!Control(op))
  <2>. TAKE op \in D!LoadOps
  <2>. DEFINE c == D!Control(op)
  <2>1. Plain(c) /\ NoProduct(c) /\ NoJump(c)
    BY DecodedLoad, Zenon
  <2>. HIDE DEF c
  <2>2. Summary(op, c)
    BY <2>1 DEF Summary, ProductOps, GoingOps, SilentOps, Plain, NoRegister, D!ShiftSaOps,
           D!ShiftVarOps, D!AluOps, D!MulDivOps, D!MulAccOps, D!ByteShuffleOps, D!LogicImmOps,
           D!LoadOps, D!StoreOps, D!JumpOps
  <2>. QED  BY <2>2, Zenon DEF c
<1>22. \A op \in D!StoreOps : Summary(op, D!Control(op))
  <2>. TAKE op \in D!StoreOps
  <2>. DEFINE c == D!Control(op)
  <2>1. Plain(c) /\ NoProduct(c) /\ NoRegister(c) /\ NoJump(c)
    BY DecodedStore, Zenon
  <2>. HIDE DEF c
  <2>2. Summary(op, c)
    BY <2>1 DEF Summary, ProductOps, GoingOps, SilentOps, Plain, NoRegister, D!ShiftSaOps,
           D!ShiftVarOps, D!AluOps, D!MulDivOps, D!MulAccOps, D!ByteShuffleOps, D!LogicImmOps,
           D!LoadOps, D!StoreOps, D!JumpOps
  <2>. QED  BY <2>2, Zenon DEF c
<1>23. \A op \in {"BEQ"} : Summary(op, D!Control(op))
  <2>. TAKE op \in {"BEQ"}
  <2>. DEFINE c == D!Control(op)
  <2>1. Plain(c) /\ NoMemory(c) /\ NoProduct(c) /\ NoRegister(c)
    BY DecodedBeq, Zenon
  <2>. HIDE DEF c
  <2>2. Summary(op, c)
    BY <2>1 DEF Summary, ProductOps, GoingOps, SilentOps, Plain, NoRegister, D!ShiftSaOps,
           D!ShiftVarOps, D!AluOps, D!MulDivOps, D!MulAccOps, D!ByteShuffleOps, D!LogicImmOps,
           D!LoadOps, D!StoreOps, D!JumpOps
  <2>. QED  BY <2>2, Zenon DEF c
<1>24. \A op \in {"BNE"} : Summary(op, D!Control(op))
  <2>. TAKE op \in {"BNE"}
  <2>. DEFINE c == D!Control(op)
  <2>1. Plain(c) /\ NoMemory(c) /\ NoProduct(c) /\ NoRegister(c)
    BY DecodedBne, Zenon
  <2>. HIDE DEF c
  <2>2. Summary(op, c)
    BY <2>1 DEF Summary, ProductOps, GoingOps, SilentOps, Plain, NoRegister, D!ShiftSaOps,
           D!ShiftVarOps, D!AluOps, D!MulDivOps, D!MulAccOps, D!ByteShuffleOps, D!LogicImmOps,
           D!LoadOps, D!StoreOps, D!JumpOps
  <2>. QED  BY <2>2, Zenon DEF c
<1>25. \A op \in {"BLEZ"} : Summary(op, D!Control(op))
  <2>. TAKE op \in {"BLEZ"}
  <2>. DEFINE c == D!Control(op)
  <2>1. Plain(c) /\ NoMemory(c) /\ NoProduct(c) /\ NoRegister(c)
    BY DecodedBlez, Zenon
  <2>. HIDE DEF c
  <2>2. Summary(op, c)
    BY <2>1 DEF Summary, ProductOps, GoingOps, SilentOps, Plain, NoRegister, D!ShiftSaOps,
           D!ShiftVarOps, D!AluOps, D!MulDivOps, D!MulAccOps, D!ByteShuffleOps, D!LogicImmOps,
           D!LoadOps, D!StoreOps, D!JumpOps
  <2>. QED  BY <2>2, Zenon DEF c
<1>26. \A op \in {"BGTZ"} : Summary(op, D!Control(op))
  <2>. TAKE op \in {"BGTZ"}
  <2>. DEFINE c == D!Control(op)
  <2>1. Plain(c) /\ NoMemory(c) /\ NoProduct(c) /\ NoRegister(c)
    BY DecodedBgtz, Zenon
  <2>. HIDE DEF c
  <2>2. Summary(op, c)
    BY <2>1 DEF Summary, ProductOps, GoingOps, SilentOps, Plain, NoRegister, D!ShiftSaOps,
           D!ShiftVarOps, D!AluOps, D!MulDivOps, D!MulAccOps, D!ByteShuffleOps, D!LogicImmOps,
           D!LoadOps, D!StoreOps, D!JumpOps
  <2>. QED  BY <2>2, Zenon DEF c
<1>27. \A op \in {"BLTZ"} : Summary(op, D!Control(op))
  <2>. TAKE op \in {"BLTZ"}
  <2>. DEFINE c == D!Control(op)
  <2>1. Plain(c) /\ NoMemory(c) /\ NoProduct(c) /\ NoRegister(c)
    BY DecodedBltz, Zenon
  <2>. HIDE DEF c
  <2>2. Summary(op, c)
    BY <2>1 DEF Summary, ProductOps, GoingOps, SilentOps, Plain, NoRegister, D!ShiftSaOps,
           D!ShiftVarOps, D!AluOps, D!MulDivOps, D!MulAccOps, D!ByteShuffleOps, D!LogicImmOps,
           D!LoadOps, D!StoreOps, D!JumpOps
  <2>. QED  BY <2>2, Zenon DEF c
<1>28. \A op \in {"BLTZAL"} : Summary(op, D!Control(op))
  <2>. TAKE op \in {"BLTZAL"}
  <2>. DEFINE c == D!Control(op)
  <2>1. Plain(c) /\ NoMemory(c) /\ NoProduct(c)
    BY DecodedBltzal, Zenon
  <2>. HIDE DEF c
  <2>2. Summary(op, c)
    BY <2>1 DEF Summary, ProductOps, GoingOps, SilentOps, Plain, NoRegister, D!ShiftSaOps,
           D!ShiftVarOps, D!AluOps, D!MulDivOps, D!MulAccOps, D!ByteShuffleOps, D!LogicImmOps,
           D!LoadOps, D!StoreOps, D!JumpOps
  <2>. QED  BY <2>2, Zenon DEF c
<1>29. \A op \in {"BGEZ"} : Summary(op, D!Control(op))
  <2>. TAKE op \in {"BGEZ"}
  <2>. DEFINE c == D!Control(op)
  <2>1. Plain(c) /\ NoMemory(c) /\ NoProduct(c) /\ NoRegister(c)
    BY DecodedBgez, Zenon
  <2>. HIDE DEF c
  <2>2. Summary(op, c)
    BY <2>1 DEF Summary, ProductOps, GoingOps, SilentOps, Plain, NoRegister, D!ShiftSaOps,
           D!ShiftVarOps, D!AluOps, D!MulDivOps, D!MulAccOps, D!ByteShuffleOps, D!LogicImmOps,
           D!LoadOps, D!StoreOps, D!JumpOps
  <2>. QED  BY <2>2, Zenon DEF c
<1>30. \A op \in {"BGEZAL"} : Summary(op, D!Control(op))
  <2>. TAKE op \in {"BGEZAL"}
  <2>. DEFINE c == D!Control(op)
  <2>1. Plain(c) /\ NoMemory(c) /\ NoProduct(c)
    BY DecodedBgezal, Zenon
  <2>. HIDE DEF c
  <2>2. Summary(op, c)
    BY <2>1 DEF Summary, ProductOps, GoingOps, SilentOps, Plain, NoRegister, D!ShiftSaOps,
           D!ShiftVarOps, D!AluOps, D!MulDivOps, D!MulAccOps, D!ByteShuffleOps, D!LogicImmOps,
           D!LoadOps, D!StoreOps, D!JumpOps
  <2>. QED  BY <2>2, Zenon DEF c
<1>31. \A op \in {"J"} : Summary(op, D!Control(op))
  <2>. TAKE op \in {"J"}
  <2>. DEFINE c == D!Control(op)
  <2>1. Plain(c) /\ NoMemory(c) /\ NoProduct(c) /\ NoRegister(c)
    BY DecodedJump, Zenon
  <2>. HIDE DEF c
  <2>2. Summary(op, c)
    BY <2>1 DEF Summary, ProductOps, GoingOps, SilentOps, Plain, NoRegister, D!ShiftSaOps,
           D!ShiftVarOps, D!AluOps, D!MulDivOps, D!MulAccOps, D!ByteShuffleOps, D!LogicImmOps,
           D!LoadOps, D!StoreOps, D!JumpOps
  <2>. QED  BY <2>2, Zenon DEF c
<1>32. \A op \in {"JAL"} : Summary(op, D!Control(op))
  <2>. TAKE op \in {"JAL"}
  <2>. DEFINE c == D!Control(op)
  <2>1. Plain(c) /\ NoMemory(c) /\ NoProduct(c)
    BY DecodedJumpLink, Zenon
  <2>. HIDE DEF c
  <2>2. Summary(op, c)
    BY <2>1 DEF Summary, ProductOps, GoingOps, SilentOps, Plain, NoRegister, D!ShiftSaOps,
           D!ShiftVarOps, D!AluOps, D!MulDivOps, D!MulAccOps, D!ByteShuffleOps, D!LogicImmOps,
           D!LoadOps, D!StoreOps, D!JumpOps
  <2>. QED  BY <2>2, Zenon DEF c
<1>33. \A op \in {"JR"} : Summary(op, D!Control(op))
  <2>. TAKE op \in {"JR"}
  <2>. DEFINE c == D!Control(op)
  <2>1. Plain(c) /\ NoMemory(c) /\ NoProduct(c) /\ NoRegister(c)
    BY DecodedJumpReg, Zenon
  <2>. HIDE DEF c
  <2>2. Summary(op, c)
    BY <2>1 DEF Summary, ProductOps, GoingOps, SilentOps, Plain, NoRegister, D!ShiftSaOps,
           D!ShiftVarOps, D!AluOps, D!MulDivOps, D!MulAccOps, D!ByteShuffleOps, D!LogicImmOps,
           D!LoadOps, D!StoreOps, D!JumpOps
  <2>. QED  BY <2>2, Zenon DEF c
<1>34. \A op \in {"JALR"} : Summary(op, D!Control(op))
  <2>. TAKE op \in {"JALR"}
  <2>. DEFINE c == D!Control(op)
  <2>1. Plain(c) /\ NoMemory(c) /\ NoProduct(c)
    BY DecodedJumpRegLink, Zenon
  <2>. HIDE DEF c
  <2>2. Summary(op, c)
    BY <2>1 DEF Summary, ProductOps, GoingOps, SilentOps, Plain, NoRegister, D!ShiftSaOps,
           D!ShiftVarOps, D!AluOps, D!MulDivOps, D!MulAccOps, D!ByteShuffleOps, D!LogicImmOps,
           D!LoadOps, D!StoreOps, D!JumpOps
  <2>. QED  BY <2>2, Zenon DEF c
<1>. QED
  BY <1>1, <1>2, <1>3, <1>4, <1>5, <1>6, <1>7, <1>8, <1>9, <1>10, <1>11, <1>12, <1>13,
     <1>14, <1>15, <1>16, <1>17, <1>18, <1>19, <1>20, <1>21, <1>22, <1>23, <1>24, <1>25,
     <1>26, <1>27, <1>28, <1>29, <1>30, <1>31, <1>32, <1>33, <1>34 DEF SimOp,
     D!ShiftSaOps, D!ShiftVarOps, D!AluOps, D!MulDivOps, D!MulAccOps, D!ByteShuffleOps,
     D!LogicImmOps, D!LoadOps, D!StoreOps, D!JumpOps

\* The fields of an instruction.
LEMMA InstrFields ==
  \A i \in Instr :
    /\ i.op \in SimOp /\ i.rs \in Reg /\ i.rt \in Reg /\ i.rd \in Nat
    /\ i.sa \in 0 .. W - 1 /\ i.imm \in Immed
    /\ i.op \notin {"EXT", "INS"} => i.rd \in Reg
    /\ i.op = "EXT" => i.sa + i.rd < W
    /\ i.op = "INS" => i.sa <= i.rd /\ i.rd < W
    /\ i.op = "LUI" => i.rs = 0
    /\ i.op \in {"BLEZ", "BGTZ"} => i.rt = 0
BY DEF Instr

\* The operands of an instruction are words.
LEMMA OperandWords ==
  \A m \in Machine : \A i \in Instr : m.gpr[i.rs] \in Word /\ m.gpr[i.rt] \in Word
<1>. TAKE m \in Machine
<1>. TAKE i \in Instr
<1>1. m.gpr \in [Reg -> Word]
  BY MachineFields DEF Registers
<1>. QED  BY <1>1, InstrFields

\* The address of a load or a store.
LEMMA AddressIs ==
  \A m \in Machine : \A i \in Instr : i.op \in D!LoadOps \cup D!StoreOps =>
    AluOut(m, i) = Ea(m, i) /\ Ea(m, i) \in Word
<1>. TAKE m \in Machine
<1>. TAKE i \in Instr
<1>. HAVE i.op \in D!LoadOps \cup D!StoreOps
<1>. DEFINE c == Ctl(i)
            rs == m.gpr[i.rs]
            imm == SignN(i.imm, H)
<1>1. Takes(c, "RS", "SIGN_IMMED") /\ c.alu_funct = "ADD"
  <2>1. CASE i.op \in D!LoadOps
    BY <2>1, DecodedLoad, Zenon DEF Ctl
  <2>2. CASE i.op \in D!StoreOps
    BY <2>2, DecodedStore, Zenon DEF Ctl
  <2>. QED  BY <2>1, <2>2
<1>2. OpdA(m, i) = rs /\ OpdB(m, i) = Trunc(imm)
  BY <1>1 DEF Takes, OpdA, OpdB, SourceA, SourceB
<1>3. AluOut(m, i) = Trunc(rs + Trunc(imm))
  BY <1>1, <1>2 DEF AluOut, Alu, Arithmetic
<1>4. Trunc(rs + Trunc(imm)) = Trunc(rs + imm) /\ Trunc(rs + imm) \in Word
  BY OperandWords, InstrFields, ImmedAdded, Zenon
<1>. QED  BY <1>3, <1>4, Zenon DEF Ea

\* The processor raises the exceptions of the architecture.
LEMMA TrapAgrees ==
  ASSUME NEW m \in Machine, NEW i \in Instr
  PROVE  TrapOut(m, i) = Raises(m, i)
<1>. DEFINE c == Ctl(i)
            a == OpdA(m, i)
            b == OpdB(m, i)
            y == AluOut(m, i)
            f == FlagOut(m, i)
            rs == m.gpr[i.rs]
            rt == m.gpr[i.rt]
            range == -Half .. Half - 1
<1>1. i.op \in SimOp /\ rs \in Word /\ rt \in Word /\ i.imm \in Immed
  BY OperandWords, InstrFields, Zenon
<1>2. Summary(i.op, c)
  BY <1>1, Summaries, Zenon DEF Ctl
<1>3. -(2^(W - 1)) .. 2^(W - 1) - 1 = range /\ 0 \in range
  BY Halves DEF Half
<1>4. TrapOut(m, i) = TrapOf(c, a, b, y, f)
  BY Zenon DEF TrapOut
<1>5. Raises(m, i) = CASE SignedResult(m, i) \notin range -> "OV"
                       [] Unaligned(m, i) /\ i.op \in D!LoadOps  -> "ADEL"
                       [] Unaligned(m, i) /\ i.op \in D!StoreOps -> "ADES"
                       [] OTHER -> "NONE"
  BY <1>3, Zenon DEF Raises
<1>6. CASE i.op \in {"ADD", "SUB", "ADDI"}
  <2>1. /\ c.exc_chk = "OVERFLOW" /\ NoMemory(c)
        /\ c.alu_funct = IF i.op = "SUB" THEN "SUB" ELSE "ADD"
        /\ a = rs /\ b = IF i.op = "ADDI" THEN Trunc(SignN(i.imm, H)) ELSE rt
    <3>1. CASE i.op \in {"ADD", "SUB"}
      <4>1. i.op \in D!AluOps
        BY <3>1 DEF D!AluOps
      <4>2. /\ c.exc_chk = (IF i.op \in {"ADD", "SUB"} THEN "OVERFLOW" ELSE "NONE")
            /\ NoMemory(c) /\ Takes(c, "RS", "RT") /\ c.alu_funct = D!FunctOf[i.op]
        BY <4>1, DecodedAlu, Zenon DEF Ctl
      <4>3. D!FunctOf[i.op] = IF i.op = "SUB" THEN "SUB" ELSE "ADD"
        BY <3>1 DEF D!FunctOf
      <4>4. a = rs /\ b = rt
        BY <4>2 DEF Takes, OpdA, OpdB, SourceA, SourceB
      <4>. QED  BY <3>1, <4>2, <4>3, <4>4
    <3>2. CASE i.op = "ADDI"
      <4>1. i.op \in {"ADDI", "ADDIU"}
        BY <3>2
      <4>2. /\ c.exc_chk = (IF i.op = "ADDI" THEN "OVERFLOW" ELSE "NONE")
            /\ NoMemory(c) /\ Takes(c, "RS", "SIGN_IMMED") /\ c.alu_funct = "ADD"
        BY <4>1, DecodedAddImm, Zenon DEF Ctl
      <4>4. a = rs /\ b = Trunc(SignN(i.imm, H))
        BY <4>2 DEF Takes, OpdA, OpdB, SourceA, SourceB
      <4>. QED  BY <3>2, <4>2, <4>4
    <3>. QED  BY <1>6, <3>1, <3>2
  <2>2. Unaligned(m, i) = FALSE
    BY <1>6 DEF Unaligned
  <2>3. TrapOut(m, i) = IF Overflow(a, b, c.alu_funct = "SUB") THEN "OV" ELSE "NONE"
    <3>. HIDE DEF c, a, b, y, f
    <3>. QED  BY <1>4, <2>1 DEF TrapOf, NoMemory
  <2>4. Raises(m, i) = IF SignedResult(m, i) \notin range THEN "OV" ELSE "NONE"
    <3>. HIDE DEF range
    <3>. QED  BY <1>5, <2>2
  <2>5. Overflow(a, b, c.alu_funct = "SUB") <=> SignedResult(m, i) \notin range
    <3>1. CASE i.op = "ADD"
      <4>1. SignedResult(m, i) = Signed(rs) + Signed(rt)
        BY <3>1 DEF SignedResult
      <4>2. (c.alu_funct = "SUB") = FALSE /\ a = rs /\ b = rt
        BY <2>1, <3>1
      <4>. QED  BY <1>1, <4>1, <4>2, OverflowIs, Zenon
    <3>2. CASE i.op = "SUB"
      <4>1. SignedResult(m, i) = Signed(rs) - Signed(rt)
        BY <3>2 DEF SignedResult
      <4>2. (c.alu_funct = "SUB") = TRUE /\ a = rs /\ b = rt
        BY <2>1, <3>2
      <4>. QED  BY <1>1, <4>1, <4>2, OverflowIs, Zenon
    <3>3. CASE i.op = "ADDI"
      <4>1. SignedResult(m, i) = Signed(rs) + SignN(i.imm, H)
        BY <3>3 DEF SignedResult
      <4>2. (c.alu_funct = "SUB") = FALSE /\ a = rs /\ b = Trunc(SignN(i.imm, H))
        BY <2>1, <3>3
      <4>3. Trunc(SignN(i.imm, H)) \in Word /\ Signed(Trunc(SignN(i.imm, H))) = SignN(i.imm, H)
        BY <1>1, SignedImmed, Zenon
      <4>. QED  BY <1>1, <4>1, <4>2, <4>3, OverflowIs, Zenon
    <3>. QED  BY <1>6, <3>1, <3>2, <3>3
  <2>6. CASE SignedResult(m, i) \notin range
    BY <2>3, <2>4, <2>5, <2>6, Zenon
  <2>7. CASE SignedResult(m, i) \in range
    BY <2>3, <2>4, <2>5, <2>7, Zenon
  <2>. QED  BY <2>6, <2>7, Zenon
<1>7. CASE i.op \notin {"ADD", "SUB", "ADDI"}
  <2>1. SignedResult(m, i) \in range
    <3>1. SignedResult(m, i) = 0
      BY <1>7 DEF SignedResult
    <3>. QED  BY <1>3, <3>1, Zenon
  <2>2. c.exc_chk = "NONE"
    BY <1>2, <1>7 DEF Summary
  <2>3. CASE i.op \in D!LoadOps
    <3>1. /\ c.read_mem /\ c.mem_write_cond = "KEEP" /\ c.read_mode = D!ReadModeOf[i.op]
      BY <2>3, DecodedLoad, Zenon DEF Ctl
    <3>2. i.op \notin D!StoreOps
      BY <2>3 DEF D!LoadOps, D!StoreOps
    <3>3. y = Ea(m, i)
      BY <2>3, AddressIs, Zenon
    <3>4. Misaligned(c.read_mode, y % BPW) <=> Unaligned(m, i)
      <4>. DEFINE ea == Ea(m, i)
      <4>1. ea \in Nat
        BY <2>3, AddressIs, WordDigits, Zenon
      <4>. HIDE DEF ea
      <4>2. (ea % BPW) % 2 = 1 <=> ea % 2 # 0
        BY <4>1 DEF BPW
      <4>3. Unaligned(m, i) <=> \/ i.op \in {"LH", "LHU"} /\ ea % 2 # 0
                                \/ i.op = "LW" /\ ea % BPW # 0
        BY <2>3 DEF Unaligned, D!LoadOps, ea
      <4>4. Misaligned(D!ReadModeOf[i.op], ea % BPW)
              <=> \/ i.op = "LW" /\ ea % BPW # 0
                  \/ i.op \in {"LH", "LHU"} /\ (ea % BPW) % 2 = 1
        BY <2>3 DEF Misaligned, D!ReadModeOf, D!LoadOps
      <4>. QED  BY <3>1, <3>3, <4>2, <4>3, <4>4, Zenon DEF ea
    <3>5. TrapOut(m, i) = IF Misaligned(c.read_mode, y % BPW) THEN "ADEL" ELSE "NONE"
      <4>. HIDE DEF c, a, b, y, f
      <4>. QED  BY <1>4, <2>2, <3>1 DEF TrapOf
    <3>6. Raises(m, i) = IF Unaligned(m, i) THEN "ADEL" ELSE "NONE"
      <4>. HIDE DEF range
      <4>. QED  BY <1>5, <2>1, <2>3, <3>2
    <3>7. CASE Unaligned(m, i)
      BY <3>4, <3>5, <3>6, <3>7, Zenon
    <3>8. CASE ~Unaligned(m, i)
      BY <3>4, <3>5, <3>6, <3>8, Zenon
    <3>. QED  BY <3>7, <3>8, Zenon
  <2>4. CASE i.op \in D!StoreOps
    <3>1. /\ ~c.read_mem /\ c.mem_write_cond = "ALWAYS" /\ c.write_mode = D!WriteModeOf[i.op]
      BY <2>4, DecodedStore, Zenon DEF Ctl
    <3>2. i.op \notin D!LoadOps
      BY <2>4 DEF D!LoadOps, D!StoreOps
    <3>3. y = Ea(m, i)
      BY <2>4, AddressIs, Zenon
    <3>4. Misaligned(c.write_mode, y % BPW) <=> Unaligned(m, i)
      <4>. DEFINE ea == Ea(m, i)
      <4>1. ea \in Nat
        BY <2>4, AddressIs, WordDigits, Zenon
      <4>. HIDE DEF ea
      <4>2. (ea % BPW) % 2 = 1 <=> ea % 2 # 0
        BY <4>1 DEF BPW
      <4>3. Unaligned(m, i) <=> \/ i.op = "SH" /\ ea % 2 # 0
                                \/ i.op = "SW" /\ ea % BPW # 0
        BY <2>4 DEF Unaligned, D!StoreOps, ea
      <4>4. Misaligned(D!WriteModeOf[i.op], ea % BPW)
              <=> \/ i.op = "SW" /\ ea % BPW # 0
                  \/ i.op = "SH" /\ (ea % BPW) % 2 = 1
        BY <2>4 DEF Misaligned, D!WriteModeOf, D!StoreOps
      <4>. QED  BY <3>1, <3>3, <4>2, <4>3, <4>4, Zenon DEF ea
    <3>5. TrapOut(m, i) = IF Misaligned(c.write_mode, y % BPW) THEN "ADES" ELSE "NONE"
      <4>. HIDE DEF c, a, b, y, f
      <4>. QED  BY <1>4, <2>2, <3>1 DEF TrapOf
    <3>6. Raises(m, i) = IF Unaligned(m, i) THEN "ADES" ELSE "NONE"
      <4>. HIDE DEF range
      <4>. QED  BY <1>5, <2>1, <2>4, <3>2
    <3>7. CASE Unaligned(m, i)
      BY <3>4, <3>5, <3>6, <3>7, Zenon
    <3>8. CASE ~Unaligned(m, i)
      BY <3>4, <3>5, <3>6, <3>8, Zenon
    <3>. QED  BY <3>7, <3>8, Zenon
  <2>5. CASE i.op \notin D!LoadOps \cup D!StoreOps
    <3>1. NoMemory(c)
      BY <1>2, <2>5 DEF Summary
    <3>2. TrapOut(m, i) = "NONE"
      <4>. HIDE DEF c, a, b, y, f
      <4>. QED  BY <1>4, <2>2, <3>1 DEF TrapOf, NoMemory
    <3>3. Raises(m, i) = "NONE"
      <4>. HIDE DEF range
      <4>. QED  BY <1>5, <2>1, <2>5
    <3>. QED  BY <3>2, <3>3
  <2>. QED  BY <2>3, <2>4, <2>5
<1>. QED  BY <1>6, <1>7

\* The simulator in the same state, as far as registers go.
SameRegisters(m, s) ==
  m \in Machine /\ s \in Machine /\ m.gpr = s.gpr /\ m.hi = s.hi /\ m.lo = s.lo /\ m.pc = s.pc

\* What is left in hi and lo, the words of p.
ProductIs(m, i, p) ==
  /\ HiOut(m, i) = (p \div M) % M /\ LoOut(m, i) = p % M
  /\ HiOut(m, i) \in Word /\ LoOut(m, i) \in Word

\* It is what div_mul computes, of an instruction for it.
LEMMA ProductDelivered ==
  ASSUME NEW m, NEW i, NEW p \in Int, ProductOut(m, i) = HiLo(p),
         Ctl(i).write_hi, Ctl(i).write_lo, Ctl(i).hilo_src = "MULDIV"
  PROVE  ProductIs(m, i, p)
<1>1. HiOut(m, i) = ProductOut(m, i)[1] /\ LoOut(m, i) = ProductOut(m, i)[2]
  BY DEF HiOut, LoOut, HiLoData
<1>2. HiLo(p) = <<(p \div M) % M, p % M>>
  BY Zenon DEF HiLo
<1>3. (\A x, y : <<x, y>>[1] = x) /\ (\A x, y : <<x, y>>[2] = y)
  BY Zenon
<1>4. ProductOut(m, i)[1] = (p \div M) % M /\ ProductOut(m, i)[2] = p % M
  <2>. DEFINE h == (p \div M) % M
              l == p % M
  <2>1. ProductOut(m, i) = <<h, l>>
    BY <1>2
  <2>. HIDE DEF h, l
  <2>2. ProductOut(m, i)[1] = h /\ ProductOut(m, i)[2] = l
    BY ONLY <2>1
  <2>. QED  BY <2>2, Zenon DEF h, l
<1>5. HiOut(m, i) = (p \div M) % M /\ LoOut(m, i) = p % M
  BY <1>1, <1>4, Zenon
<1>. QED  BY <1>5, HiLoWords, Zenon DEF ProductIs

\* hi and lo are those of the simulator.
LEMMA HiLoAgrees ==
  ASSUME NEW m, NEW s, NEW i \in Instr, SameRegisters(m, s),
         i.op \in {"DIV", "DIVU"} => m.gpr[i.rt] # 0
  PROVE  ProductIs(m, i, HiLoAfter(s, i))
<1>. DEFINE c  == Ctl(i)
            rs == m.gpr[i.rs]
            rt == m.gpr[i.rt]
            hi == m.hi
            lo == m.lo
            p  == HiLoAfter(s, i)
<1>1. /\ m \in Machine /\ i.op \in SimOp /\ rs \in Word /\ rt \in Word /\ hi \in Word /\ lo \in Word
      /\ s.gpr[i.rs] = rs /\ s.gpr[i.rt] = rt /\ s.hi = hi /\ s.lo = lo
  BY OperandWords, InstrFields, MachineFields, Zenon DEF SameRegisters
<1>. DEFINE Before == m.hi = hi /\ m.lo = lo /\ m.gpr[i.rs] = rs /\ m.gpr[i.rt] = rt
<1>6. Before /\ (i.op \in {"DIV", "DIVU"} => rt # 0)
  OBVIOUS
<1>. HIDE DEF rs, rt, hi, lo
<1>2. CASE i.op \notin ProductOps
  <2>1. Summary(i.op, c)
    BY <1>1, Summaries, Zenon DEF Ctl
  <2>2. NoProduct(c)
    BY <1>2, <2>1 DEF Summary
  <2>3. HiOut(m, i) = hi /\ LoOut(m, i) = lo
    BY <1>6, <2>2, Zenon DEF HiOut, LoOut, NoProduct
  <2>4. p = hi * M + lo
    BY <1>1, <1>2 DEF HiLoAfter, ProductOps, D!MulDivOps, D!MulAccOps
  <2>5. ProductIs(m, i, hi * M + lo)
    BY <1>1, <2>3, PairHolds, Zenon DEF ProductIs
  <2>. QED  BY <2>4, <2>5, Zenon
<1>3. CASE i.op = "MTHI"
  <2>1. c.write_hi /\ ~c.write_lo /\ c.hilo_src = "RS"
    BY <1>3, DecodedToHi DEF Ctl
  <2>2. HiOut(m, i) = rs /\ LoOut(m, i) = lo
    BY <1>6, <2>1, Zenon DEF HiOut, LoOut, HiLoData
  <2>3. p = rs * M + lo
    BY <1>1, <1>3 DEF HiLoAfter
  <2>4. ProductIs(m, i, rs * M + lo)
    BY <1>1, <2>2, PairHolds, Zenon DEF ProductIs
  <2>. QED  BY <2>3, <2>4, Zenon
<1>4. CASE i.op = "MTLO"
  <2>1. ~c.write_hi /\ c.write_lo /\ c.hilo_src = "RS"
    BY <1>4, DecodedToLo DEF Ctl
  <2>2. HiOut(m, i) = hi /\ LoOut(m, i) = rs
    BY <1>6, <2>1, Zenon DEF HiOut, LoOut, HiLoData
  <2>3. p = hi * M + rs
    BY <1>1, <1>4 DEF HiLoAfter
  <2>4. ProductIs(m, i, hi * M + rs)
    BY <1>1, <2>2, PairHolds, Zenon DEF ProductIs
  <2>. QED  BY <2>3, <2>4, Zenon
<1>5. CASE i.op \in D!MulDivOps \cup D!MulAccOps
  <2>1. c.write_hi /\ c.write_lo /\ c.hilo_src = "MULDIV" /\ c.muldiv_funct = i.op
    <3>1. CASE i.op \in D!MulDivOps
      BY <3>1, DecodedMulDiv, Zenon DEF Ctl
    <3>2. CASE i.op \in D!MulAccOps
      BY <3>2, DecodedMulAcc, Zenon DEF Ctl
    <3>. QED  BY <1>5, <3>1, <3>2
  <2>2. ProductOut(m, i) = MulDiv(i.op, rs, rt, hi, lo)
    BY <1>6, <2>1, Zenon DEF ProductOut
  <2>3. CASE i.op = "MULT"
    <3>. DEFINE v == Signed(rs) * Signed(rt)
    <3>1. v \in Int
      BY <1>1, ProductTypes, Zenon
    <3>2. MulDiv("MULT", rs, rt, hi, lo) = HiLo(v)
      BY ONLY <1>1, Multiplied, SMT DEF v
    <3>3. p = v
      BY <1>1, <2>3 DEF HiLoAfter
    <3>4. ProductOut(m, i) = HiLo(v)
      BY <2>2, <2>3, <3>2, Zenon
    <3>. HIDE DEF v, c
    <3>5. ProductIs(m, i, v)
      BY <2>1, <3>1, <3>4, ProductDelivered, Zenon DEF c
    <3>. QED  BY <3>3, <3>5, Zenon
  <2>4. CASE i.op = "MULTU"
    <3>. DEFINE v == rs * rt
    <3>1. v \in Int
      BY <1>1, ProductTypes, Zenon
    <3>2. MulDiv("MULTU", rs, rt, hi, lo) = HiLo(v)
      BY ONLY <1>1, Multiplied, SMT DEF v
    <3>3. p = v
      BY <1>1, <2>4 DEF HiLoAfter
    <3>4. ProductOut(m, i) = HiLo(v)
      BY <2>2, <2>4, <3>2, Zenon
    <3>. HIDE DEF v, c
    <3>5. ProductIs(m, i, v)
      BY <2>1, <3>1, <3>4, ProductDelivered, Zenon DEF c
    <3>. QED  BY <3>3, <3>5, Zenon
  <2>5. CASE i.op = "MADD"
    <3>. DEFINE v == hi * M + lo + Signed(rs) * Signed(rt)
    <3>1. v \in Int
      BY <1>1, ProductTypes, Zenon
    <3>2. MulDiv("MADD", rs, rt, hi, lo) = HiLo(v)
      BY ONLY <1>1, Multiplied, SMT DEF v
    <3>3. p = v
      BY <1>1, <2>5 DEF HiLoAfter
    <3>4. ProductOut(m, i) = HiLo(v)
      BY <2>2, <2>5, <3>2, Zenon
    <3>. HIDE DEF v, c
    <3>5. ProductIs(m, i, v)
      BY <2>1, <3>1, <3>4, ProductDelivered, Zenon DEF c
    <3>. QED  BY <3>3, <3>5, Zenon
  <2>6. CASE i.op = "MADDU"
    <3>. DEFINE v == hi * M + lo + rs * rt
    <3>1. v \in Int
      BY <1>1, ProductTypes, Zenon
    <3>2. MulDiv("MADDU", rs, rt, hi, lo) = HiLo(v)
      BY ONLY <1>1, Multiplied, SMT DEF v
    <3>3. p = v
      BY <1>1, <2>6 DEF HiLoAfter
    <3>4. ProductOut(m, i) = HiLo(v)
      BY <2>2, <2>6, <3>2, Zenon
    <3>. HIDE DEF v, c
    <3>5. ProductIs(m, i, v)
      BY <2>1, <3>1, <3>4, ProductDelivered, Zenon DEF c
    <3>. QED  BY <3>3, <3>5, Zenon
  <2>7. CASE i.op = "MSUB"
    <3>. DEFINE v == hi * M + lo - Signed(rs) * Signed(rt)
    <3>1. v \in Int
      BY <1>1, ProductTypes, Zenon
    <3>2. MulDiv("MSUB", rs, rt, hi, lo) = HiLo(v)
      BY ONLY <1>1, Multiplied, SMT DEF v
    <3>3. p = v
      <4>1. HiLoAfter(s, i) = s.hi * M + s.lo - Signed(s.gpr[i.rs]) * Signed(s.gpr[i.rt])
        <5>1. s.hi \in Int /\ s.lo \in Int /\ M \in Int /\ Signed(s.gpr[i.rs]) \in Int
              /\ Signed(s.gpr[i.rt]) \in Int
              /\ s.gpr[i.rs] \in Int /\ s.gpr[i.rt] \in Int
          BY <1>1, WordDigits, SignedIs, Halves
        <5>2. s.hi * M \in Int /\ Signed(s.gpr[i.rs]) * Signed(s.gpr[i.rt]) \in Int
              /\ s.gpr[i.rs] * s.gpr[i.rt] \in Int
          BY ONLY <5>1
        <5>. QED  BY ONLY <2>7, <5>1, <5>2 DEF HiLoAfter
      <4>. QED  BY <1>1, <4>1, Zenon
    <3>4. ProductOut(m, i) = HiLo(v)
      BY <2>2, <2>7, <3>2, Zenon
    <3>. HIDE DEF v, c
    <3>5. ProductIs(m, i, v)
      BY <2>1, <3>1, <3>4, ProductDelivered, Zenon DEF c
    <3>. QED  BY <3>3, <3>5, Zenon
  <2>8. CASE i.op = "MSUBU"
    <3>. DEFINE v == hi * M + lo - rs * rt
    <3>1. v \in Int
      BY <1>1, ProductTypes, Zenon
    <3>2. MulDiv("MSUBU", rs, rt, hi, lo) = HiLo(v)
      BY ONLY <1>1, Multiplied, SMT DEF v
    <3>3. p = v
      <4>1. HiLoAfter(s, i) = s.hi * M + s.lo - s.gpr[i.rs] * s.gpr[i.rt]
        <5>1. s.hi \in Int /\ s.lo \in Int /\ M \in Int /\ Signed(s.gpr[i.rs]) \in Int
              /\ Signed(s.gpr[i.rt]) \in Int
              /\ s.gpr[i.rs] \in Int /\ s.gpr[i.rt] \in Int
          BY <1>1, WordDigits, SignedIs, Halves
        <5>2. s.hi * M \in Int /\ Signed(s.gpr[i.rs]) * Signed(s.gpr[i.rt]) \in Int
              /\ s.gpr[i.rs] * s.gpr[i.rt] \in Int
          BY ONLY <5>1
        <5>. QED  BY ONLY <2>8, <5>1, <5>2 DEF HiLoAfter
      <4>. QED  BY <1>1, <4>1, Zenon
    <3>4. ProductOut(m, i) = HiLo(v)
      BY <2>2, <2>8, <3>2, Zenon
    <3>. HIDE DEF v, c
    <3>5. ProductIs(m, i, v)
      BY <2>1, <3>1, <3>4, ProductDelivered, Zenon DEF c
    <3>. QED  BY <3>3, <3>5, Zenon
  <2>9. CASE i.op = "DIV"
    <3>. DEFINE v == Trunc(Signed(rs) - Quo(Signed(rs), Signed(rt)) * Signed(rt)) * M
                  + Trunc(Quo(Signed(rs), Signed(rt)))
    <3>1. rt # 0
      BY <1>6, <2>9
    <3>2. MulDiv("DIV", rs, rt, hi, lo) = HiLo(v) /\ v \in Int
      BY ONLY <1>1, <3>1, DividedSigned, SMT DEF v
    <3>3. p = v
      <4>1. Signed(rt) # 0
        <5>1. Signed(rt) = IF rt >= Half THEN rt - M ELSE rt
          BY <1>1, SignedIs, Zenon
        <5>2. rt \in Nat /\ rt < M
          BY <1>1, WordDigits, Zenon
        <5>. QED  BY <3>1, <5>1, <5>2, Halves
      <4>2. p = IF Signed(rt) = 0 THEN hi * M + lo ELSE v
        BY <1>1, <2>9, Zenon DEF HiLoAfter, Quo, Magnitude
      <4>. QED  BY <4>1, <4>2, Zenon
    <3>4. ProductOut(m, i) = HiLo(v)
      BY <2>2, <2>9, <3>2, Zenon
    <3>. HIDE DEF v, c
    <3>5. ProductIs(m, i, v)
      BY <2>1, <3>2, <3>4, ProductDelivered, Zenon DEF c
    <3>. QED  BY <3>3, <3>5, Zenon
  <2>10. CASE i.op = "DIVU"
    <3>. DEFINE v == (rs % rt) * M + (rs \div rt)
    <3>1. rt # 0
      BY <1>6, <2>10
    <3>2. MulDiv("DIVU", rs, rt, hi, lo) = HiLo(v) /\ v \in Int
      BY ONLY <1>1, <3>1, DividedUnsigned, SMT DEF v
    <3>3. p = v
      BY <1>1, <2>10, <3>1 DEF HiLoAfter
    <3>4. ProductOut(m, i) = HiLo(v)
      BY <2>2, <2>10, <3>2, Zenon
    <3>. HIDE DEF v, c
    <3>5. ProductIs(m, i, v)
      BY <2>1, <3>2, <3>4, ProductDelivered, Zenon DEF c
    <3>. QED  BY <3>3, <3>5, Zenon
  <2>. QED  BY <1>5, <2>3, <2>4, <2>5, <2>6, <2>7, <2>8, <2>9, <2>10 DEF D!MulDivOps, D!MulAccOps
<1>. QED  BY <1>2, <1>3, <1>4, <1>5 DEF ProductOps

----------------------------------------------------------------------------
\* Where the program goes on.

\* The flag of a comparison with zero.
LEMMA ComparedWithZero ==
  \A a \in Word :
    /\ Signed(0) = 0 /\ Signed(a) \in Int
    /\ a = 0 <=> Signed(a) = 0
<1>. TAKE a \in Word
<1>1. /\ Signed(0) = IF 0 >= Half THEN 0 - M ELSE 0
      /\ Signed(a) = IF a >= Half THEN a - M ELSE a
  <2>1. 0 \in Word
    BY Halves DEF Word
  <2>. QED  BY <2>1, SignedIs, Zenon
<1>2. a \in Nat /\ a < M
  BY WordDigits, Zenon
<1>. QED  BY ONLY <1>1, <1>2, Halves

\* What the comparator says.
LEMMA FlagIs ==
  ASSUME NEW a \in Word, NEW b \in Word
  PROVE  /\ Flag("EQ", a, b) <=> a = b
         /\ Flag("NE", a, b) <=> a # b
         /\ Flag("LE", a, b) <=> Signed(a) < Signed(b) \/ a = b
         /\ Flag("GE", a, b) <=> Signed(a) > Signed(b) \/ a = b
         /\ Flag("LT", a, b) <=> Signed(a) < Signed(b)
         /\ Flag("GT", a, b) <=> Signed(a) > Signed(b)
         /\ Flag("LTU", a, b) <=> a < b
<1>1. Flag("EQ", a, b) <=> a = b
  BY Zenon DEF Flag
<1>2. Flag("NE", a, b) <=> a # b
  BY Zenon DEF Flag
<1>3. Flag("LE", a, b) <=> Signed(a) < Signed(b) \/ a = b
  BY Zenon DEF Flag
<1>4. Flag("GE", a, b) <=> Signed(a) > Signed(b) \/ a = b
  BY Zenon DEF Flag
<1>5. Flag("LT", a, b) <=> Signed(a) < Signed(b)
  BY Zenon DEF Flag
<1>6. Flag("GT", a, b) <=> Signed(a) > Signed(b)
  BY Zenon DEF Flag
<1>7. Flag("LTU", a, b) <=> a < b
  BY Zenon DEF Flag
<1>. QED  BY <1>1, <1>2, <1>3, <1>4, <1>5, <1>6, <1>7, Zenon

\* The instruction after i is that of the simulator.
LEMMA NextAgrees ==
  ASSUME NEW m, NEW s, NEW i \in Instr, NEW to \in Word, NEW other \in Word, SameRegisters(m, s)
  PROVE  NextPc(m, i, to, other) = SimNextPc(s, i, to, other) /\ NextPc(m, i, to, other) \in Word
<1>. DEFINE c  == Ctl(i)
            rs == m.gpr[i.rs]
            rt == m.gpr[i.rt]
            taken == CASE i.op = "BEQ"  -> rs = rt
                       [] i.op = "BNE"  -> rs # rt
                       [] i.op = "BLEZ" -> Signed(rs) <= 0
                       [] i.op = "BGTZ" -> Signed(rs) > 0
                       [] i.op \in {"BLTZ", "BLTZAL"} -> Signed(rs) < 0
                       [] i.op \in {"BGEZ", "BGEZAL"} -> Signed(rs) >= 0
                       [] OTHER -> i.op \in {"J", "JAL"}
            next == NextPc(m, i, to, other)
            expected == SimNextPc(s, i, to, other)
<1>1. /\ m \in Machine /\ i.op \in SimOp /\ rs \in Word /\ rt \in Word
      /\ s.gpr[i.rs] = rs /\ s.gpr[i.rt] = rt
  BY OperandWords, InstrFields, Zenon DEF SameRegisters
<1>2. next = CASE c.pc_src = "JUMP"     -> to
               [] c.pc_src = "REGISTER" -> rs
               [] c.pc_src = "BRANCH"   -> IF FlagOut(m, i) THEN to ELSE other
               [] OTHER -> other
  BY ControlIs, Zenon DEF NextPc, Successor, FlagOut, OpdA, OpdB
<1>3. expected = IF i.op \in {"JR", "JALR"} THEN rs ELSE IF taken THEN to ELSE other
  BY <1>1, Zenon DEF SimNextPc
<1>4. CASE i.op \notin GoingOps
  <2>1. NoJump(c)
    BY <1>1, <1>4, Summaries, Zenon DEF Ctl, Summary
  <2>2. next = other
    BY <1>2, <2>1, Zenon DEF NoJump
  <2>3. i.op \notin {"JR", "JALR"} /\ ~taken
    BY <1>4 DEF GoingOps, D!JumpOps
  <2>4. expected = other
    BY <1>3, <2>3, Zenon
  <2>. QED  BY <2>2, <2>4, Zenon
<1>5. CASE i.op \in {"J", "JAL"}
  <2>1. c.pc_src = "JUMP"
    BY <1>5, DecodedJump, DecodedJumpLink, Zenon DEF Ctl
  <2>2. next = to
    BY <1>2, <2>1, Zenon
  <2>3. i.op \notin {"JR", "JALR"} /\ taken
    BY <1>5
  <2>4. expected = to
    BY <1>3, <2>3, Zenon
  <2>. QED  BY <2>2, <2>4, Zenon
<1>6. CASE i.op \in {"JR", "JALR"}
  <2>1. c.pc_src = "REGISTER"
    BY <1>6, DecodedJumpReg, DecodedJumpRegLink, Zenon DEF Ctl
  <2>2. next = rs
    BY <1>2, <2>1, Zenon
  <2>4. expected = rs
    BY <1>3, <1>6, Zenon
  <2>. QED  BY <1>1, <2>2, <2>4, Zenon
<1>7. ASSUME c.pc_src = "BRANCH", i.op \notin {"JR", "JALR"}, FlagOut(m, i) <=> taken
      PROVE  next = expected /\ next \in Word
  <2>1. next = IF FlagOut(m, i) THEN to ELSE other
    BY <1>2, <1>7, Zenon
  <2>2. expected = IF taken THEN to ELSE other
    BY <1>3, <1>7, Zenon
  <2>3. CASE taken
    BY <1>7, <2>1, <2>2, <2>3, Zenon
  <2>4. CASE ~taken
    BY <1>7, <2>1, <2>2, <2>4, Zenon
  <2>. QED  BY <2>3, <2>4, Zenon
<1>20. 0 \in Word /\ m.gpr[0] = 0
  <2>1. 0 \in Word
    BY Halves DEF Word
  <2>2. m.gpr \in Registers
    BY <1>1, MachineFields, Zenon
  <2>. QED  BY <2>1, <2>2 DEF Registers
<1>8. CASE i.op = "BEQ"
  <2>1. c.pc_src = "BRANCH" /\ Takes(c, "RS", "RT") /\ c.flag_sel = "EQ"
    BY <1>8, DecodedBeq, Zenon DEF Ctl
  <2>2. OpdA(m, i) = rs /\ OpdB(m, i) = rt
    BY <2>1 DEF Takes, OpdA, OpdB, SourceA, SourceB
  <2>3. FlagOut(m, i) <=> Flag("EQ", rs, rt)
    BY <2>1, <2>2, Zenon DEF FlagOut
  <2>4. taken <=> rs = rt
    BY <1>8
  <2>5. Flag("EQ", rs, rt) <=> rs = rt
    BY <1>1, FlagIs, Zenon
  <2>6. i.op \notin {"JR", "JALR"}
    BY <1>8
  <2>. QED  BY <1>7, <2>1, <2>3, <2>4, <2>5, <2>6, Zenon
<1>9. CASE i.op = "BNE"
  <2>1. c.pc_src = "BRANCH" /\ Takes(c, "RS", "RT") /\ c.flag_sel = "NE"
    BY <1>9, DecodedBne, Zenon DEF Ctl
  <2>2. OpdA(m, i) = rs /\ OpdB(m, i) = rt
    BY <2>1 DEF Takes, OpdA, OpdB, SourceA, SourceB
  <2>3. FlagOut(m, i) <=> Flag("NE", rs, rt)
    BY <2>1, <2>2, Zenon DEF FlagOut
  <2>4. taken <=> rs # rt
    BY <1>9
  <2>5. Flag("NE", rs, rt) <=> rs # rt
    BY <1>1, FlagIs, Zenon
  <2>6. i.op \notin {"JR", "JALR"}
    BY <1>9
  <2>. QED  BY <1>7, <2>1, <2>3, <2>4, <2>5, <2>6, Zenon
<1>10. CASE i.op = "BLEZ"
  <2>1. c.pc_src = "BRANCH" /\ Takes(c, "RS", "RT") /\ c.flag_sel = "LE"
    BY <1>10, DecodedBlez, Zenon DEF Ctl
  <2>2. OpdA(m, i) = rs /\ OpdB(m, i) = rt
    BY <2>1 DEF Takes, OpdA, OpdB, SourceA, SourceB
  <2>3. FlagOut(m, i) <=> Flag("LE", rs, rt)
    BY <2>1, <2>2, Zenon DEF FlagOut
  <2>7. rt = 0
    BY <1>10, <1>20, InstrFields
  <2>4. taken <=> Signed(rs) <= 0
    BY <1>10
  <2>5. Flag("LE", rs, rt) <=> Signed(rs) <= 0
    <3>1. Flag("LE", rs, rt) <=> Signed(rs) < Signed(0) \/ rs = 0
      BY <1>1, <1>20, <2>7, FlagIs, Zenon
    <3>2. Signed(0) = 0 /\ Signed(rs) \in Int /\ (rs = 0 <=> Signed(rs) = 0)
      BY <1>1, ComparedWithZero, Zenon
    <3>3. (Signed(rs) < Signed(0) \/ rs = 0) <=> Signed(rs) <= 0
      BY ONLY <3>2
    <3>. QED  BY <3>1, <3>3, Zenon
  <2>6. i.op \notin {"JR", "JALR"}
    BY <1>10
  <2>. QED  BY <1>7, <2>1, <2>3, <2>4, <2>5, <2>6, Zenon
<1>11. CASE i.op = "BGTZ"
  <2>1. c.pc_src = "BRANCH" /\ Takes(c, "RS", "RT") /\ c.flag_sel = "GT"
    BY <1>11, DecodedBgtz, Zenon DEF Ctl
  <2>2. OpdA(m, i) = rs /\ OpdB(m, i) = rt
    BY <2>1 DEF Takes, OpdA, OpdB, SourceA, SourceB
  <2>3. FlagOut(m, i) <=> Flag("GT", rs, rt)
    BY <2>1, <2>2, Zenon DEF FlagOut
  <2>7. rt = 0
    BY <1>11, <1>20, InstrFields
  <2>4. taken <=> Signed(rs) > 0
    BY <1>11
  <2>5. Flag("GT", rs, rt) <=> Signed(rs) > 0
    <3>1. Flag("GT", rs, rt) <=> Signed(rs) > Signed(0)
      BY <1>1, <1>20, <2>7, FlagIs, Zenon
    <3>2. Signed(0) = 0 /\ Signed(rs) \in Int /\ (rs = 0 <=> Signed(rs) = 0)
      BY <1>1, ComparedWithZero, Zenon
    <3>3. (Signed(rs) > Signed(0)) <=> Signed(rs) > 0
      BY ONLY <3>2
    <3>. QED  BY <3>1, <3>3, Zenon
  <2>6. i.op \notin {"JR", "JALR"}
    BY <1>11
  <2>. QED  BY <1>7, <2>1, <2>3, <2>4, <2>5, <2>6, Zenon
<1>12. CASE i.op = "BLTZ"
  <2>1. c.pc_src = "BRANCH" /\ Takes(c, "RS", "ZERO") /\ c.flag_sel = "LT"
    BY <1>12, DecodedBltz, Zenon DEF Ctl
  <2>2. OpdA(m, i) = rs /\ OpdB(m, i) = 0
    BY <2>1 DEF Takes, OpdA, OpdB, SourceA, SourceB
  <2>3. FlagOut(m, i) <=> Flag("LT", rs, 0)
    BY <2>1, <2>2, Zenon DEF FlagOut
  <2>4. taken <=> Signed(rs) < 0
    BY <1>12
  <2>5. Flag("LT", rs, 0) <=> Signed(rs) < 0
    <3>1. Flag("LT", rs, 0) <=> Signed(rs) < Signed(0)
      BY <1>1, <1>20, FlagIs, Zenon
    <3>2. Signed(0) = 0 /\ Signed(rs) \in Int /\ (rs = 0 <=> Signed(rs) = 0)
      BY <1>1, ComparedWithZero, Zenon
    <3>3. (Signed(rs) < Signed(0)) <=> Signed(rs) < 0
      BY ONLY <3>2
    <3>. QED  BY <3>1, <3>3, Zenon
  <2>6. i.op \notin {"JR", "JALR"}
    BY <1>12
  <2>. QED  BY <1>7, <2>1, <2>3, <2>4, <2>5, <2>6, Zenon
<1>13. CASE i.op = "BLTZAL"
  <2>1. c.pc_src = "BRANCH" /\ Takes(c, "RS", "ZERO") /\ c.flag_sel = "LT"
    BY <1>13, DecodedBltzal, Zenon DEF Ctl
  <2>2. OpdA(m, i) = rs /\ OpdB(m, i) = 0
    BY <2>1 DEF Takes, OpdA, OpdB, SourceA, SourceB
  <2>3. FlagOut(m, i) <=> Flag("LT", rs, 0)
    BY <2>1, <2>2, Zenon DEF FlagOut
  <2>4. taken <=> Signed(rs) < 0
    BY <1>13
  <2>5. Flag("LT", rs, 0) <=> Signed(rs) < 0
    <3>1. Flag("LT", rs, 0) <=> Signed(rs) < Signed(0)
      BY <1>1, <1>20, FlagIs, Zenon
    <3>2. Signed(0) = 0 /\ Signed(rs) \in Int /\ (rs = 0 <=> Signed(rs) = 0)
      BY <1>1, ComparedWithZero, Zenon
    <3>3. (Signed(rs) < Signed(0)) <=> Signed(rs) < 0
      BY ONLY <3>2
    <3>. QED  BY <3>1, <3>3, Zenon
  <2>6. i.op \notin {"JR", "JALR"}
    BY <1>13
  <2>. QED  BY <1>7, <2>1, <2>3, <2>4, <2>5, <2>6, Zenon
<1>14. CASE i.op = "BGEZ"
  <2>1. c.pc_src = "BRANCH" /\ Takes(c, "RS", "ZERO") /\ c.flag_sel = "GE"
    BY <1>14, DecodedBgez, Zenon DEF Ctl
  <2>2. OpdA(m, i) = rs /\ OpdB(m, i) = 0
    BY <2>1 DEF Takes, OpdA, OpdB, SourceA, SourceB
  <2>3. FlagOut(m, i) <=> Flag("GE", rs, 0)
    BY <2>1, <2>2, Zenon DEF FlagOut
  <2>4. taken <=> Signed(rs) >= 0
    BY <1>14
  <2>5. Flag("GE", rs, 0) <=> Signed(rs) >= 0
    <3>1. Flag("GE", rs, 0) <=> Signed(rs) > Signed(0) \/ rs = 0
      BY <1>1, <1>20, FlagIs, Zenon
    <3>2. Signed(0) = 0 /\ Signed(rs) \in Int /\ (rs = 0 <=> Signed(rs) = 0)
      BY <1>1, ComparedWithZero, Zenon
    <3>3. (Signed(rs) > Signed(0) \/ rs = 0) <=> Signed(rs) >= 0
      BY ONLY <3>2
    <3>. QED  BY <3>1, <3>3, Zenon
  <2>6. i.op \notin {"JR", "JALR"}
    BY <1>14
  <2>. QED  BY <1>7, <2>1, <2>3, <2>4, <2>5, <2>6, Zenon
<1>15. CASE i.op = "BGEZAL"
  <2>1. c.pc_src = "BRANCH" /\ Takes(c, "RS", "ZERO") /\ c.flag_sel = "GE"
    BY <1>15, DecodedBgezal, Zenon DEF Ctl
  <2>2. OpdA(m, i) = rs /\ OpdB(m, i) = 0
    BY <2>1 DEF Takes, OpdA, OpdB, SourceA, SourceB
  <2>3. FlagOut(m, i) <=> Flag("GE", rs, 0)
    BY <2>1, <2>2, Zenon DEF FlagOut
  <2>4. taken <=> Signed(rs) >= 0
    BY <1>15
  <2>5. Flag("GE", rs, 0) <=> Signed(rs) >= 0
    <3>1. Flag("GE", rs, 0) <=> Signed(rs) > Signed(0) \/ rs = 0
      BY <1>1, <1>20, FlagIs, Zenon
    <3>2. Signed(0) = 0 /\ Signed(rs) \in Int /\ (rs = 0 <=> Signed(rs) = 0)
      BY <1>1, ComparedWithZero, Zenon
    <3>3. (Signed(rs) > Signed(0) \/ rs = 0) <=> Signed(rs) >= 0
      BY ONLY <3>2
    <3>. QED  BY <3>1, <3>3, Zenon
  <2>6. i.op \notin {"JR", "JALR"}
    BY <1>15
  <2>. QED  BY <1>7, <2>1, <2>3, <2>4, <2>5, <2>6, Zenon
<1>. QED  BY <1>1, <1>4, <1>5, <1>6, <1>8, <1>9, <1>10, <1>11, <1>12, <1>13, <1>14,
             <1>15 DEF GoingOps, D!JumpOps

----------------------------------------------------------------------------
\* Stores.

Agree(words, one, other) == \A w \in words : one[w] = other[w]

\* A word of two memories gets values that are the same if it is among those that were.
LEMMA StoredAlike ==
  ASSUME NEW one \in [MemWord -> Word], NEW other \in [MemWord -> Word],
         NEW words \in SUBSET MemWord, Agree(words, one, other), NEW w \in MemWord,
         NEW new \in Word, NEW second \in Word, w \in words => new = second
  PROVE  /\ [one EXCEPT ![w] = new] \in [MemWord -> Word]
         /\ [other EXCEPT ![w] = second] \in [MemWord -> Word]
         /\ Agree(words, [one EXCEPT ![w] = new], [other EXCEPT ![w] = second])
         /\ [one EXCEPT ![w] = new][w] = new /\ [other EXCEPT ![w] = second][w] = second
<1>. DEFINE left   == [one EXCEPT ![w] = new]
            right  == [other EXCEPT ![w] = second]
<1>4. /\ left \in [MemWord -> Word] /\ right \in [MemWord -> Word]
      /\ left[w] = new /\ right[w] = second
  OBVIOUS
<1>5. ASSUME NEW x \in words  PROVE left[x] = right[x]
  <2>1. x \in MemWord /\ one[x] = other[x]
    BY Zenon DEF Agree
  <2>2. left[x] = IF x = w THEN new ELSE one[x]
    BY <2>1
  <2>3. right[x] = IF x = w THEN second ELSE other[x]
    BY <2>1
  <2>. QED  BY <2>1, <2>2, <2>3
<1>. QED  BY <1>4, <1>5, Zenon DEF Agree

\* Where an address lies in its word.
LEMMA AddressParts ==
  \A ea \in Word :
    LET idx == ea % BPW
    IN  /\ idx \in 0 .. 3 /\ ea \in Nat
        /\ (ea - (idx + 1) + 1) \div BPW = ea \div BPW /\ (ea - (idx + 1) + 1) % BPW = 0
        /\ (ea % 2 = 0 => idx \in {0, 2})
<1>. TAKE ea \in Word
<1>1. ea \in Nat
  BY WordDigits
<1>. QED  BY ONLY <1>1 DEF BPW

\* A store that raises nothing leaves the words that are known known.
LEMMA MemoryAgrees ==
  ASSUME NEW m, NEW s, NEW i \in Instr, SameRegisters(m, s), Raises(s, i) = "NONE",
         i.op \in D!StoreOps => Ea(s, i) \div BPW \in MemWord,
         NEW words \in SUBSET MemWord, Agree(words, m.mem, s.mem)
  PROVE  /\ MemOut(m, i) \in [MemWord -> Word] /\ StoresInto(s, i) \in [MemWord -> Word]
         /\ Agree(IF i.op = "SW" THEN words \cup {Ea(s, i) \div BPW} ELSE words,
                  MemOut(m, i), StoresInto(s, i))
<1>. DEFINE c   == Ctl(i)
            rt  == m.gpr[i.rt]
            ea  == Ea(s, i)
            idx == ea % BPW
            w   == ea \div BPW
            one == m.mem
            two == s.mem
<1>1. /\ m \in Machine /\ i.op \in SimOp /\ s.gpr[i.rt] = rt /\ rt \in Word
      /\ one \in [MemWord -> Word] /\ two \in [MemWord -> Word] /\ Agree(words, one, two)
  BY OperandWords, InstrFields, MachineFields, Zenon DEF SameRegisters
<1>2. CASE i.op \notin D!StoreOps
  <2>1. ~WritesMemory(m, c)
    <3>1. c.mem_write_cond = "KEEP"
      <4>1. CASE i.op \in D!LoadOps
        BY <4>1, DecodedLoad, Zenon DEF Ctl
      <4>2. CASE i.op \notin D!LoadOps
        <5>1. Summary(i.op, c)
          BY <1>1, Summaries, Zenon DEF Ctl
        <5>. QED  BY <1>2, <4>2, <5>1 DEF Summary, NoMemory
      <4>. QED  BY <4>1, <4>2
    <3>. QED  BY <3>1 DEF WritesMemory
  <2>2. MemOut(m, i) = one
    BY <2>1, Zenon DEF MemOut
  <2>3. StoresInto(s, i) = two
    BY <1>2 DEF StoresInto, D!StoreOps
  <2>4. i.op # "SW"
    BY <1>2 DEF D!StoreOps
  <2>. QED  BY <1>1, <2>2, <2>3, <2>4, Zenon
<1>3. CASE i.op \in D!StoreOps
  <2>1. c.mem_write_cond = "ALWAYS" /\ c.write_mode = D!WriteModeOf[i.op]
    BY <1>3, DecodedStore, Zenon DEF Ctl
  <2>2. AluOut(m, i) = ea /\ ea \in Word
    <3>1. Ea(m, i) = ea
      BY Zenon DEF Ea, SameRegisters
    <3>. QED  BY <1>1, <1>3, <3>1, AddressIs, Zenon
  <2>3. /\ idx \in 0 .. 3 /\ ea \in Nat /\ w \in MemWord
        /\ (ea - (idx + 1) + 1) \div BPW = w /\ (ea - (idx + 1) + 1) % BPW = 0
        /\ (ea % 2 = 0 => idx \in {0, 2})
    BY <1>3, <2>2, AddressParts, Zenon
  <2>4. /\ i.op = "SH" => ea % 2 = 0
        /\ i.op = "SW" => idx = 0
    <3>1. ~Unaligned(s, i)
      BY <1>3 DEF Raises
    <3>. QED  BY <3>1 DEF Unaligned
  <2>5. MemOut(m, i) = [one EXCEPT ![w] = Stored(D!WriteModeOf[i.op], one[w], rt, idx)]
    <3>1. WritesMemory(m, c)
      BY <2>1 DEF WritesMemory
    <3>. QED  BY <2>1, <2>2, <3>1, Zenon DEF MemOut
  <2>6. one[w] \in Word /\ two[w] \in Word
    BY <1>1, <2>3
  <2>7. StoresInto(s, i) =
          CASE i.op = "SB"  -> PutBytes(two, ea, rt, 1)
            [] i.op = "SH"  -> PutBytes(two, ea, rt, 2)
            [] i.op = "SW"  -> PutBytes(two, ea, rt, BPW)
            [] i.op = "SWR" -> PutBytes(two, ea, rt, BPW - idx)
            [] i.op = "SWL" -> PutBytes(two, ea - (idx + 1) + 1,
                                        rt \div 2^(ByteBits * (BPW - (idx + 1))), idx + 1)
            [] OTHER -> two
    BY <1>1, Zenon DEF StoresInto, Ea
  <2>. HIDE DEF rt, ea, idx, w, one, two
  <2>. DEFINE Alike(new, a, v, n) ==
         new \in Word /\ new = Merged(one[w], a % BPW, n, v)
         /\ Merged(two[w], a % BPW, n, v) \in Word
  <2>8. ASSUME NEW a, NEW v, NEW n, NEW new,
               a \div BPW = w, Alike(new, a, v, n), MemOut(m, i) = [one EXCEPT ![w] = new],
               StoresInto(s, i) = PutBytes(two, a, v, n),
               i.op = "SW" => new = Merged(two[w], a % BPW, n, v)
        PROVE  /\ MemOut(m, i) \in [MemWord -> Word] /\ StoresInto(s, i) \in [MemWord -> Word]
               /\ Agree(IF i.op = "SW" THEN words \cup {w} ELSE words,
                        MemOut(m, i), StoresInto(s, i))
    <3>. DEFINE second == Merged(two[w], a % BPW, n, v)
    <3>1. PutBytes(two, a, v, n) = [two EXCEPT ![w] = second]
      BY <2>8, PutBytesIs, Zenon
    <3>2. second \in Word /\ new \in Word /\ w \in MemWord /\ (i.op = "SW" => new = second)
      BY <2>3, <2>8, Zenon
    <3>3. w \in words => new = second
      BY <1>1, <2>8, Zenon DEF Agree
    <3>4. /\ one \in [MemWord -> Word] /\ two \in [MemWord -> Word] /\ Agree(words, one, two)
          /\ words \in SUBSET MemWord
      BY <1>1
    <3>. HIDE DEF second
    <3>5. /\ [one EXCEPT ![w] = new] \in [MemWord -> Word]
          /\ [two EXCEPT ![w] = second] \in [MemWord -> Word]
          /\ Agree(words, [one EXCEPT ![w] = new], [two EXCEPT ![w] = second])
          /\ [one EXCEPT ![w] = new][w] = new /\ [two EXCEPT ![w] = second][w] = second
      BY ONLY <3>2, <3>3, <3>4, StoredAlike, Zenon
    <3>. QED  BY <2>8, <3>1, <3>2, <3>5 DEF Agree
  <2>9. CASE i.op = "SB"
    <3>1. D!WriteModeOf[i.op] = "BYTE"
      BY <2>9 DEF D!WriteModeOf, D!StoreOps
    <3>. DEFINE new == Stored("BYTE", one[w], rt, idx)
                n == 1
    <3>2. Alike(new, ea, rt, n)
      <4>1. \A old \in Word : /\ Merged(old, idx, n, rt) \in Word
                              /\ Stored("BYTE", old, rt, idx) = Merged(old, idx, n, rt)
        BY <1>1, <2>3, StoredByte, Zenon
      <4>2. ea % BPW = idx
        BY Zenon DEF idx
      <4>. QED  BY <2>6, <4>1, <4>2, Zenon
    <3>3. StoresInto(s, i) = PutBytes(two, ea, rt, n)
      BY <2>7, <2>9
    <3>4. MemOut(m, i) = [one EXCEPT ![w] = new]
      BY <2>5, <3>1, Zenon
    <3>5. i.op # "SW"
      BY <2>9
    <3>. HIDE DEF new, n, Alike
    <3>. QED  BY <2>8, <3>2, <3>3, <3>4, <3>5, Zenon DEF w, ea
  <2>10. CASE i.op = "SH"
    <3>1. D!WriteModeOf[i.op] = "HALF"
      BY <2>10 DEF D!WriteModeOf, D!StoreOps
    <3>. DEFINE new == Stored("HALF", one[w], rt, idx)
                n == 2
    <3>2. Alike(new, ea, rt, n)
      <4>1. \A old \in Word : /\ Merged(old, idx, n, rt) \in Word
                              /\ Stored("HALF", old, rt, idx) = Merged(old, idx, n, rt)
        BY <1>1, <2>3, <2>4, <2>10, StoredHalf, Zenon
      <4>2. ea % BPW = idx
        BY Zenon DEF idx
      <4>. QED  BY <2>6, <4>1, <4>2, Zenon
    <3>3. StoresInto(s, i) = PutBytes(two, ea, rt, n)
      BY <2>7, <2>10
    <3>4. MemOut(m, i) = [one EXCEPT ![w] = new]
      BY <2>5, <3>1, Zenon
    <3>5. i.op # "SW"
      BY <2>10
    <3>. HIDE DEF new, n, Alike
    <3>. QED  BY <2>8, <3>2, <3>3, <3>4, <3>5, Zenon DEF w, ea
  <2>11. CASE i.op = "SW"
    <3>1. D!WriteModeOf[i.op] = "WORD" /\ idx = 0
      BY <2>4, <2>11 DEF D!WriteModeOf, D!StoreOps
    <3>. DEFINE new == Stored("WORD", one[w], rt, 0)
                n == 4
    <3>2. Alike(new, ea, rt, n) /\ new = Merged(two[w], ea % BPW, n, rt)
      <4>1. new = Merged(one[w], 0, 4, rt) /\ Merged(one[w], 0, 4, rt) = rt
            /\ Merged(two[w], 0, 4, rt) = rt
        BY <1>1, <2>6, StoredWord, Zenon
      <4>2. ea % BPW = 0
        BY <3>1 DEF idx
      <4>. QED  BY <1>1, <4>1, <4>2, Zenon
    <3>3. StoresInto(s, i) = PutBytes(two, ea, rt, n)
      BY <2>7, <2>11 DEF BPW
    <3>4. MemOut(m, i) = [one EXCEPT ![w] = new]
      BY <2>5, <3>1, Zenon
    <3>. HIDE DEF new, n, Alike
    <3>. QED  BY <2>8, <3>2, <3>3, <3>4, Zenon DEF w, ea
  <2>12. CASE i.op = "SWR"
    <3>1. D!WriteModeOf[i.op] = "SWR"
      BY <2>12 DEF D!WriteModeOf, D!StoreOps
    <3>. DEFINE new == Stored("SWR", one[w], rt, idx)
                n == 4 - idx
    <3>2. Alike(new, ea, rt, n)
      <4>1. \A old \in Word : /\ Merged(old, idx, n, rt) \in Word
                              /\ Stored("SWR", old, rt, idx) = Merged(old, idx, n, rt)
        BY <1>1, <2>3, StoredRight, Zenon
      <4>2. ea % BPW = idx
        BY Zenon DEF idx
      <4>. QED  BY <2>6, <4>1, <4>2, Zenon
    <3>3. StoresInto(s, i) = PutBytes(two, ea, rt, n)
      BY <2>7, <2>12 DEF BPW
    <3>4. MemOut(m, i) = [one EXCEPT ![w] = new]
      BY <2>5, <3>1, Zenon
    <3>5. i.op # "SW"
      BY <2>12
    <3>. HIDE DEF new, n, Alike
    <3>. QED  BY <2>8, <3>2, <3>3, <3>4, <3>5, Zenon DEF w, ea
  <2>13. CASE i.op = "SWL"
    <3>1. D!WriteModeOf[i.op] = "SWL"
      BY <2>13 DEF D!WriteModeOf, D!StoreOps
    <3>. DEFINE new  == Stored("SWL", one[w], rt, idx)
                n    == idx + 1
                part == rt \div 2^(ByteBits * (3 - idx))
                a    == ea - (idx + 1) + 1
    <3>2. Alike(new, a, part, n)
      <4>1. /\ Merged(one[w], 0, n, part) \in Word /\ Merged(two[w], 0, n, part) \in Word
            /\ new = Merged(one[w], 0, n, part)
        BY <1>1, <2>3, <2>6, StoredLeft, Zenon
      <4>2. a % BPW = 0
        BY <2>3, Zenon
      <4>. QED  BY <4>1, <4>2, Zenon
    <3>3. StoresInto(s, i) = PutBytes(two, a, part, n)
      <4>1. BPW - (idx + 1) = 3 - idx
        BY <2>3 DEF BPW
      <4>2. StoresInto(s, i) = PutBytes(two, a, rt \div 2^(ByteBits * (BPW - (idx + 1))), n)
        BY <2>7, <2>13
      <4>. QED  BY <4>1, <4>2, Zenon
    <3>4. MemOut(m, i) = [one EXCEPT ![w] = new]
      BY <2>5, <3>1, Zenon
    <3>5. i.op # "SW"
      BY <2>13
    <3>6. a \div BPW = w
      BY <2>3, Zenon
    <3>. HIDE DEF new, n, part, a, Alike
    <3>. QED  BY <2>8, <3>2, <3>3, <3>4, <3>5, <3>6, Zenon DEF w, ea
  <2>. QED  BY <1>3, <2>9, <2>10, <2>11, <2>12, <2>13 DEF D!StoreOps, w, ea
<1>. QED  BY <1>2, <1>3

----------------------------------------------------------------------------
\* The register that an instruction writes.

\* The simulator and the processor write v into register r.
Wrote(m, s, i, r, v) ==
  r \in Reg /\ v \in Word /\ GprOut(m, i) = SetReg(m.gpr, r, v) /\ Writes(s, i) = <<r, v>>

RegistersAgree(m, s, i) ==
  GprOut(m, i) = SetReg(s.gpr, Writes(s, i)[1], Writes(s, i)[2]) /\ GprOut(m, i) \in Registers

\* The registers are the same after it.
LEMMA WroteAgrees ==
  ASSUME NEW m, NEW s, NEW i, NEW r, NEW v, SameRegisters(m, s), Wrote(m, s, i, r, v)
  PROVE  RegistersAgree(m, s, i)
<1>1. m.gpr = s.gpr /\ m.gpr \in Registers
  BY MachineFields, Zenon DEF SameRegisters
<1>2. Writes(s, i)[1] = r /\ Writes(s, i)[2] = v
  <2>. DEFINE pair == Writes(s, i)
  <2>1. pair = <<r, v>>
    BY Zenon DEF Wrote
  <2>. HIDE DEF pair
  <2>2. pair[1] = r /\ pair[2] = v
    BY ONLY <2>1
  <2>. QED  BY <2>2, Zenon DEF pair
<1>3. GprOut(m, i) = SetReg(m.gpr, r, v) /\ r \in Reg /\ v \in Word
  BY Zenon DEF Wrote
<1>4. SetReg(m.gpr, r, v) \in Registers
  <2>1. 0 \in Reg
    BY Sizes DEF Reg
  <2>. QED  BY ONLY <1>1, <1>3, <2>1 DEF SetReg, Registers
<1>. QED  BY <1>1, <1>2, <1>3, <1>4, Zenon DEF RegistersAgree

\* Where the result goes, and which it is.
LEMMA DestinationIs ==
  \A m, i, src :
    /\ Delivers(Ctl(i), "RD", src) => GprOut(m, i) = SetReg(m.gpr, i.rd, DataOut(m, i))
    /\ Delivers(Ctl(i), "RT", src) => GprOut(m, i) = SetReg(m.gpr, i.rt, DataOut(m, i))
    /\ Delivers(Ctl(i), "31", src) => GprOut(m, i) = SetReg(m.gpr, RA, DataOut(m, i))
BY Zenon DEF Delivers, GprOut, WritesRegister, DestReg

\* The result is that of the unit that the control selects.
LEMMA ResultIs ==
  \A m, i, dest :
    /\ Delivers(Ctl(i), dest, "ALU")      => DataOut(m, i) = AluOut(m, i)
    /\ Delivers(Ctl(i), dest, "FLAG")     => DataOut(m, i) = Bool(FlagOut(m, i))
    /\ Delivers(Ctl(i), dest, "MUL")      => DataOut(m, i) = ProductOut(m, i)[2]
    /\ Delivers(Ctl(i), dest, "LINKADDR") => DataOut(m, i) = Trunc(m.pc + 2)
    /\ Delivers(Ctl(i), dest, "HI")       => DataOut(m, i) = m.hi
    /\ Delivers(Ctl(i), dest, "LO")       => DataOut(m, i) = m.lo
    /\ Delivers(Ctl(i), dest, "SPECIAL3") =>
         DataOut(m, i) = Special3(Ctl(i).alu_funct, OpdA(m, i), OpdB(m, i), i.rd, i.sa)
    /\ Delivers(Ctl(i), dest, "MEM") =>
         DataOut(m, i) = Load(Ctl(i).read_mode, m.gpr[i.rt], m.mem[AluOut(m, i) \div BPW],
                              AluOut(m, i) % BPW)
<1>. TAKE m, i, dest
<1>1. ASSUME Delivers(Ctl(i), dest, "ALU")
     PROVE  DataOut(m, i) = AluOut(m, i)
  BY <1>1, Zenon DEF Delivers, DataOut, RegisterData
<1>2. ASSUME Delivers(Ctl(i), dest, "FLAG")
     PROVE  DataOut(m, i) = Bool(FlagOut(m, i))
  BY <1>2, Zenon DEF Delivers, DataOut, RegisterData
<1>3. ASSUME Delivers(Ctl(i), dest, "MUL")
     PROVE  DataOut(m, i) = ProductOut(m, i)[2]
  BY <1>3, Zenon DEF Delivers, DataOut, RegisterData
<1>4. ASSUME Delivers(Ctl(i), dest, "LINKADDR")
     PROVE  DataOut(m, i) = Trunc(m.pc + 2)
  BY <1>4, Zenon DEF Delivers, DataOut, RegisterData
<1>5. ASSUME Delivers(Ctl(i), dest, "HI")
     PROVE  DataOut(m, i) = m.hi
  BY <1>5, Zenon DEF Delivers, DataOut, RegisterData
<1>6. ASSUME Delivers(Ctl(i), dest, "LO")
     PROVE  DataOut(m, i) = m.lo
  BY <1>6, Zenon DEF Delivers, DataOut, RegisterData
<1>7. ASSUME Delivers(Ctl(i), dest, "SPECIAL3")
     PROVE  DataOut(m, i) = Special3(Ctl(i).alu_funct, OpdA(m, i), OpdB(m, i), i.rd, i.sa)
  BY <1>7, Zenon DEF Delivers, DataOut, RegisterData
<1>8. ASSUME Delivers(Ctl(i), dest, "MEM")
     PROVE  DataOut(m, i) = Load(Ctl(i).read_mode, m.gpr[i.rt], m.mem[AluOut(m, i) \div BPW],
                         AluOut(m, i) % BPW)
  BY <1>8, Zenon DEF Delivers, DataOut, RegisterData
<1>. QED  BY <1>1, <1>2, <1>3, <1>4, <1>5, <1>6, <1>7, <1>8, Zenon
\* The operands of the ALU.
LEMMA OperandsAre ==
  \A m, i :
    /\ Ctl(i).alu_srcA = "RS" => OpdA(m, i) = m.gpr[i.rs]
    /\ Ctl(i).alu_srcA = "RT" => OpdA(m, i) = m.gpr[i.rt]
    /\ Ctl(i).alu_srcB = "RT" => OpdB(m, i) = m.gpr[i.rt]
    /\ Ctl(i).alu_srcB = "SIGN_IMMED" => OpdB(m, i) = Trunc(SignN(i.imm, H))
    /\ Ctl(i).alu_srcB = "IMMED"      => OpdB(m, i) = i.imm
    /\ Ctl(i).alu_srcB = "UP_IMMED"   => OpdB(m, i) = i.imm * 2^H
    /\ Ctl(i).alu_srcB = "ZERO"       => OpdB(m, i) = 0
BY Zenon DEF OpdA, OpdB, SourceA, SourceB

\* What both see of the operands.
LEMMA SameOperands ==
  ASSUME NEW m, NEW s, NEW i \in Instr, SameRegisters(m, s)
  PROVE  /\ m.gpr[i.rs] \in Word /\ m.gpr[i.rt] \in Word
         /\ s.gpr[i.rs] = m.gpr[i.rs] /\ s.gpr[i.rt] = m.gpr[i.rt]
         /\ m.hi \in Word /\ m.lo \in Word /\ m.pc \in Word
         /\ s.hi = m.hi /\ s.lo = m.lo /\ s.pc = m.pc
BY OperandWords, MachineFields, Zenon DEF SameRegisters

\* The number of places that a word is shifted by.
LEMMA Places ==
  \A v \in Word : v % W \in 0 .. W - 1
<1>. TAKE v \in Word
<1>1. v \in Nat /\ W \in Nat /\ W >= 12
  BY WordDigits, Sizes
<1>. QED  BY ONLY <1>1

\* A shifted word is a word.
LEMMA ShiftsAreWords ==
  \A v \in Word : \A n \in 0 .. W - 1 :
    Trunc(v * 2^n) \in Word /\ v \div 2^n \in Word /\ Trunc(Signed(v) \div 2^n) \in Word
<1>. TAKE v \in Word
<1>. TAKE n \in 0 .. W - 1
<1>. DEFINE p == 2^n
<1>1. n \in Nat /\ v \in Nat /\ Signed(v) \in Int
  BY WordDigits, SignedIs
<1>2. p \in Nat \ {0}
  BY <1>1, PowerOfTwo, Zenon
<1>. HIDE DEF p
<1>3. v * p \in Int /\ Signed(v) \div p \in Int
  BY <1>1, <1>2, IntQuotient
<1>. QED  BY <1>1, <1>3, TruncIsWord, PartIsWord, Zenon DEF p

\* Sums and differences are words.
LEMMA SumsAreWords ==
  \A v, w \in Word : Trunc(v + w) \in Word /\ Trunc(v - w) \in Word
<1>. TAKE v, w \in Word
<1>1. v + w \in Int /\ v - w \in Int
  BY WordDigits
<1>. QED  BY <1>1, TruncIsWord, Zenon

\* Sums and differences, and logic.
LEMMA AluAgrees ==
  ASSUME NEW m, NEW s, NEW i \in Instr, SameRegisters(m, s), i.op \in D!AluOps
  PROVE  RegistersAgree(m, s, i)
<1>. DEFINE c  == Ctl(i)
            rs == m.gpr[i.rs]
            rt == m.gpr[i.rt]
<1>1. /\ rs \in Word /\ rt \in Word /\ s.gpr[i.rs] = rs /\ s.gpr[i.rt] = rt
      /\ m.hi \in Word /\ m.lo \in Word /\ m.pc \in Word
      /\ s.hi = m.hi /\ s.lo = m.lo /\ s.pc = m.pc
  BY SameOperands
<1>2. /\ i.rs \in Reg /\ i.rt \in Reg /\ i.rd \in Nat /\ i.sa \in 0 .. W - 1 /\ i.imm \in Immed
      /\ i.op \notin {"EXT", "INS"} => i.rd \in Reg
  BY InstrFields, Zenon
<1>. DEFINE sa == ShiftAmount(m, i, c)
<1>3. /\ GprOut(m, i) = SetReg(m.gpr, i.rd, DataOut(m, i))
      /\ DataOut(m, i) = Alu(D!FunctOf[i.op], rs, rt, sa)
  <2>1. Takes(c, "RS", "RT") /\ Delivers(c, "RD", "ALU") /\ c.alu_funct = D!FunctOf[i.op]
    BY DecodedAlu, Zenon DEF Ctl
  <2>2. OpdA(m, i) = rs /\ OpdB(m, i) = rt
    BY <2>1, OperandsAre, Zenon DEF Takes
  <2>. QED  BY <2>1, <2>2, DestinationIs, ResultIs, Zenon DEF AluOut
<1>. HIDE DEF rs, rt, sa
<1>5. CASE i.op = "ADD"
  <2>. DEFINE v == Trunc(rs + rt)
  <2>1. D!FunctOf[i.op] = "ADD"
    BY <1>5 DEF D!FunctOf
  <2>2. DataOut(m, i) = v /\ v \in Word
    <3>1. Alu("ADD", rs, rt, sa) = Trunc(rs + rt)
      BY Zenon DEF Alu, Arithmetic
    <3>2. Trunc(rs + rt) = v /\ v \in Word
      BY <1>1, <1>3, SumsAreWords, Zenon
    <3>. QED  BY <1>3, <2>1, <3>1, <3>2, Zenon
  <2>3. Writes(s, i) = <<i.rd, v>>
    BY <1>1, <1>5, Zenon DEF Writes
  <2>4. i.rd \in Reg
    BY <1>2, <1>5
  <2>. HIDE DEF v
  <2>. QED  BY <1>3, <2>2, <2>3, <2>4, WroteAgrees, Zenon DEF Wrote
<1>6. CASE i.op = "ADDU"
  <2>. DEFINE v == Trunc(rs + rt)
  <2>1. D!FunctOf[i.op] = "ADD"
    BY <1>6 DEF D!FunctOf
  <2>2. DataOut(m, i) = v /\ v \in Word
    <3>1. Alu("ADD", rs, rt, sa) = Trunc(rs + rt)
      BY Zenon DEF Alu, Arithmetic
    <3>2. Trunc(rs + rt) = v /\ v \in Word
      BY <1>1, <1>3, SumsAreWords, Zenon
    <3>. QED  BY <1>3, <2>1, <3>1, <3>2, Zenon
  <2>3. Writes(s, i) = <<i.rd, v>>
    BY <1>1, <1>6, Zenon DEF Writes
  <2>4. i.rd \in Reg
    BY <1>2, <1>6
  <2>. HIDE DEF v
  <2>. QED  BY <1>3, <2>2, <2>3, <2>4, WroteAgrees, Zenon DEF Wrote
<1>7. CASE i.op = "SUB"
  <2>. DEFINE v == Trunc(rs - rt)
  <2>1. D!FunctOf[i.op] = "SUB"
    BY <1>7 DEF D!FunctOf
  <2>2. DataOut(m, i) = v /\ v \in Word
    <3>1. Alu("SUB", rs, rt, sa) = Trunc(rs - rt)
      BY Zenon DEF Alu, Arithmetic
    <3>2. Trunc(rs - rt) = v /\ v \in Word
      BY <1>1, <1>3, SumsAreWords, Zenon
    <3>. QED  BY <1>3, <2>1, <3>1, <3>2, Zenon
  <2>3. Writes(s, i) = <<i.rd, v>>
    BY <1>1, <1>7, Zenon DEF Writes
  <2>4. i.rd \in Reg
    BY <1>2, <1>7
  <2>. HIDE DEF v
  <2>. QED  BY <1>3, <2>2, <2>3, <2>4, WroteAgrees, Zenon DEF Wrote
<1>8. CASE i.op = "SUBU"
  <2>. DEFINE v == Trunc(rs - rt)
  <2>1. D!FunctOf[i.op] = "SUB"
    BY <1>8 DEF D!FunctOf
  <2>2. DataOut(m, i) = v /\ v \in Word
    <3>1. Alu("SUB", rs, rt, sa) = Trunc(rs - rt)
      BY Zenon DEF Alu, Arithmetic
    <3>2. Trunc(rs - rt) = v /\ v \in Word
      BY <1>1, <1>3, SumsAreWords, Zenon
    <3>. QED  BY <1>3, <2>1, <3>1, <3>2, Zenon
  <2>3. Writes(s, i) = <<i.rd, v>>
    BY <1>1, <1>8, Zenon DEF Writes
  <2>4. i.rd \in Reg
    BY <1>2, <1>8
  <2>. HIDE DEF v
  <2>. QED  BY <1>3, <2>2, <2>3, <2>4, WroteAgrees, Zenon DEF Wrote
<1>9. CASE i.op = "AND"
  <2>. DEFINE v == Bitwise(rs, rt, BitAnd)
  <2>1. D!FunctOf[i.op] = "AND"
    BY <1>9 DEF D!FunctOf
  <2>2. DataOut(m, i) = v /\ v \in Word
    <3>1. Alu("AND", rs, rt, sa) = FromBits(Bits(rs) \cap Bits(rt))
      BY Zenon DEF Alu, Logic
    <3>2. FromBits(Bits(rs) \cap Bits(rt)) = v /\ v \in Word
      BY <1>1, <1>3, LogicAnd, Zenon
    <3>. QED  BY <1>3, <2>1, <3>1, <3>2, Zenon
  <2>3. Writes(s, i) = <<i.rd, v>>
    BY <1>1, <1>9, Zenon DEF Writes
  <2>4. i.rd \in Reg
    BY <1>2, <1>9
  <2>. HIDE DEF v
  <2>. QED  BY <1>3, <2>2, <2>3, <2>4, WroteAgrees, Zenon DEF Wrote
<1>10. CASE i.op = "OR"
  <2>. DEFINE v == Bitwise(rs, rt, BitOr)
  <2>1. D!FunctOf[i.op] = "OR"
    BY <1>10 DEF D!FunctOf
  <2>2. DataOut(m, i) = v /\ v \in Word
    <3>1. Alu("OR", rs, rt, sa) = FromBits(Bits(rs) \cup Bits(rt))
      BY Zenon DEF Alu, Logic
    <3>2. FromBits(Bits(rs) \cup Bits(rt)) = v /\ v \in Word
      BY <1>1, <1>3, LogicOr, Zenon
    <3>. QED  BY <1>3, <2>1, <3>1, <3>2, Zenon
  <2>3. Writes(s, i) = <<i.rd, v>>
    BY <1>1, <1>10, Zenon DEF Writes
  <2>4. i.rd \in Reg
    BY <1>2, <1>10
  <2>. HIDE DEF v
  <2>. QED  BY <1>3, <2>2, <2>3, <2>4, WroteAgrees, Zenon DEF Wrote
<1>11. CASE i.op = "XOR"
  <2>. DEFINE v == Bitwise(rs, rt, BitXor)
  <2>1. D!FunctOf[i.op] = "XOR"
    BY <1>11 DEF D!FunctOf
  <2>2. DataOut(m, i) = v /\ v \in Word
    <3>1. Alu("XOR", rs, rt, sa) = FromBits(SymDiff(Bits(rs), Bits(rt)))
      BY Zenon DEF Alu, Logic
    <3>2. FromBits(SymDiff(Bits(rs), Bits(rt))) = v /\ v \in Word
      BY <1>1, <1>3, LogicXor, Zenon
    <3>. QED  BY <1>3, <2>1, <3>1, <3>2, Zenon
  <2>3. Writes(s, i) = <<i.rd, v>>
    BY <1>1, <1>11, Zenon DEF Writes
  <2>4. i.rd \in Reg
    BY <1>2, <1>11
  <2>. HIDE DEF v
  <2>. QED  BY <1>3, <2>2, <2>3, <2>4, WroteAgrees, Zenon DEF Wrote
<1>12. CASE i.op = "NOR"
  <2>. DEFINE v == Bitwise(rs, rt, BitNor)
  <2>1. D!FunctOf[i.op] = "NOR"
    BY <1>12 DEF D!FunctOf
  <2>2. DataOut(m, i) = v /\ v \in Word
    <3>1. Alu("NOR", rs, rt, sa) = Complement(FromBits(Bits(rs) \cup Bits(rt)))
      BY Zenon DEF Alu, Logic
    <3>2. Complement(FromBits(Bits(rs) \cup Bits(rt))) = v /\ v \in Word
      BY <1>1, <1>3, LogicNor, Zenon
    <3>. QED  BY <1>3, <2>1, <3>1, <3>2, Zenon
  <2>3. Writes(s, i) = <<i.rd, v>>
    BY <1>1, <1>12, Zenon DEF Writes
  <2>4. i.rd \in Reg
    BY <1>2, <1>12
  <2>. HIDE DEF v
  <2>. QED  BY <1>3, <2>2, <2>3, <2>4, WroteAgrees, Zenon DEF Wrote
<1>. QED  BY <1>5, <1>6, <1>7, <1>8, <1>9, <1>10, <1>11, <1>12 DEF D!AluOps

\* Shifts by a constant.
LEMMA ShiftSaAgrees ==
  ASSUME NEW m, NEW s, NEW i \in Instr, SameRegisters(m, s), i.op \in D!ShiftSaOps
  PROVE  RegistersAgree(m, s, i)
<1>. DEFINE c  == Ctl(i)
            rs == m.gpr[i.rs]
            rt == m.gpr[i.rt]
<1>1. /\ rs \in Word /\ rt \in Word /\ s.gpr[i.rs] = rs /\ s.gpr[i.rt] = rt
      /\ m.hi \in Word /\ m.lo \in Word /\ m.pc \in Word
      /\ s.hi = m.hi /\ s.lo = m.lo /\ s.pc = m.pc
  BY SameOperands
<1>2. /\ i.rs \in Reg /\ i.rt \in Reg /\ i.rd \in Nat /\ i.sa \in 0 .. W - 1 /\ i.imm \in Immed
      /\ i.op \notin {"EXT", "INS"} => i.rd \in Reg
  BY InstrFields, Zenon
<1>. DEFINE n == i.sa
            a == OpdA(m, i)
<1>3. /\ GprOut(m, i) = SetReg(m.gpr, i.rd, DataOut(m, i)) /\ n \in 0 .. W - 1
      /\ DataOut(m, i) = Alu(D!FunctOf[i.op], a, rt, n)
  <2>1. /\ Delivers(c, "RD", "ALU") /\ c.alu_funct = D!FunctOf[i.op]
        /\ c.alu_srcB = "RT" /\ c.alu_srcSa = "SA"
    BY DecodedShiftSa, Zenon DEF Ctl
  <2>2. OpdB(m, i) = rt /\ ShiftAmount(m, i, c) = n /\ n \in 0 .. W - 1
    BY <1>1, <1>2, <2>1, OperandsAre, Places, Zenon DEF ShiftAmount
  <2>. QED  BY <2>1, <2>2, DestinationIs, ResultIs, Zenon DEF AluOut
<1>. HIDE DEF rs, rt, n, a
<1>5. CASE i.op = "SLL"
  <2>. DEFINE v == Trunc(rt * 2^n)
  <2>1. D!FunctOf[i.op] = "SHIFT_LEFT"
    BY <1>5 DEF D!FunctOf
  <2>2. DataOut(m, i) = v /\ v \in Word
    <3>1. Alu("SHIFT_LEFT", a, rt, n) = Trunc(rt * 2^n)
      BY Zenon DEF Alu, Logic
    <3>2. Trunc(rt * 2^n) = v /\ v \in Word
      BY <1>1, <1>3, ShiftsAreWords, Zenon
    <3>. QED  BY <1>3, <2>1, <3>1, <3>2, Zenon
  <2>3. Writes(s, i) = <<i.rd, v>>
    BY <1>1, <1>5, Zenon DEF Writes, n
  <2>4. i.rd \in Reg
    BY <1>2, <1>5
  <2>. HIDE DEF v
  <2>. QED  BY <1>3, <2>2, <2>3, <2>4, WroteAgrees, Zenon DEF Wrote
<1>6. CASE i.op = "SRL"
  <2>. DEFINE v == rt \div 2^n
  <2>1. D!FunctOf[i.op] = "SHIFT_LOGIC_RIGHT"
    BY <1>6 DEF D!FunctOf
  <2>2. DataOut(m, i) = v /\ v \in Word
    <3>1. Alu("SHIFT_LOGIC_RIGHT", a, rt, n) = rt \div 2^n
      BY Zenon DEF Alu, Logic
    <3>2. rt \div 2^n = v /\ v \in Word
      BY <1>1, <1>3, ShiftsAreWords, Zenon
    <3>. QED  BY <1>3, <2>1, <3>1, <3>2, Zenon
  <2>3. Writes(s, i) = <<i.rd, v>>
    BY <1>1, <1>6, Zenon DEF Writes, n
  <2>4. i.rd \in Reg
    BY <1>2, <1>6
  <2>. HIDE DEF v
  <2>. QED  BY <1>3, <2>2, <2>3, <2>4, WroteAgrees, Zenon DEF Wrote
<1>7. CASE i.op = "SRA"
  <2>. DEFINE v == Trunc(Signed(rt) \div 2^n)
  <2>1. D!FunctOf[i.op] = "SHIFT_ARITHMATIC_RIGHT"
    BY <1>7 DEF D!FunctOf
  <2>2. DataOut(m, i) = v /\ v \in Word
    <3>1. Alu("SHIFT_ARITHMATIC_RIGHT", a, rt, n) = Trunc(Signed(rt) \div 2^n)
      BY Zenon DEF Alu, Logic
    <3>2. Trunc(Signed(rt) \div 2^n) = v /\ v \in Word
      BY <1>1, <1>3, ShiftsAreWords, Zenon
    <3>. QED  BY <1>3, <2>1, <3>1, <3>2, Zenon
  <2>3. Writes(s, i) = <<i.rd, v>>
    BY <1>1, <1>7, Zenon DEF Writes, n
  <2>4. i.rd \in Reg
    BY <1>2, <1>7
  <2>. HIDE DEF v
  <2>. QED  BY <1>3, <2>2, <2>3, <2>4, WroteAgrees, Zenon DEF Wrote
<1>8. CASE i.op = "ROTR"
  <2>. DEFINE v == Rotr(rt, n)
  <2>1. D!FunctOf[i.op] = "ROTATE_RIGHT"
    BY <1>8 DEF D!FunctOf
  <2>2. DataOut(m, i) = v /\ v \in Word
    <3>1. Alu("ROTATE_RIGHT", a, rt, n)
            = FromBits(Bits(rt \div 2^n) \cup Bits((rt % 2^n) * 2^(W - n)))
      BY Zenon DEF Alu, Logic
    <3>2. FromBits(Bits(rt \div 2^n) \cup Bits((rt % 2^n) * 2^(W - n))) = v /\ v \in Word
      BY <1>1, <1>3, Rotated, Zenon
    <3>. QED  BY <1>3, <2>1, <3>1, <3>2, Zenon
  <2>3. Writes(s, i) = <<i.rd, v>>
    BY <1>1, <1>8, Zenon DEF Writes, n
  <2>4. i.rd \in Reg
    BY <1>2, <1>8
  <2>. HIDE DEF v
  <2>. QED  BY <1>3, <2>2, <2>3, <2>4, WroteAgrees, Zenon DEF Wrote
<1>. QED  BY <1>5, <1>6, <1>7, <1>8 DEF D!ShiftSaOps

\* Shifts by a register.
LEMMA ShiftVarAgrees ==
  ASSUME NEW m, NEW s, NEW i \in Instr, SameRegisters(m, s), i.op \in D!ShiftVarOps
  PROVE  RegistersAgree(m, s, i)
<1>. DEFINE c  == Ctl(i)
            rs == m.gpr[i.rs]
            rt == m.gpr[i.rt]
<1>1. /\ rs \in Word /\ rt \in Word /\ s.gpr[i.rs] = rs /\ s.gpr[i.rt] = rt
      /\ m.hi \in Word /\ m.lo \in Word /\ m.pc \in Word
      /\ s.hi = m.hi /\ s.lo = m.lo /\ s.pc = m.pc
  BY SameOperands
<1>2. /\ i.rs \in Reg /\ i.rt \in Reg /\ i.rd \in Nat /\ i.sa \in 0 .. W - 1 /\ i.imm \in Immed
      /\ i.op \notin {"EXT", "INS"} => i.rd \in Reg
  BY InstrFields, Zenon
<1>. DEFINE n == rs % W
            a == OpdA(m, i)
<1>3. /\ GprOut(m, i) = SetReg(m.gpr, i.rd, DataOut(m, i)) /\ n \in 0 .. W - 1
      /\ DataOut(m, i) = Alu(D!FunctOf[i.op], a, rt, n)
  <2>1. /\ Delivers(c, "RD", "ALU") /\ c.alu_funct = D!FunctOf[i.op]
        /\ c.alu_srcB = "RT" /\ c.alu_srcSa = "RS"
    BY DecodedShiftVar, Zenon DEF Ctl
  <2>2. OpdB(m, i) = rt /\ ShiftAmount(m, i, c) = n /\ n \in 0 .. W - 1
    BY <1>1, <1>2, <2>1, OperandsAre, Places, Zenon DEF ShiftAmount
  <2>. QED  BY <2>1, <2>2, DestinationIs, ResultIs, Zenon DEF AluOut
<1>. HIDE DEF rs, rt, n, a
<1>5. CASE i.op = "SLLV"
  <2>. DEFINE v == Trunc(rt * 2^n)
  <2>1. D!FunctOf[i.op] = "SHIFT_LEFT"
    BY <1>5 DEF D!FunctOf
  <2>2. DataOut(m, i) = v /\ v \in Word
    <3>1. Alu("SHIFT_LEFT", a, rt, n) = Trunc(rt * 2^n)
      BY Zenon DEF Alu, Logic
    <3>2. Trunc(rt * 2^n) = v /\ v \in Word
      BY <1>1, <1>3, ShiftsAreWords, Zenon
    <3>. QED  BY <1>3, <2>1, <3>1, <3>2, Zenon
  <2>3. Writes(s, i) = <<i.rd, v>>
    BY <1>1, <1>5, Zenon DEF Writes, n
  <2>4. i.rd \in Reg
    BY <1>2, <1>5
  <2>. HIDE DEF v
  <2>. QED  BY <1>3, <2>2, <2>3, <2>4, WroteAgrees, Zenon DEF Wrote
<1>6. CASE i.op = "SRLV"
  <2>. DEFINE v == rt \div 2^n
  <2>1. D!FunctOf[i.op] = "SHIFT_LOGIC_RIGHT"
    BY <1>6 DEF D!FunctOf
  <2>2. DataOut(m, i) = v /\ v \in Word
    <3>1. Alu("SHIFT_LOGIC_RIGHT", a, rt, n) = rt \div 2^n
      BY Zenon DEF Alu, Logic
    <3>2. rt \div 2^n = v /\ v \in Word
      BY <1>1, <1>3, ShiftsAreWords, Zenon
    <3>. QED  BY <1>3, <2>1, <3>1, <3>2, Zenon
  <2>3. Writes(s, i) = <<i.rd, v>>
    BY <1>1, <1>6, Zenon DEF Writes, n
  <2>4. i.rd \in Reg
    BY <1>2, <1>6
  <2>. HIDE DEF v
  <2>. QED  BY <1>3, <2>2, <2>3, <2>4, WroteAgrees, Zenon DEF Wrote
<1>7. CASE i.op = "SRAV"
  <2>. DEFINE v == Trunc(Signed(rt) \div 2^n)
  <2>1. D!FunctOf[i.op] = "SHIFT_ARITHMATIC_RIGHT"
    BY <1>7 DEF D!FunctOf
  <2>2. DataOut(m, i) = v /\ v \in Word
    <3>1. Alu("SHIFT_ARITHMATIC_RIGHT", a, rt, n) = Trunc(Signed(rt) \div 2^n)
      BY Zenon DEF Alu, Logic
    <3>2. Trunc(Signed(rt) \div 2^n) = v /\ v \in Word
      BY <1>1, <1>3, ShiftsAreWords, Zenon
    <3>. QED  BY <1>3, <2>1, <3>1, <3>2, Zenon
  <2>3. Writes(s, i) = <<i.rd, v>>
    BY <1>1, <1>7, Zenon DEF Writes, n
  <2>4. i.rd \in Reg
    BY <1>2, <1>7
  <2>. HIDE DEF v
  <2>. QED  BY <1>3, <2>2, <2>3, <2>4, WroteAgrees, Zenon DEF Wrote
<1>8. CASE i.op = "ROTRV"
  <2>. DEFINE v == Rotr(rt, n)
  <2>1. D!FunctOf[i.op] = "ROTATE_RIGHT"
    BY <1>8 DEF D!FunctOf
  <2>2. DataOut(m, i) = v /\ v \in Word
    <3>1. Alu("ROTATE_RIGHT", a, rt, n)
            = FromBits(Bits(rt \div 2^n) \cup Bits((rt % 2^n) * 2^(W - n)))
      BY Zenon DEF Alu, Logic
    <3>2. FromBits(Bits(rt \div 2^n) \cup Bits((rt % 2^n) * 2^(W - n))) = v /\ v \in Word
      BY <1>1, <1>3, Rotated, Zenon
    <3>. QED  BY <1>3, <2>1, <3>1, <3>2, Zenon
  <2>3. Writes(s, i) = <<i.rd, v>>
    BY <1>1, <1>8, Zenon DEF Writes, n
  <2>4. i.rd \in Reg
    BY <1>2, <1>8
  <2>. HIDE DEF v
  <2>. QED  BY <1>3, <2>2, <2>3, <2>4, WroteAgrees, Zenon DEF Wrote
<1>. QED  BY <1>5, <1>6, <1>7, <1>8 DEF D!ShiftVarOps

\* An immediate is a word, and so is one of which the low half is zero.
LEMMA ImmedIsWord == \A imm \in Immed : imm \in Word /\ imm * 2^H \in Word
<1>. TAKE imm \in Immed
<1>. DEFINE p == 2^H
<1>1. p \in Nat \ {0} /\ M = p * p
  BY SizePowers, Zenon
<1>2. imm \in Nat /\ imm <= p - 1
  BY <1>1 DEF Immed
<1>. HIDE DEF p
<1>3. imm * p \in Nat /\ imm * p <= (p - 1) * p /\ (p - 1) * p = p * p - p /\ p <= p * p
      /\ p * p \in Nat
  BY ONLY <1>1, <1>2, SMTT(30)
<1>4. imm \in Word /\ imm * p \in Word
  BY ONLY <1>1, <1>2, <1>3 DEF Word
<1>. QED  BY <1>4, Zenon DEF p

\* Logic with an immediate.
LEMMA LogicImmAgrees ==
  ASSUME NEW m, NEW s, NEW i \in Instr, SameRegisters(m, s), i.op \in D!LogicImmOps
  PROVE  RegistersAgree(m, s, i)
<1>. DEFINE c  == Ctl(i)
            rs == m.gpr[i.rs]
            rt == m.gpr[i.rt]
<1>1. /\ rs \in Word /\ rt \in Word /\ s.gpr[i.rs] = rs /\ s.gpr[i.rt] = rt
      /\ m.hi \in Word /\ m.lo \in Word /\ m.pc \in Word
      /\ s.hi = m.hi /\ s.lo = m.lo /\ s.pc = m.pc
  BY SameOperands
<1>2. /\ i.rs \in Reg /\ i.rt \in Reg /\ i.rd \in Nat /\ i.sa \in 0 .. W - 1 /\ i.imm \in Immed
      /\ i.op \notin {"EXT", "INS"} => i.rd \in Reg
  BY InstrFields, Zenon
<1>. DEFINE sa == ShiftAmount(m, i, c)
<1>3. /\ GprOut(m, i) = SetReg(m.gpr, i.rt, DataOut(m, i)) /\ i.imm \in Word
      /\ DataOut(m, i) = Alu(D!FunctOf[i.op], rs, i.imm, sa)
  <2>1. Takes(c, "RS", "IMMED") /\ Delivers(c, "RT", "ALU") /\ c.alu_funct = D!FunctOf[i.op]
    BY DecodedLogicImm, Zenon DEF Ctl
  <2>2. OpdA(m, i) = rs /\ OpdB(m, i) = i.imm
    BY <2>1, OperandsAre, Zenon DEF Takes
  <2>3. i.imm \in Word
    BY <1>2, ImmedIsWord, Zenon
  <2>. QED  BY <2>1, <2>2, <2>3, DestinationIs, ResultIs, Zenon DEF AluOut
<1>. HIDE DEF rs, rt, sa
<1>5. CASE i.op = "ANDI"
  <2>. DEFINE v == Bitwise(rs, i.imm, BitAnd)
  <2>1. D!FunctOf[i.op] = "AND"
    BY <1>5 DEF D!FunctOf
  <2>2. DataOut(m, i) = v /\ v \in Word
    <3>1. Alu("AND", rs, i.imm, sa) = FromBits(Bits(rs) \cap Bits(i.imm))
      BY Zenon DEF Alu, Logic
    <3>2. FromBits(Bits(rs) \cap Bits(i.imm)) = v /\ v \in Word
      BY <1>1, <1>3, LogicAnd, Zenon
    <3>. QED  BY <1>3, <2>1, <3>1, <3>2, Zenon
  <2>3. Writes(s, i) = <<i.rt, v>>
    BY <1>1, <1>5, Zenon DEF Writes
  <2>. HIDE DEF v
  <2>. QED  BY <1>2, <1>3, <2>2, <2>3, WroteAgrees, Zenon DEF Wrote
<1>6. CASE i.op = "ORI"
  <2>. DEFINE v == Bitwise(rs, i.imm, BitOr)
  <2>1. D!FunctOf[i.op] = "OR"
    BY <1>6 DEF D!FunctOf
  <2>2. DataOut(m, i) = v /\ v \in Word
    <3>1. Alu("OR", rs, i.imm, sa) = FromBits(Bits(rs) \cup Bits(i.imm))
      BY Zenon DEF Alu, Logic
    <3>2. FromBits(Bits(rs) \cup Bits(i.imm)) = v /\ v \in Word
      BY <1>1, <1>3, LogicOr, Zenon
    <3>. QED  BY <1>3, <2>1, <3>1, <3>2, Zenon
  <2>3. Writes(s, i) = <<i.rt, v>>
    BY <1>1, <1>6, Zenon DEF Writes
  <2>. HIDE DEF v
  <2>. QED  BY <1>2, <1>3, <2>2, <2>3, WroteAgrees, Zenon DEF Wrote
<1>7. CASE i.op = "XORI"
  <2>. DEFINE v == Bitwise(rs, i.imm, BitXor)
  <2>1. D!FunctOf[i.op] = "XOR"
    BY <1>7 DEF D!FunctOf
  <2>2. DataOut(m, i) = v /\ v \in Word
    <3>1. Alu("XOR", rs, i.imm, sa) = FromBits(SymDiff(Bits(rs), Bits(i.imm)))
      BY Zenon DEF Alu, Logic
    <3>2. FromBits(SymDiff(Bits(rs), Bits(i.imm))) = v /\ v \in Word
      BY <1>1, <1>3, LogicXor, Zenon
    <3>. QED  BY <1>3, <2>1, <3>1, <3>2, Zenon
  <2>3. Writes(s, i) = <<i.rt, v>>
    BY <1>1, <1>7, Zenon DEF Writes
  <2>. HIDE DEF v
  <2>. QED  BY <1>2, <1>3, <2>2, <2>3, WroteAgrees, Zenon DEF Wrote
<1>. QED  BY <1>5, <1>6, <1>7 DEF D!LogicImmOps

\* A condition as a word.
LEMMA BoolIsWord == 0 \in Word /\ 1 \in Word /\ \A b : Bool(b) \in Word
<1>1. 0 \in Word /\ 1 \in Word
  BY Halves DEF Word
<1>. QED  BY <1>1 DEF Bool

\* Comparisons.
LEMMA SltAgrees ==
  ASSUME NEW m, NEW s, NEW i \in Instr, SameRegisters(m, s), i.op \in {"SLT", "SLTU"}
  PROVE  RegistersAgree(m, s, i)
<1>. DEFINE c  == Ctl(i)
            rs == m.gpr[i.rs]
            rt == m.gpr[i.rt]
<1>1. /\ rs \in Word /\ rt \in Word /\ s.gpr[i.rs] = rs /\ s.gpr[i.rt] = rt
      /\ m.hi \in Word /\ m.lo \in Word /\ m.pc \in Word
      /\ s.hi = m.hi /\ s.lo = m.lo /\ s.pc = m.pc
  BY SameOperands
<1>2. /\ i.rs \in Reg /\ i.rt \in Reg /\ i.rd \in Nat /\ i.sa \in 0 .. W - 1 /\ i.imm \in Immed
      /\ i.op \notin {"EXT", "INS"} => i.rd \in Reg
  BY InstrFields, Zenon
<1>3. /\ GprOut(m, i) = SetReg(m.gpr, i.rd, DataOut(m, i))
      /\ DataOut(m, i) = Bool(FlagOut(m, i)) /\ FlagOut(m, i) = Flag(D!FlagOf[i.op], rs, rt)
  <2>1. Takes(c, "RS", "RT") /\ Delivers(c, "RD", "FLAG") /\ c.flag_sel = D!FlagOf[i.op]
    BY DecodedSlt, Zenon DEF Ctl
  <2>2. OpdA(m, i) = rs /\ OpdB(m, i) = rt
    BY <2>1, OperandsAre, Zenon DEF Takes
  <2>. QED  BY <2>1, <2>2, DestinationIs, ResultIs, Zenon DEF FlagOut
<1>. HIDE DEF rs, rt, c
<1>5. CASE i.op = "SLT"
  <2>. DEFINE v == Bool(Signed(rs) < Signed(rt))
  <2>1. D!FlagOf[i.op] = "LT"
    BY <1>5 DEF D!FlagOf
  <2>2. FlagOut(m, i) <=> Signed(rs) < Signed(rt)
    <3>1. Flag("LT", rs, rt) <=> Signed(rs) < Signed(rt)
      BY Zenon DEF Flag
    <3>. QED  BY <1>3, <2>1, <3>1, Zenon
  <2>3. DataOut(m, i) = v
    <3>1. CASE Signed(rs) < Signed(rt)
      BY <1>3, <2>2, <3>1, Zenon DEF Bool
    <3>2. CASE ~(Signed(rs) < Signed(rt))
      BY <1>3, <2>2, <3>2, Zenon DEF Bool
    <3>. QED  BY <3>1, <3>2, Zenon
  <2>4. v \in Word
    BY BoolIsWord, Zenon
  <2>5. Writes(s, i) = <<i.rd, v>>
    BY <1>1, <1>5, Zenon DEF Writes
  <2>6. i.rd \in Reg
    BY <1>2, <1>5
  <2>. HIDE DEF v
  <2>. QED  BY <1>3, <2>3, <2>4, <2>5, <2>6, WroteAgrees, Zenon DEF Wrote
<1>6. CASE i.op = "SLTU"
  <2>. DEFINE v == Bool(rs < rt)
  <2>1. D!FlagOf[i.op] = "LTU"
    BY <1>6 DEF D!FlagOf
  <2>2. FlagOut(m, i) <=> rs < rt
    <3>1. Flag("LTU", rs, rt) <=> rs < rt
      BY Zenon DEF Flag
    <3>. QED  BY <1>3, <2>1, <3>1, Zenon
  <2>3. DataOut(m, i) = v
    <3>1. CASE rs < rt
      BY <1>3, <2>2, <3>1, Zenon DEF Bool
    <3>2. CASE ~(rs < rt)
      BY <1>3, <2>2, <3>2, Zenon DEF Bool
    <3>. QED  BY <3>1, <3>2, Zenon
  <2>4. v \in Word
    BY BoolIsWord, Zenon
  <2>5. Writes(s, i) = <<i.rd, v>>
    BY <1>1, <1>6, Zenon DEF Writes
  <2>6. i.rd \in Reg
    BY <1>2, <1>6
  <2>. HIDE DEF v
  <2>. QED  BY <1>3, <2>3, <2>4, <2>5, <2>6, WroteAgrees, Zenon DEF Wrote
<1>. QED  BY <1>5, <1>6

\* Comparisons with an immediate.
LEMMA SltImmAgrees ==
  ASSUME NEW m, NEW s, NEW i \in Instr, SameRegisters(m, s), i.op \in {"SLTI", "SLTIU"}
  PROVE  RegistersAgree(m, s, i)
<1>. DEFINE c  == Ctl(i)
            rs == m.gpr[i.rs]
            rt == m.gpr[i.rt]
<1>1. /\ rs \in Word /\ rt \in Word /\ s.gpr[i.rs] = rs /\ s.gpr[i.rt] = rt
      /\ m.hi \in Word /\ m.lo \in Word /\ m.pc \in Word
      /\ s.hi = m.hi /\ s.lo = m.lo /\ s.pc = m.pc
  BY SameOperands
<1>2. /\ i.rs \in Reg /\ i.rt \in Reg /\ i.rd \in Nat /\ i.sa \in 0 .. W - 1 /\ i.imm \in Immed
      /\ i.op \notin {"EXT", "INS"} => i.rd \in Reg
  BY InstrFields, Zenon
<1>. DEFINE immed == SignN(i.imm, H)
<1>3. /\ GprOut(m, i) = SetReg(m.gpr, i.rt, DataOut(m, i))
      /\ DataOut(m, i) = Bool(FlagOut(m, i))
      /\ FlagOut(m, i) = Flag(D!FlagOf[i.op], rs, Trunc(immed))
      /\ Trunc(immed) \in Word /\ Signed(Trunc(immed)) = immed
  <2>1. Takes(c, "RS", "SIGN_IMMED") /\ Delivers(c, "RT", "FLAG") /\ c.flag_sel = D!FlagOf[i.op]
    BY DecodedSltImm, Zenon DEF Ctl
  <2>2. OpdA(m, i) = rs /\ OpdB(m, i) = Trunc(immed)
    BY <2>1, OperandsAre, Zenon DEF Takes
  <2>3. Trunc(immed) \in Word /\ Signed(Trunc(immed)) = immed
    BY <1>2, SignedImmed, Zenon
  <2>. QED  BY <2>1, <2>2, <2>3, DestinationIs, ResultIs, Zenon DEF FlagOut
<1>. HIDE DEF rs, rt, c, immed
<1>5. CASE i.op = "SLTI"
  <2>. DEFINE v == Bool(Signed(rs) < immed)
  <2>1. D!FlagOf[i.op] = "LT"
    BY <1>5 DEF D!FlagOf
  <2>2. FlagOut(m, i) <=> Signed(rs) < immed
    <3>1. Flag("LT", rs, Trunc(immed)) <=> Signed(rs) < immed
      <4>1. Flag("LT", rs, Trunc(immed)) <=> Signed(rs) < Signed(Trunc(immed))
        BY Zenon DEF Flag
      <4>. QED  BY <1>3, <4>1, Zenon
    <3>. QED  BY <1>3, <2>1, <3>1, Zenon
  <2>3. DataOut(m, i) = v
    <3>1. CASE Signed(rs) < immed
      BY <1>3, <2>2, <3>1, Zenon DEF Bool
    <3>2. CASE ~(Signed(rs) < immed)
      BY <1>3, <2>2, <3>2, Zenon DEF Bool
    <3>. QED  BY <3>1, <3>2, Zenon
  <2>4. v \in Word
    BY BoolIsWord, Zenon
  <2>5. Writes(s, i) = <<i.rt, v>>
    BY <1>1, <1>5, Zenon DEF Writes, immed
  <2>6. i.rt \in Reg
    BY <1>2, <1>5
  <2>. HIDE DEF v
  <2>. QED  BY <1>3, <2>3, <2>4, <2>5, <2>6, WroteAgrees, Zenon DEF Wrote
<1>6. CASE i.op = "SLTIU"
  <2>. DEFINE v == Bool(rs < Trunc(immed))
  <2>1. D!FlagOf[i.op] = "LTU"
    BY <1>6 DEF D!FlagOf
  <2>2. FlagOut(m, i) <=> rs < Trunc(immed)
    <3>1. Flag("LTU", rs, Trunc(immed)) <=> rs < Trunc(immed)
      BY Zenon DEF Flag
    <3>. QED  BY <1>3, <2>1, <3>1, Zenon
  <2>3. DataOut(m, i) = v
    <3>1. CASE rs < Trunc(immed)
      BY <1>3, <2>2, <3>1, Zenon DEF Bool
    <3>2. CASE ~(rs < Trunc(immed))
      BY <1>3, <2>2, <3>2, Zenon DEF Bool
    <3>. QED  BY <3>1, <3>2, Zenon
  <2>4. v \in Word
    BY BoolIsWord, Zenon
  <2>5. Writes(s, i) = <<i.rt, v>>
    BY <1>1, <1>6, Zenon DEF Writes, immed
  <2>6. i.rt \in Reg
    BY <1>2, <1>6
  <2>. HIDE DEF v
  <2>. QED  BY <1>3, <2>3, <2>4, <2>5, <2>6, WroteAgrees, Zenon DEF Wrote
<1>. QED  BY <1>5, <1>6

\* Sums with an immediate.
LEMMA AddImmAgrees ==
  ASSUME NEW m, NEW s, NEW i \in Instr, SameRegisters(m, s), i.op \in {"ADDI", "ADDIU"}
  PROVE  RegistersAgree(m, s, i)
<1>. DEFINE c  == Ctl(i)
            rs == m.gpr[i.rs]
            rt == m.gpr[i.rt]
<1>1. /\ rs \in Word /\ rt \in Word /\ s.gpr[i.rs] = rs /\ s.gpr[i.rt] = rt
      /\ m.hi \in Word /\ m.lo \in Word /\ m.pc \in Word
      /\ s.hi = m.hi /\ s.lo = m.lo /\ s.pc = m.pc
  BY SameOperands
<1>2. /\ i.rs \in Reg /\ i.rt \in Reg /\ i.rd \in Nat /\ i.sa \in 0 .. W - 1 /\ i.imm \in Immed
      /\ i.op \notin {"EXT", "INS"} => i.rd \in Reg
  BY InstrFields, Zenon
<1>. DEFINE immed == SignN(i.imm, H)
<1>3. /\ GprOut(m, i) = SetReg(m.gpr, i.rt, DataOut(m, i))
      /\ DataOut(m, i) = Trunc(rs + immed) /\ Trunc(rs + immed) \in Word
  <2>1. Takes(c, "RS", "SIGN_IMMED") /\ Delivers(c, "RT", "ALU") /\ c.alu_funct = "ADD"
    BY DecodedAddImm, Zenon DEF Ctl
  <2>2. OpdA(m, i) = rs /\ OpdB(m, i) = Trunc(immed)
    BY <2>1, OperandsAre, Zenon DEF Takes
  <2>3. AluOut(m, i) = Trunc(rs + Trunc(immed))
    BY <2>1, <2>2, Zenon DEF AluOut, Alu, Arithmetic
  <2>4. Trunc(rs + Trunc(immed)) = Trunc(rs + immed) /\ Trunc(rs + immed) \in Word
    BY <1>1, <1>2, ImmedAdded, Zenon
  <2>. QED  BY <2>1, <2>3, <2>4, DestinationIs, ResultIs, Zenon
<1>. HIDE DEF rs, rt, c
<1>5. CASE i.op = "ADDI"
  <2>. DEFINE v == Trunc(rs + immed)
  <2>1. DataOut(m, i) = v /\ v \in Word
    BY <1>3, <1>5, Zenon
  <2>2. Writes(s, i) = <<i.rt, v>>
    BY <1>1, <1>5, Zenon DEF Writes
  <2>3. i.rt \in Reg
    BY <1>2, <1>5
  <2>. HIDE DEF v
  <2>. QED  BY <1>3, <2>1, <2>2, <2>3, WroteAgrees, Zenon DEF Wrote
<1>6. CASE i.op = "ADDIU"
  <2>. DEFINE v == Trunc(rs + immed)
  <2>1. DataOut(m, i) = v /\ v \in Word
    BY <1>3, <1>6, Zenon
  <2>2. Writes(s, i) = <<i.rt, v>>
    BY <1>1, <1>6, Zenon DEF Writes
  <2>3. i.rt \in Reg
    BY <1>2, <1>6
  <2>. HIDE DEF v
  <2>. QED  BY <1>3, <2>1, <2>2, <2>3, WroteAgrees, Zenon DEF Wrote
<1>. QED  BY <1>5, <1>6

\* An immediate as the upper half.
LEMMA LuiAgrees ==
  ASSUME NEW m, NEW s, NEW i \in Instr, SameRegisters(m, s), i.op \in {"LUI"}
  PROVE  RegistersAgree(m, s, i)
<1>. DEFINE c  == Ctl(i)
            rs == m.gpr[i.rs]
            rt == m.gpr[i.rt]
<1>1. /\ rs \in Word /\ rt \in Word /\ s.gpr[i.rs] = rs /\ s.gpr[i.rt] = rt
      /\ m.hi \in Word /\ m.lo \in Word /\ m.pc \in Word
      /\ s.hi = m.hi /\ s.lo = m.lo /\ s.pc = m.pc
  BY SameOperands
<1>2. /\ i.rs \in Reg /\ i.rt \in Reg /\ i.rd \in Nat /\ i.sa \in 0 .. W - 1 /\ i.imm \in Immed
      /\ i.op \notin {"EXT", "INS"} => i.rd \in Reg
  BY InstrFields, Zenon
<1>3. /\ GprOut(m, i) = SetReg(m.gpr, i.rt, DataOut(m, i))
      /\ DataOut(m, i) = i.imm * 2^H /\ i.imm * 2^H \in Word
  <2>1. Takes(c, "RS", "UP_IMMED") /\ Delivers(c, "RT", "ALU") /\ c.alu_funct = "ADD"
    BY DecodedLui, Zenon DEF Ctl
  <2>2. OpdA(m, i) = rs /\ OpdB(m, i) = i.imm * 2^H
    BY <2>1, OperandsAre, Zenon DEF Takes
  <2>3. AluOut(m, i) = Trunc(rs + i.imm * 2^H)
    BY <2>1, <2>2, Zenon DEF AluOut, Alu, Arithmetic
  <2>4. rs = 0
    <3>1. i.rs = 0
      BY InstrFields
    <3>2. m.gpr \in Registers
      BY MachineFields, Zenon DEF SameRegisters
    <3>. QED  BY <3>1, <3>2 DEF Registers
  <2>. DEFINE v == i.imm * 2^H
  <2>5. v \in Word
    BY <1>2, ImmedIsWord, Zenon
  <2>. HIDE DEF v
  <2>6. Trunc(0 + v) = v
    <3>1. 0 + v = v
      BY <2>5, WordDigits
    <3>. QED  BY <2>5, <3>1, TruncOfWord, Zenon
  <2>. QED  BY <2>1, <2>3, <2>4, <2>5, <2>6, DestinationIs, ResultIs, Zenon DEF v
<1>. HIDE DEF rs, rt, c
<1>5. CASE i.op = "LUI"
  <2>. DEFINE v == i.imm * 2^H
  <2>1. DataOut(m, i) = v /\ v \in Word
    BY <1>3, <1>5, Zenon
  <2>2. Writes(s, i) = <<i.rt, v>>
    BY <1>1, <1>5, Zenon DEF Writes
  <2>3. i.rt \in Reg
    BY <1>2, <1>5
  <2>. HIDE DEF v
  <2>. QED  BY <1>3, <2>1, <2>2, <2>3, WroteAgrees, Zenon DEF Wrote
<1>. QED  BY <1>5

\* Leading bits.
LEMMA CountAgrees ==
  ASSUME NEW m, NEW s, NEW i \in Instr, SameRegisters(m, s), i.op \in {"CLZ", "CLO"}
  PROVE  RegistersAgree(m, s, i)
<1>. DEFINE c  == Ctl(i)
            rs == m.gpr[i.rs]
            rt == m.gpr[i.rt]
<1>1. /\ rs \in Word /\ rt \in Word /\ s.gpr[i.rs] = rs /\ s.gpr[i.rt] = rt
      /\ m.hi \in Word /\ m.lo \in Word /\ m.pc \in Word
      /\ s.hi = m.hi /\ s.lo = m.lo /\ s.pc = m.pc
  BY SameOperands
<1>2. /\ i.rs \in Reg /\ i.rt \in Reg /\ i.rd \in Nat /\ i.sa \in 0 .. W - 1 /\ i.imm \in Immed
      /\ i.op \notin {"EXT", "INS"} => i.rd \in Reg
  BY InstrFields, Zenon
<1>. DEFINE sa == ShiftAmount(m, i, c)
            b  == OpdB(m, i)
<1>3. /\ GprOut(m, i) = SetReg(m.gpr, i.rd, DataOut(m, i))
      /\ DataOut(m, i) = Alu(D!FunctOf[i.op], rs, b, sa)
  <2>1. c.alu_srcA = "RS" /\ Delivers(c, "RD", "ALU") /\ c.alu_funct = D!FunctOf[i.op]
    BY DecodedCount, Zenon DEF Ctl
  <2>2. OpdA(m, i) = rs
    BY <2>1, OperandsAre, Zenon
  <2>. QED  BY <2>1, <2>2, DestinationIs, ResultIs, Zenon DEF AluOut
<1>. HIDE DEF rs, rt, sa, b, c
<1>5. CASE i.op = "CLZ"
  <2>. DEFINE v == LeadingRun(rs, 0)
  <2>1. D!FunctOf[i.op] = "CLZ"
    BY <1>5 DEF D!FunctOf
  <2>2. DataOut(m, i) = v /\ v \in Word
    <3>1. Alu("CLZ", rs, b, sa) = Clz[W][rs][1]
      BY Zenon DEF Alu, Logic
    <3>2. Clz[W][rs][1] = v /\ v \in Word
      BY <1>1, Counted, Zenon
    <3>. QED  BY <1>3, <2>1, <3>1, <3>2, Zenon
  <2>3. Writes(s, i) = <<i.rd, v>>
    BY <1>1, <1>5, Zenon DEF Writes
  <2>4. i.rd \in Reg
    BY <1>2, <1>5
  <2>. HIDE DEF v
  <2>. QED  BY <1>3, <2>2, <2>3, <2>4, WroteAgrees, Zenon DEF Wrote
<1>6. CASE i.op = "CLO"
  <2>. DEFINE v == LeadingRun(rs, 1)
  <2>1. D!FunctOf[i.op] = "CLO"
    BY <1>6 DEF D!FunctOf
  <2>2. DataOut(m, i) = v /\ v \in Word
    <3>1. Alu("CLO", rs, b, sa) = Clz[W][Complement(rs)][1]
      BY Zenon DEF Alu, Logic
    <3>2. Clz[W][Complement(rs)][1] = v /\ v \in Word
      BY <1>1, Counted, Zenon
    <3>. QED  BY <1>3, <2>1, <3>1, <3>2, Zenon
  <2>3. Writes(s, i) = <<i.rd, v>>
    BY <1>1, <1>6, Zenon DEF Writes
  <2>4. i.rd \in Reg
    BY <1>2, <1>6
  <2>. HIDE DEF v
  <2>. QED  BY <1>3, <2>2, <2>3, <2>4, WroteAgrees, Zenon DEF Wrote
<1>. QED  BY <1>5, <1>6

\* Bytes that are swapped, and signs that are extended.
LEMMA ShuffleAgrees ==
  ASSUME NEW m, NEW s, NEW i \in Instr, SameRegisters(m, s), i.op \in D!ByteShuffleOps
  PROVE  RegistersAgree(m, s, i)
<1>. DEFINE c  == Ctl(i)
            rs == m.gpr[i.rs]
            rt == m.gpr[i.rt]
<1>1. /\ rs \in Word /\ rt \in Word /\ s.gpr[i.rs] = rs /\ s.gpr[i.rt] = rt
      /\ m.hi \in Word /\ m.lo \in Word /\ m.pc \in Word
      /\ s.hi = m.hi /\ s.lo = m.lo /\ s.pc = m.pc
  BY SameOperands
<1>2. /\ i.rs \in Reg /\ i.rt \in Reg /\ i.rd \in Nat /\ i.sa \in 0 .. W - 1 /\ i.imm \in Immed
      /\ i.op \notin {"EXT", "INS"} => i.rd \in Reg
  BY InstrFields, Zenon
<1>. DEFINE b == OpdB(m, i)
<1>3. /\ GprOut(m, i) = SetReg(m.gpr, i.rd, DataOut(m, i))
      /\ DataOut(m, i) = Special3(D!FunctOf[i.op], rt, b, i.rd, i.sa)
  <2>1. c.alu_srcA = "RT" /\ Delivers(c, "RD", "SPECIAL3") /\ c.alu_funct = D!FunctOf[i.op]
    BY DecodedShuffle, Zenon DEF Ctl
  <2>2. OpdA(m, i) = rt
    BY <2>1, OperandsAre, Zenon
  <2>. QED  BY <2>1, <2>2, DestinationIs, ResultIs, Zenon
<1>. HIDE DEF rs, rt, b, c
<1>5. CASE i.op = "SEB"
  <2>. DEFINE v == Trunc(SignN(rt, ByteBits))
  <2>1. D!FunctOf[i.op] = "SIGN_EXT_BYTE"
    BY <1>5 DEF D!FunctOf
  <2>2. DataOut(m, i) = v /\ v \in Word
    <3>1. Special3("SIGN_EXT_BYTE", rt, b, i.rd, i.sa) = v
      BY Zenon DEF Special3
    <3>2. v \in Word
      <4>1. rt \in Int /\ ByteBits \in Nat
        BY <1>1, WordDigits, Sizes
      <4>. QED  BY <4>1, SignNType, TruncIsWord, Zenon
    <3>. QED  BY <1>3, <2>1, <3>1, <3>2, Zenon
  <2>3. Writes(s, i) = <<i.rd, v>>
    BY <1>1, <1>5, Zenon DEF Writes
  <2>4. i.rd \in Reg
    BY <1>2, <1>5
  <2>. HIDE DEF v
  <2>. QED  BY <1>3, <2>2, <2>3, <2>4, WroteAgrees, Zenon DEF Wrote
<1>6. CASE i.op = "SEH"
  <2>. DEFINE v == Trunc(SignN(rt, H))
  <2>1. D!FunctOf[i.op] = "SIGN_EXT_HALF"
    BY <1>6 DEF D!FunctOf
  <2>2. DataOut(m, i) = v /\ v \in Word
    <3>1. Special3("SIGN_EXT_HALF", rt, b, i.rd, i.sa) = v
      BY Zenon DEF Special3
    <3>2. v \in Word
      <4>1. rt \in Int /\ H \in Nat
        BY <1>1, WordDigits, Sizes
      <4>. QED  BY <4>1, SignNType, TruncIsWord, Zenon
    <3>. QED  BY <1>3, <2>1, <3>1, <3>2, Zenon
  <2>3. Writes(s, i) = <<i.rd, v>>
    BY <1>1, <1>6, Zenon DEF Writes
  <2>4. i.rd \in Reg
    BY <1>2, <1>6
  <2>. HIDE DEF v
  <2>. QED  BY <1>3, <2>2, <2>3, <2>4, WroteAgrees, Zenon DEF Wrote
<1>7. CASE i.op = "WSBH"
  <2>. DEFINE part(k) == (rt \div 2^(ByteBits * k)) % 2^ByteBits
              v == part(1) + part(0) * 2^ByteBits + part(3) * 2^H + part(2) * 2^(H + ByteBits)
  <2>1. D!FunctOf[i.op] = "SWAP_BYTE_IN_HALF"
    BY <1>7 DEF D!FunctOf
  <2>2. DataOut(m, i) = v /\ v \in Word
    <3>1. Special3("SWAP_BYTE_IN_HALF", rt, b, i.rd, i.sa) = FromBits({Swap(k) : k \in Bits(rt)})
      BY Zenon DEF Special3, Swap
    <3>2. FromBits({Swap(k) : k \in Bits(rt)}) = v /\ v \in Word
      BY <1>1, BytesSwapped, Zenon
    <3>. QED  BY <1>3, <2>1, <3>1, <3>2, Zenon
  <2>3. Writes(s, i) = <<i.rd, v>>
    BY <1>1, <1>7, Zenon DEF Writes
  <2>4. i.rd \in Reg
    BY <1>2, <1>7
  <2>. HIDE DEF v
  <2>. QED  BY <1>3, <2>2, <2>3, <2>4, WroteAgrees, Zenon DEF Wrote
<1>. QED  BY <1>5, <1>6, <1>7 DEF D!ByteShuffleOps

\* A bit field that is extracted.
LEMMA ExtAgrees ==
  ASSUME NEW m, NEW s, NEW i \in Instr, SameRegisters(m, s), i.op \in {"EXT"}
  PROVE  RegistersAgree(m, s, i)
<1>. DEFINE c  == Ctl(i)
            rs == m.gpr[i.rs]
            rt == m.gpr[i.rt]
<1>1. /\ rs \in Word /\ rt \in Word /\ s.gpr[i.rs] = rs /\ s.gpr[i.rt] = rt
      /\ m.hi \in Word /\ m.lo \in Word /\ m.pc \in Word
      /\ s.hi = m.hi /\ s.lo = m.lo /\ s.pc = m.pc
  BY SameOperands
<1>2. /\ i.rs \in Reg /\ i.rt \in Reg /\ i.rd \in Nat /\ i.sa \in 0 .. W - 1 /\ i.imm \in Immed
      /\ i.op \notin {"EXT", "INS"} => i.rd \in Reg
  BY InstrFields, Zenon
<1>. DEFINE v == (rs \div 2^i.sa) % 2^(i.rd + 1)
            b == OpdB(m, i)
<1>3. GprOut(m, i) = SetReg(m.gpr, i.rt, DataOut(m, i)) /\ DataOut(m, i) = v /\ v \in Word
  <2>1. c.alu_srcA = "RS" /\ Delivers(c, "RT", "SPECIAL3") /\ c.alu_funct = "EXTRACT_BIT"
    BY DecodedExt, Zenon DEF Ctl
  <2>2. OpdA(m, i) = rs
    BY <2>1, OperandsAre, Zenon
  <2>3. DataOut(m, i) = Special3("EXTRACT_BIT", rs, b, i.rd, i.sa)
    BY <2>1, <2>2, ResultIs, Zenon
  <2>4. i.sa + i.rd < W /\ i.sa \in Nat /\ i.rd \in Nat
    BY InstrFields
  <2>. HIDE DEF b, c, rs
  <2>5. Special3("EXTRACT_BIT", rs, b, i.rd, i.sa) = FromBits(Bits(rs \div 2^i.sa) \cap (0 .. i.rd))
    BY Zenon DEF Special3
  <2>6. FromBits(Bits(rs \div 2^i.sa) \cap (0 .. i.rd)) = v /\ v \in Word
    <3>. DEFINE lsb == i.sa
                msbd == i.rd
    <3>1. lsb + msbd < W /\ lsb \in Nat /\ msbd \in Nat
      BY <2>4
    <3>. HIDE DEF lsb, msbd
    <3>2. /\ (rs \div 2^lsb) % 2^(msbd + 1) \in Word
          /\ FromBits(Bits(rs \div 2^lsb) \cap (0 .. msbd)) = (rs \div 2^lsb) % 2^(msbd + 1)
      BY <1>1, <3>1, Extracted, Zenon
    <3>. QED  BY <3>2, Zenon DEF lsb, msbd
  <2>. QED  BY <2>1, <2>3, <2>5, <2>6, DestinationIs, Zenon DEF c
<1>. HIDE DEF rs, rt, b, c
<1>5. CASE i.op = "EXT"
  <2>1. Writes(s, i) = <<i.rt, v>>
    BY <1>1, <1>5, Zenon DEF Writes
  <2>. HIDE DEF v
  <2>. QED  BY <1>2, <1>3, <2>1, WroteAgrees, Zenon DEF Wrote
<1>. QED  BY <1>5

\* A bit field that is inserted.
LEMMA InsAgrees ==
  ASSUME NEW m, NEW s, NEW i \in Instr, SameRegisters(m, s), i.op \in {"INS"}
  PROVE  RegistersAgree(m, s, i)
<1>. DEFINE c  == Ctl(i)
            rs == m.gpr[i.rs]
            rt == m.gpr[i.rt]
<1>1. /\ rs \in Word /\ rt \in Word /\ s.gpr[i.rs] = rs /\ s.gpr[i.rt] = rt
      /\ m.hi \in Word /\ m.lo \in Word /\ m.pc \in Word
      /\ s.hi = m.hi /\ s.lo = m.lo /\ s.pc = m.pc
  BY SameOperands
<1>2. /\ i.rs \in Reg /\ i.rt \in Reg /\ i.rd \in Nat /\ i.sa \in 0 .. W - 1 /\ i.imm \in Immed
      /\ i.op \notin {"EXT", "INS"} => i.rd \in Reg
  BY InstrFields, Zenon
<1>. DEFINE f == 2^(i.rd - i.sa + 1)
            v == rt + ((rs % f) - ((rt \div 2^i.sa) % f)) * 2^i.sa
<1>3. GprOut(m, i) = SetReg(m.gpr, i.rt, DataOut(m, i)) /\ DataOut(m, i) = v /\ v \in Word
  <2>1. Takes(c, "RS", "RT") /\ Delivers(c, "RT", "SPECIAL3") /\ c.alu_funct = "INSERT_BIT"
    BY DecodedIns, Zenon DEF Ctl
  <2>2. OpdA(m, i) = rs /\ OpdB(m, i) = rt
    BY <2>1, OperandsAre, Zenon DEF Takes
  <2>3. DataOut(m, i) = Special3("INSERT_BIT", rs, rt, i.rd, i.sa)
    BY <2>1, <2>2, ResultIs, Zenon
  <2>. DEFINE lsb == i.sa
              msb == i.rd
              field == {k \in 0 .. msb : k >= lsb}
              r == FromBits((field \cap Bits(Trunc(rs * 2^lsb))) \cup (Bits(rt) \ field))
              len == msb - lsb + 1
              new == Replaced(rt, lsb, len, rs % 2^len)
  <2>4. lsb <= msb /\ msb < W /\ lsb \in Nat /\ msb \in Nat
    BY InstrFields
  <2>5. Special3("INSERT_BIT", rs, rt, i.rd, i.sa) = r
    BY Zenon DEF Special3
  <2>. HIDE DEF c, rs, rt
  <2>6. v = new
    BY Zenon DEF Replaced
  <2>. HIDE DEF lsb, msb
  <2>7. r = new /\ new \in Word
    <3>1. \A low, high \in Nat : low <= high /\ high < W =>
            LET bits == {k \in 0 .. high : k >= low}
                n    == high - low + 1
            IN  /\ Replaced(rt, low, n, rs % 2^n) \in Word
                /\ FromBits((bits \cap Bits(Trunc(rs * 2^low))) \cup (Bits(rt) \ bits))
                     = Replaced(rt, low, n, rs % 2^n)
      BY ONLY <1>1, Inserted, Zenon
    <3>. QED  BY ONLY <2>4, <3>1, Zenon
  <2>. QED  BY <2>1, <2>3, <2>5, <2>6, <2>7, DestinationIs, Zenon DEF c
<1>. HIDE DEF rs, rt, c
<1>5. CASE i.op = "INS"
  <2>1. Writes(s, i) = <<i.rt, v>>
    BY <1>1, <1>5, Zenon DEF Writes
  <2>. HIDE DEF v
  <2>. QED  BY <1>2, <1>3, <2>1, WroteAgrees, Zenon DEF Wrote
<1>. QED  BY <1>5

\* Moves on a condition.
LEMMA MovedAgrees ==
  ASSUME NEW m, NEW s, NEW i \in Instr, SameRegisters(m, s), i.op \in {"MOVZ", "MOVN"}
  PROVE  RegistersAgree(m, s, i)
<1>. DEFINE c  == Ctl(i)
            rs == m.gpr[i.rs]
            rt == m.gpr[i.rt]
<1>1. /\ rs \in Word /\ rt \in Word /\ s.gpr[i.rs] = rs /\ s.gpr[i.rt] = rt
      /\ m.hi \in Word /\ m.lo \in Word /\ m.pc \in Word
      /\ s.hi = m.hi /\ s.lo = m.lo /\ s.pc = m.pc
  BY SameOperands
<1>2. /\ i.rs \in Reg /\ i.rt \in Reg /\ i.rd \in Nat /\ i.sa \in 0 .. W - 1 /\ i.imm \in Immed
      /\ i.op \notin {"EXT", "INS"} => i.rd \in Reg
  BY InstrFields, Zenon
<1>3. /\ FlagOut(m, i) = Flag(D!FlagOf[i.op], rt, 0)
      /\ GprOut(m, i) = IF FlagOut(m, i) THEN SetReg(m.gpr, i.rd, rs) ELSE m.gpr
  <2>1. /\ Takes(c, "RT", "ZERO") /\ c.flag_sel = D!FlagOf[i.op]
        /\ c.write_reg /\ c.write_cond = "WHEN_FLAG" /\ c.dest_reg = "RD" /\ c.reg_src = "RS"
    BY DecodedMoved, Zenon DEF Ctl
  <2>2. OpdA(m, i) = rt /\ OpdB(m, i) = 0
    BY <2>1, OperandsAre, Zenon DEF Takes
  <2>3. DataOut(m, i) = rs
    BY <2>1, Zenon DEF DataOut, RegisterData
  <2>4. DestReg(c, i) = i.rd
    BY <2>1, Zenon DEF DestReg
  <2>5. WritesRegister(c, FlagOut(m, i)) <=> FlagOut(m, i)
    BY <2>1, Zenon DEF WritesRegister
  <2>6. GprOut(m, i) = IF WritesRegister(c, FlagOut(m, i)) THEN SetReg(m.gpr, i.rd, rs) ELSE m.gpr
    BY <2>3, <2>4, Zenon DEF GprOut
  <2>7. GprOut(m, i) = IF FlagOut(m, i) THEN SetReg(m.gpr, i.rd, rs) ELSE m.gpr
    <3>1. CASE FlagOut(m, i)
      BY <2>5, <2>6, <3>1, Zenon
    <3>2. CASE ~FlagOut(m, i)
      BY <2>5, <2>6, <3>2, Zenon
    <3>. QED  BY <3>1, <3>2, Zenon
  <2>. QED  BY <2>1, <2>2, <2>7, Zenon DEF FlagOut
<1>. HIDE DEF rs, rt, c
<1>5. CASE i.op = "MOVZ"
  <2>. DEFINE r == IF rt = 0 THEN i.rd ELSE 0
  <2>1. D!FlagOf[i.op] = "EQ"
    BY <1>5 DEF D!FlagOf
  <2>2. FlagOut(m, i) <=> rt = 0
    BY <1>1, <1>3, <2>1, BoolIsWord, FlagIs, Zenon
  <2>3. Writes(s, i) = <<r, rs>>
    BY <1>1, <1>5, Zenon DEF Writes
  <2>4. r \in Reg
    <3>1. i.rd \in Reg /\ 0 \in Reg
      BY <1>2, <1>5, Sizes DEF Reg
    <3>. QED  BY <3>1
  <2>5. GprOut(m, i) = SetReg(m.gpr, r, rs)
    <3>1. CASE rt = 0
      BY <1>3, <2>2, <3>1, Zenon
    <3>2. CASE ~(rt = 0)
      <4>1. SetReg(m.gpr, r, rs) = m.gpr
        BY <3>2, Zenon DEF SetReg
      <4>. QED  BY <1>3, <2>2, <3>2, <4>1, Zenon
    <3>. QED  BY <3>1, <3>2, Zenon
  <2>. HIDE DEF r
  <2>. QED  BY <1>1, <2>3, <2>4, <2>5, WroteAgrees, Zenon DEF Wrote
<1>6. CASE i.op = "MOVN"
  <2>. DEFINE r == IF rt # 0 THEN i.rd ELSE 0
  <2>1. D!FlagOf[i.op] = "NE"
    BY <1>6 DEF D!FlagOf
  <2>2. FlagOut(m, i) <=> rt # 0
    BY <1>1, <1>3, <2>1, BoolIsWord, FlagIs, Zenon
  <2>3. Writes(s, i) = <<r, rs>>
    BY <1>1, <1>6, Zenon DEF Writes
  <2>4. r \in Reg
    <3>1. i.rd \in Reg /\ 0 \in Reg
      BY <1>2, <1>6, Sizes DEF Reg
    <3>. QED  BY <3>1
  <2>5. GprOut(m, i) = SetReg(m.gpr, r, rs)
    <3>1. CASE rt # 0
      BY <1>3, <2>2, <3>1, Zenon
    <3>2. CASE ~(rt # 0)
      <4>1. SetReg(m.gpr, r, rs) = m.gpr
        BY <3>2, Zenon DEF SetReg
      <4>. QED  BY <1>3, <2>2, <3>2, <4>1, Zenon
    <3>. QED  BY <3>1, <3>2, Zenon
  <2>. HIDE DEF r
  <2>. QED  BY <1>1, <2>3, <2>4, <2>5, WroteAgrees, Zenon DEF Wrote
<1>. QED  BY <1>5, <1>6

\* The low word of a product.
LEMMA MulAgrees ==
  ASSUME NEW m, NEW s, NEW i \in Instr, SameRegisters(m, s), i.op \in {"MUL"}
  PROVE  RegistersAgree(m, s, i)
<1>. DEFINE c  == Ctl(i)
            rs == m.gpr[i.rs]
            rt == m.gpr[i.rt]
<1>1. /\ rs \in Word /\ rt \in Word /\ s.gpr[i.rs] = rs /\ s.gpr[i.rt] = rt
      /\ m.hi \in Word /\ m.lo \in Word /\ m.pc \in Word
      /\ s.hi = m.hi /\ s.lo = m.lo /\ s.pc = m.pc
  BY SameOperands
<1>2. /\ i.rs \in Reg /\ i.rt \in Reg /\ i.rd \in Nat /\ i.sa \in 0 .. W - 1 /\ i.imm \in Immed
      /\ i.op \notin {"EXT", "INS"} => i.rd \in Reg
  BY InstrFields, Zenon
<1>3. /\ GprOut(m, i) = SetReg(m.gpr, i.rd, DataOut(m, i))
      /\ DataOut(m, i) = Trunc(rs * rt) /\ Trunc(rs * rt) \in Word
  <2>1. Delivers(c, "RD", "MUL") /\ c.muldiv_funct = "MULT"
    BY DecodedMul, Zenon DEF Ctl
  <2>2. ProductOut(m, i) = MulDiv("MULT", rs, rt, m.hi, m.lo)
    BY <2>1, Zenon DEF ProductOut
  <2>3. MulDiv("MULT", rs, rt, m.hi, m.lo)[2] = Trunc(rs * rt) /\ Trunc(rs * rt) \in Word
    <3>. DEFINE hi == m.hi
                lo == m.lo
    <3>1. hi \in Word /\ lo \in Word
      BY <1>1
    <3>. HIDE DEF rs, rt, hi, lo
    <3>2. MulDiv("MULT", rs, rt, hi, lo)[2] = Trunc(rs * rt) /\ Trunc(rs * rt) \in Word
      BY ONLY <1>1, <3>1, LowProduct, SMT
    <3>. QED  BY <3>2, Zenon DEF hi, lo
  <2>. QED  BY <2>1, <2>2, <2>3, DestinationIs, ResultIs, Zenon
<1>. HIDE DEF rs, rt, c
<1>5. CASE i.op = "MUL"
  <2>. DEFINE v == Trunc(rs * rt)
  <2>1. DataOut(m, i) = v /\ v \in Word
    BY <1>3, <1>5, Zenon
  <2>2. Writes(s, i) = <<i.rd, v>>
    BY <1>1, <1>5, Zenon DEF Writes
  <2>3. i.rd \in Reg
    BY <1>2, <1>5
  <2>. HIDE DEF v
  <2>. QED  BY <1>3, <2>1, <2>2, <2>3, WroteAgrees, Zenon DEF Wrote
<1>. QED  BY <1>5

\* hi is read.
LEMMA FromHiAgrees ==
  ASSUME NEW m, NEW s, NEW i \in Instr, SameRegisters(m, s), i.op \in {"MFHI"}
  PROVE  RegistersAgree(m, s, i)
<1>. DEFINE c  == Ctl(i)
            rs == m.gpr[i.rs]
            rt == m.gpr[i.rt]
<1>1. /\ rs \in Word /\ rt \in Word /\ s.gpr[i.rs] = rs /\ s.gpr[i.rt] = rt
      /\ m.hi \in Word /\ m.lo \in Word /\ m.pc \in Word
      /\ s.hi = m.hi /\ s.lo = m.lo /\ s.pc = m.pc
  BY SameOperands
<1>2. /\ i.rs \in Reg /\ i.rt \in Reg /\ i.rd \in Nat /\ i.sa \in 0 .. W - 1 /\ i.imm \in Immed
      /\ i.op \notin {"EXT", "INS"} => i.rd \in Reg
  BY InstrFields, Zenon
<1>3. /\ GprOut(m, i) = SetReg(m.gpr, i.rd, DataOut(m, i))
      /\ DataOut(m, i) = m.hi /\ m.hi \in Word
  <2>1. Delivers(c, "RD", "HI")
    BY DecodedFromHi, Zenon DEF Ctl
  <2>. QED  BY <1>1, <2>1, DestinationIs, ResultIs, Zenon
<1>. HIDE DEF rs, rt, c
<1>5. CASE i.op = "MFHI"
  <2>. DEFINE v == m.hi
  <2>1. DataOut(m, i) = v /\ v \in Word
    BY <1>3, <1>5, Zenon
  <2>2. Writes(s, i) = <<i.rd, v>>
    BY <1>1, <1>5, Zenon DEF Writes
  <2>3. i.rd \in Reg
    BY <1>2, <1>5
  <2>. HIDE DEF v
  <2>. QED  BY <1>3, <2>1, <2>2, <2>3, WroteAgrees, Zenon DEF Wrote
<1>. QED  BY <1>5

\* lo is read.
LEMMA FromLoAgrees ==
  ASSUME NEW m, NEW s, NEW i \in Instr, SameRegisters(m, s), i.op \in {"MFLO"}
  PROVE  RegistersAgree(m, s, i)
<1>. DEFINE c  == Ctl(i)
            rs == m.gpr[i.rs]
            rt == m.gpr[i.rt]
<1>1. /\ rs \in Word /\ rt \in Word /\ s.gpr[i.rs] = rs /\ s.gpr[i.rt] = rt
      /\ m.hi \in Word /\ m.lo \in Word /\ m.pc \in Word
      /\ s.hi = m.hi /\ s.lo = m.lo /\ s.pc = m.pc
  BY SameOperands
<1>2. /\ i.rs \in Reg /\ i.rt \in Reg /\ i.rd \in Nat /\ i.sa \in 0 .. W - 1 /\ i.imm \in Immed
      /\ i.op \notin {"EXT", "INS"} => i.rd \in Reg
  BY InstrFields, Zenon
<1>3. /\ GprOut(m, i) = SetReg(m.gpr, i.rd, DataOut(m, i))
      /\ DataOut(m, i) = m.lo /\ m.lo \in Word
  <2>1. Delivers(c, "RD", "LO")
    BY DecodedFromLo, Zenon DEF Ctl
  <2>. QED  BY <1>1, <2>1, DestinationIs, ResultIs, Zenon
<1>. HIDE DEF rs, rt, c
<1>5. CASE i.op = "MFLO"
  <2>. DEFINE v == m.lo
  <2>1. DataOut(m, i) = v /\ v \in Word
    BY <1>3, <1>5, Zenon
  <2>2. Writes(s, i) = <<i.rd, v>>
    BY <1>1, <1>5, Zenon DEF Writes
  <2>3. i.rd \in Reg
    BY <1>2, <1>5
  <2>. HIDE DEF v
  <2>. QED  BY <1>3, <2>1, <2>2, <2>3, WroteAgrees, Zenon DEF Wrote
<1>. QED  BY <1>5

\* The simulator reads bytes of a word.
LEMMA LittleEndianIs ==
  \A s, a, n : LittleEndian(s, a, n) = BytesOf(s.mem[a \div BPW], a % BPW, n)
BY Zenon DEF LittleEndian, BytesOf, ByteShift

\* A load of a word that both know.
LEMMA LoadAgrees ==
  ASSUME NEW m, NEW s, NEW i \in Instr, SameRegisters(m, s), i.op \in D!LoadOps,
         Raises(s, i) = "NONE", Ea(s, i) \div BPW \in MemWord,
         m.mem[Ea(s, i) \div BPW] = s.mem[Ea(s, i) \div BPW]
  PROVE  RegistersAgree(m, s, i)
<1>. DEFINE c  == Ctl(i)
            rs == m.gpr[i.rs]
            rt == m.gpr[i.rt]
            ea == Ea(s, i)
            idx == ea % BPW
            w   == ea \div BPW
            word == s.mem[w]
<1>1. /\ m \in Machine /\ rs \in Word /\ rt \in Word /\ s.gpr[i.rs] = rs /\ s.gpr[i.rt] = rt
      /\ word \in Word /\ m.mem[w] = word
  <2>1. m \in Machine /\ s \in Machine
    BY Zenon DEF SameRegisters
  <2>2. word \in Word
    <3>1. s.mem \in [MemWord -> Word]
      BY <2>1, MachineFields, Zenon
    <3>. QED  BY <3>1
  <2>. QED  BY <2>1, <2>2, SameOperands
<1>2. i.rt \in Reg
  BY InstrFields, Zenon
<1>3. AluOut(m, i) = ea /\ ea \in Word
  <2>1. Ea(m, i) = ea
    BY Zenon DEF Ea, SameRegisters
  <2>. QED  BY <1>1, <2>1, AddressIs, Zenon
<1>4. /\ idx \in 0 .. 3 /\ ea \in Nat
      /\ (ea - (idx + 1) + 1) \div BPW = w /\ (ea - (idx + 1) + 1) % BPW = 0
      /\ (ea % 2 = 0 => idx \in {0, 2})
  BY <1>3, AddressParts, Zenon
<1>12. /\ i.op \in {"LH", "LHU"} => idx \in {0, 2}
       /\ i.op = "LW" => idx = 0
  <2>1. ~Unaligned(s, i)
    BY DEF Raises
  <2>2. /\ i.op \in {"LH", "LHU"} => ea % 2 = 0
        /\ i.op = "LW" => idx = 0
    BY <2>1 DEF Unaligned
  <2>. QED  BY <1>4, <2>2, Zenon
<1>13. /\ GprOut(m, i) = SetReg(m.gpr, i.rt, DataOut(m, i))
       /\ DataOut(m, i) = Load(D!ReadModeOf[i.op], rt, word, idx)
  <2>1. c.read_mode = D!ReadModeOf[i.op] /\ Delivers(c, "RT", "MEM")
    BY DecodedLoad, Zenon DEF Ctl
  <2>2. DataOut(m, i) = Load(D!ReadModeOf[i.op], rt, m.mem[w], idx)
    BY <1>3, <2>1, ResultIs, Zenon
  <2>. QED  BY <1>1, <2>1, <2>2, DestinationIs, Zenon
<1>14. \A n : LittleEndian(s, ea, n) = BytesOf(word, idx, n)
  BY LittleEndianIs, Zenon
<1>15. Trunc(s.gpr[i.rs] + SignN(i.imm, H)) = ea
  BY Zenon DEF Ea
<1>16. \A n : LittleEndian(s, ea - (idx + 1) + 1, n) = BytesOf(word, 0, n)
  BY <1>4, LittleEndianIs, Zenon
<1>. HIDE DEF c, rs, rt, ea, idx, w, word
<1>5. CASE i.op = "LB"
  <2>. DEFINE v == Trunc(SignN(BytesOf(word, idx, 1), ByteBits))
              u == Trunc(SignN(Byte(s, ea), ByteBits))
  <2>1. D!ReadModeOf[i.op] = "BYTE"
    BY <1>5 DEF D!ReadModeOf
  <2>2. Load("BYTE", rt, word, idx) = v /\ v \in Word
    BY <1>1, <1>4, <1>12, <1>5, LoadedByte, Zenon
  <2>3. Writes(s, i) = <<i.rt, u>>
    BY <1>1, <1>15, <1>5, Zenon DEF Writes, idx
  <2>4. u = v
    BY <1>12, <1>14, <1>16, <1>5, Zenon DEF Byte
  <2>. HIDE DEF v, u
  <2>. QED  BY <1>2, <1>13, <2>1, <2>2, <2>3, <2>4, WroteAgrees, Zenon DEF Wrote
<1>6. CASE i.op = "LBU"
  <2>. DEFINE v == BytesOf(word, idx, 1)
              u == Byte(s, ea)
  <2>1. D!ReadModeOf[i.op] = "UNSIGN_BYTE"
    BY <1>6 DEF D!ReadModeOf
  <2>2. Load("UNSIGN_BYTE", rt, word, idx) = v /\ v \in Word
    BY <1>1, <1>4, <1>12, <1>6, LoadedByte, Zenon
  <2>3. Writes(s, i) = <<i.rt, u>>
    BY <1>1, <1>15, <1>6, Zenon DEF Writes, idx
  <2>4. u = v
    BY <1>12, <1>14, <1>16, <1>6, Zenon DEF Byte
  <2>. HIDE DEF v, u
  <2>. QED  BY <1>2, <1>13, <2>1, <2>2, <2>3, <2>4, WroteAgrees, Zenon DEF Wrote
<1>7. CASE i.op = "LH"
  <2>. DEFINE v == Trunc(SignN(BytesOf(word, idx, 2), H))
              u == Trunc(SignN(LittleEndian(s, ea, 2), H))
  <2>1. D!ReadModeOf[i.op] = "HALF"
    BY <1>7 DEF D!ReadModeOf
  <2>2. Load("HALF", rt, word, idx) = v /\ v \in Word
    <3>. DEFINE even == {0, 2}
    <3>1. idx \in even
      BY <1>12, <1>7
    <3>2. \A old, loaded \in Word : \A k \in even :
            /\ Load("HALF", old, loaded, k) = Trunc(SignN(BytesOf(loaded, k, 2), H))
            /\ Load("UNSIGN_HALF", old, loaded, k) = BytesOf(loaded, k, 2)
            /\ Trunc(SignN(BytesOf(loaded, k, 2), H)) \in Word /\ BytesOf(loaded, k, 2) \in Word
      BY LoadedHalf, Zenon
    <3>. HIDE DEF even
    <3>. QED  BY ONLY <1>1, <3>1, <3>2, Zenon
  <2>3. Writes(s, i) = <<i.rt, u>>
    BY <1>1, <1>15, <1>7, Zenon DEF Writes, idx
  <2>4. u = v
    BY <1>12, <1>14, <1>16, <1>7, Zenon DEF Byte
  <2>. HIDE DEF v, u
  <2>. QED  BY <1>2, <1>13, <2>1, <2>2, <2>3, <2>4, WroteAgrees, Zenon DEF Wrote
<1>8. CASE i.op = "LHU"
  <2>. DEFINE v == BytesOf(word, idx, 2)
              u == LittleEndian(s, ea, 2)
  <2>1. D!ReadModeOf[i.op] = "UNSIGN_HALF"
    BY <1>8 DEF D!ReadModeOf
  <2>2. Load("UNSIGN_HALF", rt, word, idx) = v /\ v \in Word
    <3>. DEFINE even == {0, 2}
    <3>1. idx \in even
      BY <1>12, <1>8
    <3>2. \A old, loaded \in Word : \A k \in even :
            /\ Load("HALF", old, loaded, k) = Trunc(SignN(BytesOf(loaded, k, 2), H))
            /\ Load("UNSIGN_HALF", old, loaded, k) = BytesOf(loaded, k, 2)
            /\ Trunc(SignN(BytesOf(loaded, k, 2), H)) \in Word /\ BytesOf(loaded, k, 2) \in Word
      BY LoadedHalf, Zenon
    <3>. HIDE DEF even
    <3>. QED  BY ONLY <1>1, <3>1, <3>2, Zenon
  <2>3. Writes(s, i) = <<i.rt, u>>
    BY <1>1, <1>15, <1>8, Zenon DEF Writes, idx
  <2>4. u = v
    BY <1>12, <1>14, <1>16, <1>8, Zenon DEF Byte
  <2>. HIDE DEF v, u
  <2>. QED  BY <1>2, <1>13, <2>1, <2>2, <2>3, <2>4, WroteAgrees, Zenon DEF Wrote
<1>9. CASE i.op = "LW"
  <2>. DEFINE v == BytesOf(word, 0, BPW)
              u == LittleEndian(s, ea, BPW)
  <2>1. D!ReadModeOf[i.op] = "WORD"
    BY <1>9 DEF D!ReadModeOf
  <2>2. Load("WORD", rt, word, idx) = v /\ v \in Word
    BY <1>1, <1>4, <1>12, <1>9, LoadedWord, Zenon
  <2>3. Writes(s, i) = <<i.rt, u>>
    BY <1>1, <1>15, <1>9, Zenon DEF Writes, idx
  <2>4. u = v
    BY <1>12, <1>14, <1>16, <1>9, Zenon DEF Byte
  <2>. HIDE DEF v, u
  <2>. QED  BY <1>2, <1>13, <2>1, <2>2, <2>3, <2>4, WroteAgrees, Zenon DEF Wrote
<1>10. CASE i.op = "LWL"
  <2>. DEFINE v == BytesOf(word, 0, idx + 1) * 2^(ByteBits * (BPW - (idx + 1)))
                   + (rt % 2^(ByteBits * (BPW - (idx + 1))))
              u == LittleEndian(s, ea - (idx + 1) + 1, idx + 1) * 2^(ByteBits * (BPW - (idx + 1)))
                       + (rt % 2^(ByteBits * (BPW - (idx + 1))))
  <2>1. D!ReadModeOf[i.op] = "LWL"
    BY <1>10 DEF D!ReadModeOf
  <2>2. Load("LWL", rt, word, idx) = v /\ v \in Word
    BY <1>1, <1>4, <1>12, <1>10, LoadedLeft, Zenon
  <2>3. Writes(s, i) = <<i.rt, u>>
    BY <1>1, <1>15, <1>10, Zenon DEF Writes, idx
  <2>4. u = v
    BY <1>12, <1>14, <1>16, <1>10, Zenon DEF Byte
  <2>. HIDE DEF v, u
  <2>. QED  BY <1>2, <1>13, <2>1, <2>2, <2>3, <2>4, WroteAgrees, Zenon DEF Wrote
<1>11. CASE i.op = "LWR"
  <2>. DEFINE v == rt - (rt % 2^(ByteBits * (BPW - idx))) + BytesOf(word, idx, BPW - idx)
              u == rt - (rt % 2^(ByteBits * (BPW - idx))) + LittleEndian(s, ea, BPW - idx)
  <2>1. D!ReadModeOf[i.op] = "LWR"
    BY <1>11 DEF D!ReadModeOf
  <2>2. Load("LWR", rt, word, idx) = v /\ v \in Word
    BY <1>1, <1>4, <1>12, <1>11, LoadedRight, Zenon
  <2>3. Writes(s, i) = <<i.rt, u>>
    BY <1>1, <1>15, <1>11, Zenon DEF Writes, idx
  <2>4. u = v
    BY <1>12, <1>14, <1>16, <1>11, Zenon DEF Byte
  <2>. HIDE DEF v, u
  <2>. QED  BY <1>2, <1>13, <2>1, <2>2, <2>3, <2>4, WroteAgrees, Zenon DEF Wrote
<1>. QED  BY <1>5, <1>6, <1>7, <1>8, <1>9, <1>10, <1>11 DEF D!LoadOps

\* The address that a call returns to.
LEMMA LinkAgrees ==
  ASSUME NEW m, NEW s, NEW i \in Instr, SameRegisters(m, s),
         i.op \in {"JAL", "JALR", "BLTZAL", "BGEZAL"}
  PROVE  RegistersAgree(m, s, i)
<1>. DEFINE c  == Ctl(i)
            rs == m.gpr[i.rs]
            rt == m.gpr[i.rt]
<1>1. /\ rs \in Word /\ rt \in Word /\ s.gpr[i.rs] = rs /\ s.gpr[i.rt] = rt
      /\ m.hi \in Word /\ m.lo \in Word /\ m.pc \in Word
      /\ s.hi = m.hi /\ s.lo = m.lo /\ s.pc = m.pc
  BY SameOperands
<1>2. /\ i.rs \in Reg /\ i.rt \in Reg /\ i.rd \in Nat /\ i.sa \in 0 .. W - 1 /\ i.imm \in Immed
      /\ i.op \notin {"EXT", "INS"} => i.rd \in Reg
  BY InstrFields, Zenon
<1>. DEFINE v == Trunc(m.pc + 2)
<1>3. v \in Word /\ RA \in Reg
  <2>1. m.pc + 2 \in Int
    BY <1>1, WordDigits
  <2>2. RA \in Reg
    BY Sizes DEF RA, Reg
  <2>. QED  BY <2>1, <2>2, TruncIsWord, Zenon
<1>. HIDE DEF rs, rt
<1>5. CASE i.op = "JAL"
  <2>1. Delivers(c, "31", "LINKADDR")
    BY <1>5, DecodedJumpLink, Zenon DEF Ctl
  <2>2. GprOut(m, i) = SetReg(m.gpr, RA, DataOut(m, i)) /\ DataOut(m, i) = v
    BY <2>1, DestinationIs, ResultIs, Zenon
  <2>3. Writes(s, i) = <<RA, v>>
    BY <1>1, <1>5, Zenon DEF Writes
  <2>4. RA \in Reg
    BY <1>3, Zenon
  <2>. HIDE DEF v, c
  <2>. QED  BY <1>3, <2>2, <2>3, <2>4, WroteAgrees, Zenon DEF Wrote
<1>6. CASE i.op = "JALR"
  <2>1. Delivers(c, "RD", "LINKADDR")
    BY <1>6, DecodedJumpRegLink, Zenon DEF Ctl
  <2>2. GprOut(m, i) = SetReg(m.gpr, i.rd, DataOut(m, i)) /\ DataOut(m, i) = v
    BY <2>1, DestinationIs, ResultIs, Zenon
  <2>3. Writes(s, i) = <<i.rd, v>>
    BY <1>1, <1>6, Zenon DEF Writes
  <2>4. i.rd \in Reg
    BY <1>2, <1>6
  <2>. HIDE DEF v, c
  <2>. QED  BY <1>3, <2>2, <2>3, <2>4, WroteAgrees, Zenon DEF Wrote
<1>7. CASE i.op = "BLTZAL"
  <2>1. Delivers(c, "31", "LINKADDR")
    BY <1>7, DecodedBltzal, Zenon DEF Ctl
  <2>2. GprOut(m, i) = SetReg(m.gpr, RA, DataOut(m, i)) /\ DataOut(m, i) = v
    BY <2>1, DestinationIs, ResultIs, Zenon
  <2>3. Writes(s, i) = <<RA, v>>
    BY <1>1, <1>7, Zenon DEF Writes
  <2>4. RA \in Reg
    BY <1>3, Zenon
  <2>. HIDE DEF v, c
  <2>. QED  BY <1>3, <2>2, <2>3, <2>4, WroteAgrees, Zenon DEF Wrote
<1>8. CASE i.op = "BGEZAL"
  <2>1. Delivers(c, "31", "LINKADDR")
    BY <1>8, DecodedBgezal, Zenon DEF Ctl
  <2>2. GprOut(m, i) = SetReg(m.gpr, RA, DataOut(m, i)) /\ DataOut(m, i) = v
    BY <2>1, DestinationIs, ResultIs, Zenon
  <2>3. Writes(s, i) = <<RA, v>>
    BY <1>1, <1>8, Zenon DEF Writes
  <2>4. RA \in Reg
    BY <1>3, Zenon
  <2>. HIDE DEF v, c
  <2>. QED  BY <1>3, <2>2, <2>3, <2>4, WroteAgrees, Zenon DEF Wrote
<1>. QED  BY <1>5, <1>6, <1>7, <1>8

\* An instruction that writes no register.
LEMMA SilentAgrees ==
  ASSUME NEW m, NEW s, NEW i \in Instr, SameRegisters(m, s), i.op \in SilentOps
  PROVE  RegistersAgree(m, s, i)
<1>. DEFINE v == 0
<1>1. NoRegister(Ctl(i))
  <2>1. i.op \in SimOp
    BY InstrFields, Zenon
  <2>. QED  BY <2>1, Summaries, Zenon DEF Ctl, Summary
<1>2. GprOut(m, i) = m.gpr
  BY <1>1, Zenon DEF GprOut, WritesRegister, NoRegister
<1>3. Writes(s, i) = <<0, v>>
  BY DEF Writes, SilentOps, ProductOps, GoingOps, D!MulDivOps, D!MulAccOps, D!StoreOps, D!JumpOps
<1>4. SetReg(m.gpr, 0, v) = m.gpr
  BY Zenon DEF SetReg
<1>5. 0 \in Reg /\ v \in Word
  BY Sizes, BoolIsWord DEF Reg
<1>. HIDE DEF v
<1>. QED  BY <1>2, <1>3, <1>4, <1>5, WroteAgrees, Zenon DEF Wrote

\* Every instruction writes the register of the simulator, with its value.
LEMMA EveryRegisterAgrees ==
  ASSUME NEW m, NEW s, NEW i \in Instr, SameRegisters(m, s), Raises(s, i) = "NONE",
         i.op \in D!LoadOps => /\ Ea(s, i) \div BPW \in MemWord
                               /\ m.mem[Ea(s, i) \div BPW] = s.mem[Ea(s, i) \div BPW]
  PROVE  RegistersAgree(m, s, i)
<1>. DEFINE op == i.op
<1>1. op \in SimOp
  BY InstrFields, Zenon
<1>2. CASE op \in D!AluOps
  BY <1>2, AluAgrees, Zenon
<1>3. CASE op \in D!ShiftSaOps
  BY <1>3, ShiftSaAgrees, Zenon
<1>4. CASE op \in D!ShiftVarOps
  BY <1>4, ShiftVarAgrees, Zenon
<1>5. CASE op \in D!LogicImmOps
  BY <1>5, LogicImmAgrees, Zenon
<1>6. CASE op \in D!ByteShuffleOps
  BY <1>6, ShuffleAgrees, Zenon
<1>7. CASE op \in D!LoadOps
  BY <1>7, LoadAgrees, Zenon
<1>8. CASE op \in SilentOps
  BY <1>8, SilentAgrees, Zenon
<1>9. CASE op \in {"JAL", "JALR", "BLTZAL", "BGEZAL"}
  BY <1>9, LinkAgrees, Zenon
<1>10. CASE op \in {"SLT", "SLTU"}
  BY <1>10, SltAgrees, Zenon
<1>11. CASE op \in {"SLTI", "SLTIU"}
  BY <1>11, SltImmAgrees, Zenon
<1>12. CASE op \in {"ADDI", "ADDIU"}
  BY <1>12, AddImmAgrees, Zenon
<1>13. CASE op \in {"LUI"}
  BY <1>13, LuiAgrees, Zenon
<1>14. CASE op \in {"CLZ", "CLO"}
  BY <1>14, CountAgrees, Zenon
<1>15. CASE op \in {"EXT"}
  BY <1>15, ExtAgrees, Zenon
<1>16. CASE op \in {"INS"}
  BY <1>16, InsAgrees, Zenon
<1>17. CASE op \in {"MOVZ", "MOVN"}
  BY <1>17, MovedAgrees, Zenon
<1>18. CASE op \in {"MUL"}
  BY <1>18, MulAgrees, Zenon
<1>19. CASE op \in {"MFHI"}
  BY <1>19, FromHiAgrees, Zenon
<1>20. CASE op \in {"MFLO"}
  BY <1>20, FromLoAgrees, Zenon
<1>. HIDE DEF op
<1>21. \/ op \in D!AluOps \/ op \in D!ShiftSaOps \/ op \in D!ShiftVarOps \/ op \in D!LogicImmOps
       \/ op \in D!ByteShuffleOps \/ op \in D!LoadOps \/ op \in SilentOps
       \/ op \in {"JAL", "JALR", "BLTZAL", "BGEZAL"} \/ op \in {"SLT", "SLTU"}
       \/ op \in {"SLTI", "SLTIU"} \/ op \in {"ADDI", "ADDIU"} \/ op \in {"LUI"}
       \/ op \in {"CLZ", "CLO"} \/ op \in {"EXT"} \/ op \in {"INS"} \/ op \in {"MOVZ", "MOVN"}
       \/ op \in {"MUL"} \/ op \in {"MFHI"} \/ op \in {"MFLO"}
  BY <1>1 DEF SimOp, SilentOps, GoingOps, ProductOps, D!JumpOps
<1>. QED  BY <1>2, <1>3, <1>4, <1>5, <1>6, <1>7, <1>8, <1>9, <1>10, <1>11, <1>12, <1>13, <1>14,
             <1>15, <1>16, <1>17, <1>18, <1>19, <1>20, <1>21, Zenon

----------------------------------------------------------------------------
\* One instruction.

\* What the simulator leaves when no exception is raised.
LEMMA SimulatedIs ==
  ASSUME NEW s \in Machine, NEW i, NEW to, NEW other, Raises(s, i) = "NONE", s.trap = "NONE"
  PROVE  Simulated(s, i, to, other)
           = [ gpr |-> SetReg(s.gpr, Writes(s, i)[1], Writes(s, i)[2]),
               hi |-> (HiLoAfter(s, i) \div M) % M, lo |-> HiLoAfter(s, i) % M,
               llbit |-> s.llbit, cop0 |-> s.cop0, mem |-> StoresInto(s, i),
               pc |-> SimNextPc(s, i, to, other), trap |-> "NONE", log |-> <<>> ]
<1>. DEFINE wr   == Writes(s, i)
            gpr  == SetReg(s.gpr, wr[1], wr[2])
            p    == HiLoAfter(s, i)
            hi   == (p \div M) % M
            lo   == p % M
            mem  == StoresInto(s, i)
            next == SimNextPc(s, i, to, other)
            none == <<>>
            left == SimStep(s, i)
            done == Simulated(s, i, to, other)
<1>1. done = [left EXCEPT !.pc = next]
  BY Zenon DEF Simulated
<1>2. left = [s EXCEPT !.gpr = SetReg(@, wr[1], wr[2]), !.mem = mem, !.hi = hi, !.lo = lo]
  BY Zenon DEF SimStep, Leaves
<1>3. /\ s = [ gpr |-> s.gpr, hi |-> s.hi, lo |-> s.lo, llbit |-> s.llbit, cop0 |-> s.cop0,
               mem |-> s.mem, pc |-> s.pc, trap |-> s.trap, log |-> s.log ]
      /\ s.log = none /\ s.trap = "NONE"
  BY MachineFields, Zenon
<1>4. SetReg(s.gpr, wr[1], wr[2]) = gpr
  OBVIOUS
<1>. HIDE DEF wr, hi, lo, mem, next, none, left, done
<1>5. left = [s EXCEPT !.gpr = gpr, !.mem = mem, !.hi = hi, !.lo = lo]
  BY <1>2, <1>4, Zenon
<1>. HIDE DEF gpr
<1>6. done = [ gpr |-> gpr, hi |-> hi, lo |-> lo, llbit |-> s.llbit, cop0 |-> s.cop0, mem |-> mem,
               pc |-> next, trap |-> "NONE", log |-> none ]
  BY ONLY <1>1, <1>3, <1>5
<1>. QED  BY <1>6, Zenon DEF gpr, wr, hi, lo, p, mem, next, none, done

\* The processor and the simulator agree after an instruction if they agree before it.
Together(m, s, words) ==
  SameRegisters(m, s) /\ m.trap = s.trap /\ Agree(words, m.mem, s.mem)

\* An instruction that raises an exception changes nothing else, in both.
LEMMA RaisingAgrees ==
  ASSUME NEW m, NEW s, NEW i \in Instr, NEW to, NEW other, NEW words,
         Together(m, s, words), Raises(s, i) # "NONE"
  PROVE  Together(Executed(m, i, to, other), Simulated(s, i, to, other), words)
<1>. DEFINE t    == Raises(s, i)
            one  == Executed(m, i, to, other)
            two  == Simulated(s, i, to, other)
<1>1. /\ m \in Machine /\ s \in Machine /\ m.gpr = s.gpr /\ m.hi = s.hi /\ m.lo = s.lo
      /\ m.pc = s.pc
      /\ Agree(words, m.mem, s.mem)
  BY Zenon DEF Together, SameRegisters
<1>2. TrapOut(m, i) = t
  <2>1. Raises(m, i) = Raises(s, i)
    BY <1>1, Zenon DEF Raises, SignedResult, Unaligned, Ea
  <2>. QED  BY <1>1, <2>1, TrapAgrees, Zenon
<1>3. t \in {"OV", "ADEL", "ADES"}
  BY Zenon DEF Raises
<1>4. one = [m EXCEPT !.trap = t]
  <2>1. TrapOut(m, i) # "NONE"
    BY <1>2, Zenon
  <2>2. one = [m EXCEPT !.trap = TrapOut(m, i)]
    BY <1>1, <2>1, RaisingStep, Zenon
  <2>. QED  BY <1>2, <2>2, Zenon
<1>5. two = [s EXCEPT !.trap = t]
  BY Zenon DEF Simulated
<1>. HIDE DEF t, one, two
<1>6. one \in Machine /\ two \in Machine
  <2>1. \A k \in Machine : [k EXCEPT !.trap = t] \in Machine
    BY ONLY <1>3 DEF Machine
  <2>. QED  BY <1>1, <1>4, <1>5, <2>1, Zenon
<1>7. /\ one.gpr = m.gpr /\ one.hi = m.hi /\ one.lo = m.lo /\ one.pc = m.pc /\ one.mem = m.mem
      /\ two.gpr = s.gpr /\ two.hi = s.hi /\ two.lo = s.lo /\ two.pc = s.pc /\ two.mem = s.mem
      /\ one.trap = t /\ two.trap = t
  <2>1. /\ m = [ gpr |-> m.gpr, hi |-> m.hi, lo |-> m.lo, llbit |-> m.llbit, cop0 |-> m.cop0,
                 mem |-> m.mem, pc |-> m.pc, trap |-> m.trap, log |-> m.log ]
        /\ s = [ gpr |-> s.gpr, hi |-> s.hi, lo |-> s.lo, llbit |-> s.llbit, cop0 |-> s.cop0,
                 mem |-> s.mem, pc |-> s.pc, trap |-> s.trap, log |-> s.log ]
    BY <1>1, MachineFields, Zenon
  <2>. QED  BY ONLY <1>4, <1>5, <2>1
<1>. QED  BY <1>1, <1>6, <1>7, Zenon DEF Together, SameRegisters, one, two

\* An instruction that raises none leaves the same state in both.
LEMMA WritingAgrees ==
  ASSUME NEW m, NEW s, NEW i \in Instr, NEW to \in Word, NEW other \in Word,
         NEW words \in SUBSET MemWord,
         Together(m, s, words), Raises(s, i) = "NONE", m.trap = "NONE",
         i.op \in {"DIV", "DIVU"} => s.gpr[i.rt] # 0,
         i.op \in D!StoreOps => Ea(s, i) \div BPW \in MemWord,
         i.op \in D!LoadOps  => Ea(s, i) \div BPW \in words
  PROVE  Together(Executed(m, i, to, other), Simulated(s, i, to, other),
                  IF i.op = "SW" THEN words \cup {Ea(s, i) \div BPW} ELSE words)
<1>. DEFINE one  == Executed(m, i, to, other)
            two  == Simulated(s, i, to, other)
            wr   == Writes(s, i)
            gpr  == SetReg(s.gpr, wr[1], wr[2])
            p    == HiLoAfter(s, i)
            hi   == (p \div M) % M
            lo   == p % M
            next == SimNextPc(s, i, to, other)
            mem1 == MemOut(m, i)
            mem2 == StoresInto(s, i)
            none == <<>>
            more == IF i.op = "SW" THEN words \cup {Ea(s, i) \div BPW} ELSE words
<1>1. /\ m \in Machine /\ s \in Machine /\ SameRegisters(m, s) /\ Agree(words, m.mem, s.mem)
      /\ m.gpr = s.gpr /\ s.trap = "NONE"
  BY Zenon DEF Together, SameRegisters
<1>2. TrapOut(m, i) = "NONE"
  <2>1. Raises(m, i) = Raises(s, i)
    BY <1>1, Zenon DEF Raises, SignedResult, Unaligned, Ea
  <2>. QED  BY <1>1, <2>1, TrapAgrees, Zenon
<1>3. ~Ctl(i).write_cop0 /\ ~Ctl(i).write_llbit
  BY InstrFields, Summaries, Zenon DEF Summary, Ctl
<1>4. GprOut(m, i) = gpr /\ gpr \in Registers
  <2>1. i.op \in D!LoadOps => /\ Ea(s, i) \div BPW \in MemWord
                              /\ m.mem[Ea(s, i) \div BPW] = s.mem[Ea(s, i) \div BPW]
    BY <1>1, Zenon DEF Agree
  <2>2. RegistersAgree(m, s, i)
    BY <1>1, <2>1, EveryRegisterAgrees, Zenon
  <2>. QED  BY <2>2, Zenon DEF RegistersAgree
<1>5. HiOut(m, i) = hi /\ LoOut(m, i) = lo /\ hi \in Word /\ lo \in Word
  <2>1. ProductIs(m, i, p)
    BY <1>1, HiLoAgrees, Zenon
  <2>. QED  BY <2>1, Zenon DEF ProductIs
<1>6. NextPc(m, i, to, other) = next /\ next \in Word
  <2>1. \A x, y \in Word : NextPc(m, i, x, y) = SimNextPc(s, i, x, y) /\ NextPc(m, i, x, y) \in Word
    BY <1>1, NextAgrees, Zenon
  <2>. QED  BY <2>1, Zenon
<1>7. mem1 \in [MemWord -> Word] /\ mem2 \in [MemWord -> Word] /\ Agree(more, mem1, mem2)
  BY <1>1, MemoryAgrees, Zenon
<1>8. one = [ gpr |-> gpr, hi |-> hi, lo |-> lo, llbit |-> m.llbit, cop0 |-> m.cop0,
              mem |-> mem1, pc |-> next, trap |-> "NONE", log |-> none ]
  BY <1>1, <1>2, <1>3, <1>4, <1>5, <1>6, WritingStep, Zenon
<1>9. two = [ gpr |-> gpr, hi |-> hi, lo |-> lo, llbit |-> s.llbit, cop0 |-> s.cop0,
              mem |-> mem2, pc |-> next, trap |-> "NONE", log |-> none ]
  BY <1>1, SimulatedIs, Zenon
<1>10. /\ m.llbit \in BOOLEAN /\ m.cop0 \in [{"Status", "Cause", "EPC", "LLAddr"} -> Word]
       /\ s.llbit \in BOOLEAN /\ s.cop0 \in [{"Status", "Cause", "EPC", "LLAddr"} -> Word]
  BY <1>1, MachineFields, Zenon
<1>11. none \in {<<>>}
  OBVIOUS
<1>12. Machine = [ gpr : Registers, hi : Word, lo : Word, llbit : BOOLEAN,
                   cop0 : [{"Status", "Cause", "EPC", "LLAddr"} -> Word],
                   mem : [MemWord -> Word], pc : Word, trap : {"NONE", "OV", "ADEL", "ADES"},
                   log : {<<>>} ]
  BY Zenon DEF Machine
<1>. HIDE DEF one, two, gpr, hi, lo, next, mem1, mem2, none, more
<1>13. one \in Machine /\ two \in Machine
  <2>. DEFINE empty == {<<>>}
  <2>1. none \in empty
    BY <1>11
  <2>2. Machine = [ gpr : Registers, hi : Word, lo : Word, llbit : BOOLEAN,
                    cop0 : [{"Status", "Cause", "EPC", "LLAddr"} -> Word],
                    mem : [MemWord -> Word], pc : Word, trap : {"NONE", "OV", "ADEL", "ADES"},
                    log : empty ]
    BY <1>12
  <2>. HIDE DEF empty
  <2>. QED  BY ONLY <1>4, <1>5, <1>6, <1>7, <1>8, <1>9, <1>10, <2>1, <2>2
<1>14. /\ one.gpr = two.gpr /\ one.hi = two.hi /\ one.lo = two.lo /\ one.pc = two.pc
       /\ one.trap = two.trap /\ one.mem = mem1 /\ two.mem = mem2
  BY ONLY <1>8, <1>9
<1>15. Together(one, two, more)
  BY <1>7, <1>13, <1>14, Zenon DEF Together, SameRegisters
<1>. QED  BY <1>15, Zenon DEF one, two, more

----------------------------------------------------------------------------
\* Every program.

\* The two states, as the invariants put it.
LEMMA Lockstepped ==
  (TypeOK /\ CpuIsReference)
    <=> /\ Together(cpu, sim, known) /\ known \in SUBSET MemWord /\ steps \in 0 .. MaxSteps
BY Zenon DEF TypeOK, CpuIsReference, Together, SameRegisters, Agree

\* They agree at the start.
LEMMA StartsTogether == AnyStart => TypeOK /\ CpuIsReference
<1>. SUFFICES ASSUME AnyStart  PROVE Together(cpu, sim, known) /\ known \in SUBSET MemWord
                                 /\ steps \in 0 .. MaxSteps
  BY Lockstepped, Zenon
<1>1. known = {w \in MemWord : CpuMem[w] = SimMem[w]} /\ steps = 0
  BY Zenon DEF AnyStart
<1>2. PICK regs \in Start : /\ cpu = [Reset(CpuMem) EXCEPT !.gpr = regs]
                            /\ sim = [Reset(SimMem) EXCEPT !.gpr = regs]
  BY Zenon DEF AnyStart
<1>3. regs \in Registers /\ CpuMem \in [MemWord -> Word] /\ SimMem \in [MemWord -> Word]
      /\ MaxSteps \in Nat
  BY ProgramAssumption
<1>4. 0 \in Word /\ 4 \in Word
  <2>1. W - 3 \in Nat /\ 3 \in Nat /\ 3 + (W - 3) = W
    BY Sizes
  <2>2. 2^W = 2^3 * 2^(W - 3)
    BY <2>1, PowerSum, Zenon
  <2>3. 2^(W - 3) \in Nat \ {0}
    BY <2>1, PowerOfTwo, Zenon
  <2>4. 2^3 = 8
    <3>1. 2^(0 + 1) = 2 * 2^0 /\ 2^(1 + 1) = 2 * 2^1 /\ 2^(2 + 1) = 2 * 2^2
      BY NextPower
    <3>. QED  BY <3>1, PowerOfZero
  <2>5. 8 * 2^(W - 3) >= 8 /\ 8 * 2^(W - 3) \in Int
    BY ONLY <2>3
  <2>. QED  BY <2>2, <2>4, <2>5, SizePowers DEF Word
<1>. DEFINE none == <<>>
            clear == FALSE
            empty == {none}
            zeros == [r \in Reg |-> 0]
            cop0 == [Status |-> 4, Cause |-> 0, EPC |-> 0, LLAddr |-> 0]
            From(mem) == [ gpr |-> regs, hi |-> 0, lo |-> 0, llbit |-> clear, cop0 |-> cop0,
                           mem |-> mem, pc |-> 0, trap |-> "NONE", log |-> none ]
<1>5. cop0 \in [{"Status", "Cause", "EPC", "LLAddr"} -> Word]
  BY <1>4
<1>6. \A mem : Reset(mem) = [ gpr |-> zeros, hi |-> 0, lo |-> 0, llbit |-> clear, cop0 |-> cop0,
                              mem |-> mem, pc |-> 0, trap |-> "NONE", log |-> none ]
  BY Zenon DEF Reset
<1>7. Machine = [ gpr : Registers, hi : Word, lo : Word, llbit : BOOLEAN,
                  cop0 : [{"Status", "Cause", "EPC", "LLAddr"} -> Word],
                  mem : [MemWord -> Word], pc : Word, trap : {"NONE", "OV", "ADEL", "ADES"},
                  log : empty ]
  BY Zenon DEF Machine
<1>8. none \in empty /\ clear \in BOOLEAN
  OBVIOUS
<1>. HIDE DEF none, clear, empty, zeros, cop0
<1>9. \A mem : [Reset(mem) EXCEPT !.gpr = regs] = From(mem)
  <2>. TAKE mem
  <2>. DEFINE m == Reset(mem)
  <2>1. m = [ gpr |-> zeros, hi |-> 0, lo |-> 0, llbit |-> clear, cop0 |-> cop0,
                  mem |-> mem, pc |-> 0, trap |-> "NONE", log |-> none ]
    BY <1>6, Zenon
  <2>. HIDE DEF m
  <2>2. [m EXCEPT !.gpr = regs] = From(mem)
    BY ONLY <2>1
  <2>. QED  BY <2>2, Zenon DEF m
<1>10. \A mem \in [MemWord -> Word] : From(mem) \in Machine
  BY ONLY <1>3, <1>4, <1>5, <1>7, <1>8
<1>11. cpu = From(CpuMem) /\ sim = From(SimMem)
  BY <1>2, <1>9, Zenon
<1>12. /\ cpu.gpr = sim.gpr /\ cpu.hi = sim.hi /\ cpu.lo = sim.lo /\ cpu.pc = sim.pc
       /\ cpu.trap = sim.trap /\ cpu.mem = CpuMem /\ sim.mem = SimMem
  BY ONLY <1>11
<1>13. Together(cpu, sim, known)
  <2>1. cpu \in Machine /\ sim \in Machine
    BY <1>3, <1>10, <1>11, Zenon
  <2>2. Agree(known, cpu.mem, sim.mem)
    BY <1>1, <1>12, Zenon DEF Agree
  <2>. QED  BY <1>12, <2>1, <2>2, Zenon DEF Together, SameRegisters
<1>. QED  BY <1>1, <1>3, <1>13

\* They agree after any instruction.
LEMMA StaysTogether ==
  ASSUME TypeOK, CpuIsReference, AnyStep
  PROVE  TypeOK' /\ CpuIsReference'
<1>1. Together(cpu, sim, known) /\ known \in SUBSET MemWord /\ steps \in 0 .. MaxSteps
  BY Lockstepped, Zenon
<1>2. PICK i \in Code, to \in Target, other \in Target : Execute(i, to, other)
  BY Zenon DEF AnyStep
<1>3. i \in Instr /\ to \in Word /\ other \in Word /\ MaxSteps \in Nat
  BY ProgramAssumption
<1>4. cpu.trap = "NONE" /\ sim.trap = "NONE" /\ steps < MaxSteps /\ steps' = steps + 1
  BY Zenon DEF AnyStep
<1>5. steps' \in 0 .. MaxSteps
  BY <1>1, <1>3, <1>4
<1>6. /\ Defined(sim, i) /\ cpu' = Executed(cpu, i, to, other)
      /\ sim' = Simulated(sim, i, to, other)
      /\ known' = IF i.op = "SW" /\ Raises(sim, i) = "NONE"
                  THEN known \cup {Ea(sim, i) \div BPW} ELSE known
  BY <1>2, Zenon DEF Execute
<1>7. CASE Raises(sim, i) # "NONE"
  <2>1. known' = known
    BY <1>6, <1>7, Zenon
  <2>2. Together(cpu', sim', known)
    BY <1>1, <1>3, <1>6, <1>7, RaisingAgrees, Zenon
  <2>. QED  BY <1>1, <1>5, <2>1, <2>2, Zenon
              DEF TypeOK, CpuIsReference, Together, SameRegisters, Agree
<1>8. CASE Raises(sim, i) = "NONE"
  <2>. DEFINE more == IF i.op = "SW" THEN known \cup {Ea(sim, i) \div BPW} ELSE known
  <2>1. /\ i.op \in {"DIV", "DIVU"} => sim.gpr[i.rt] # 0
        /\ i.op \in D!StoreOps => Ea(sim, i) \div BPW \in MemWord
        /\ i.op \in D!LoadOps  => Ea(sim, i) \div BPW \in known
    BY <1>6, Zenon DEF Defined
  <2>2. known' = more
    BY <1>6, <1>8, Zenon
  <2>3. Together(cpu', sim', more)
    BY <1>1, <1>3, <1>4, <1>6, <1>8, <2>1, WritingAgrees, Zenon
  <2>4. more \in SUBSET MemWord
    <3>1. CASE i.op = "SW"
      <4>1. Ea(sim, i) \div BPW \in MemWord
        BY <2>1, <3>1 DEF D!StoreOps
      <4>. QED  BY <1>1, <4>1
    <3>. QED  BY <1>1, <3>1
  <2>. HIDE DEF more
  <2>. QED  BY <1>5, <2>2, <2>3, <2>4, Zenon
              DEF TypeOK, CpuIsReference, Together, SameRegisters, Agree
<1>. QED  BY <1>7, <1>8, Zenon

\* Whatever is executed, every variable of the processor and of the simulator keeps its type.
THEOREM AnyProgramTypes == AnyProgram => []TypeOK
<1>1. AnyStart => TypeOK /\ CpuIsReference
  BY StartsTogether, Zenon
<1>2. TypeOK /\ CpuIsReference /\ [AnyStep]_machines => (TypeOK /\ CpuIsReference)'
  <2>1. CASE AnyStep
    BY <2>1, StaysTogether, Zenon
  <2>2. CASE UNCHANGED machines
    BY <2>2, Zenon DEF machines, TypeOK, CpuIsReference
  <2>. QED  BY <2>1, <2>2, Zenon
<1>. QED  BY <1>1, <1>2, PTL DEF AnyProgram

\* Whatever is executed, the processor computes what the architecture says.
THEOREM ProcessorIsArchitecture == AnyProgram => []CpuIsReference
<1>1. AnyStart => TypeOK /\ CpuIsReference
  BY StartsTogether, Zenon
<1>2. TypeOK /\ CpuIsReference /\ [AnyStep]_machines => (TypeOK /\ CpuIsReference)'
  <2>1. CASE AnyStep
    BY <2>1, StaysTogether, Zenon
  <2>2. CASE UNCHANGED machines
    BY <2>2, Zenon DEF machines, TypeOK, CpuIsReference
  <2>. QED  BY <2>1, <2>2, Zenon
<1>. QED  BY <1>1, <1>2, PTL DEF AnyProgram

=============================================================================
