---------------------------- MODULE BinaryLemmas ----------------------------
(***************************************************************************)
(* Lemmas about quotients, remainders and powers of two, which the proofs  *)
(* about units that work bit by bit rest on.                               *)
(***************************************************************************)
EXTENDS Integers, FiniteSets, Functions, FiniteSetTheorems, WellFoundedInduction, TLAPS

----------------------------------------------------------------------------
\* Quotients and remainders.

\* What a quotient and a remainder are.
LEMMA Division ==
  \A n \in Nat : \A d \in Nat \ {0} : \E q \in Nat : \E r \in 0 .. d-1 :
    n = d * q + r /\ n \div d = q /\ n % d = r
<1> TAKE n \in Nat
<1> TAKE d \in Nat \ {0}
<1>1. n \div d \in Nat BY Z3
<1>2. n % d \in 0 .. d-1 BY SMT
<1>3. n % d = n - d * (n \div d) BY Z3
<1> DEFINE q == n \div d
           r == n % d
<1>4. q \in Nat /\ r \in 0 .. d-1 /\ r = n - d * q
  BY <1>1, <1>2, <1>3
<1>5. n \div d = q /\ n % d = r
  OBVIOUS
<1> HIDE DEF q, r
<1>6. n = d * q + r
  BY <1>4
<1> QED BY <1>4, <1>5, <1>6

\* The half of a number and its last bit.
LEMMA Halving ==
  \A n \in Nat : \E q \in Nat : \E r \in 0 .. 1 :
    n = 2 * q + r /\ n \div 2 = q /\ n % 2 = r
<1> TAKE n \in Nat
<1>1. 2 \in Nat \ {0} /\ 2 - 1 = 1 OBVIOUS
<1>2. \E q \in Nat : \E r \in 0 .. 2-1 : n = 2 * q + r /\ n \div 2 = q /\ n % 2 = r
  BY <1>1, Division, Zenon
<1> QED BY <1>1, <1>2, Zenon

\* There is only one of each.
LEMMA Unique ==
  ASSUME NEW d \in Nat \ {0}, NEW q1 \in Int, NEW q2 \in Int,
         NEW r1 \in 0 .. d-1, NEW r2 \in 0 .. d-1,
         d * q1 + r1 = d * q2 + r2
  PROVE  q1 = q2 /\ r1 = r2
<1>1. ~(q1 > q2)
  <2> SUFFICES ASSUME q1 > q2 PROVE FALSE OBVIOUS
  <2>1. d * (q1 - q2) >= d  BY Z3
  <2> QED BY <2>1
<1>2. ~(q2 > q1)
  <2> SUFFICES ASSUME q2 > q1 PROVE FALSE OBVIOUS
  <2>1. d * (q2 - q1) >= d  BY Z3
  <2> QED BY <2>1
<1> QED BY <1>1, <1>2

\* A number that is written with a quotient and a remainder has these.
LEMMA Quotient ==
  ASSUME NEW n \in Nat, NEW d \in Nat \ {0}, NEW q \in Int, NEW r \in 0 .. d-1,
         n = d * q + r
  PROVE  n \div d = q /\ n % d = r
<1>1. PICK p \in Nat, s \in 0 .. d-1 : n = d * p + s /\ n \div d = p /\ n % d = s
  BY ONLY n \in Nat, d \in Nat \ {0}, Division, Zenon
<1>2. p = q /\ s = r
  BY <1>1, Unique
<1> QED
  BY <1>1, <1>2, Zenon

\* The same of integers: the remainder is a natural number.
LEMMA IntDivision ==
  \A n \in Int : \A d \in Nat \ {0} : \E q \in Int : \E r \in 0 .. d-1 :
    n = d * q + r /\ n \div d = q /\ n % d = r
<1> TAKE n \in Int
<1> TAKE d \in Nat \ {0}
<1> DEFINE q == n \div d
           r == n % d
<1>1. q \in Int  BY Z3
<1>2. r \in 0 .. d-1  BY SMT
<1>3. r = n - d * q  BY Z3
<1>4. n \div d = q /\ n % d = r
  OBVIOUS
<1> HIDE DEF q, r
<1>5. n = d * q + r
  BY <1>1, <1>2, <1>3
<1> QED BY <1>1, <1>2, <1>4, <1>5

\* A quotient and a remainder that fit are the ones.
LEMMA IntQuotient ==
  ASSUME NEW n \in Int, NEW d \in Nat \ {0}, NEW q \in Int, NEW r \in 0 .. d-1,
         n = d * q + r
  PROVE  n \div d = q /\ n % d = r
<1>1. PICK p \in Int, s \in 0 .. d-1 : n = d * p + s /\ n \div d = p /\ n % d = s
  BY ONLY n \in Int, d \in Nat \ {0}, IntDivision, Zenon
<1>2. p = q /\ s = r
  BY <1>1, Unique
<1> QED
  BY <1>1, <1>2, Zenon

\* A pair of words, from a number that differs from what they hold by a
\* multiple of the range of a pair.
LEMMA PairOfWords ==
  ASSUME NEW m \in Nat \ {0}, NEW h \in 0 .. m-1, NEW l \in 0 .. m-1,
         NEW n \in Int, NEW k \in Int, h * m + l = n + k * (m * m)
  PROVE  (n \div m) % m = h /\ n % m = l
<1> DEFINE q == h - k * m
<1>1. q \in Int /\ n = m * q + l
  OBVIOUS
<1>2. n \div m = q /\ n % m = l
  <2> HIDE DEF q
  <2>. QED  BY ONLY n \in Int, m \in Nat \ {0}, l \in 0 .. m-1, <1>1, IntQuotient
<1>3. q % m = h
  <2> DEFINE j == -k
  <2>1. j \in Int /\ q = m * j + h
    OBVIOUS
  <2> HIDE DEF q, j
  <2>. QED  BY ONLY <1>1, <2>1, m \in Nat \ {0}, h \in 0 .. m-1, IntQuotient
<1>. QED  BY ONLY <1>2, <1>3, Zenon

\* Halving before dividing is dividing by the double.
LEMMA DivOfHalf ==
  \A n \in Nat : \A d \in Nat \ {0} : (n \div 2) \div d = n \div (2 * d)
<1> TAKE n \in Nat
<1> TAKE d \in Nat \ {0}
<1>1. PICK m \in Nat, b \in 0 .. 1 : n = 2 * m + b /\ n \div 2 = m /\ n % 2 = b
  BY ONLY n \in Nat, Halving, Zenon
<1>2. PICK q \in Nat, r \in 0 .. d-1 : m = d * q + r /\ m \div d = q /\ m % d = r
  BY ONLY m \in Nat, d \in Nat \ {0}, Division, Zenon
<1>3. n = (2*d) * q + (2*r+b)
  BY <1>1, <1>2
<1>4. 2*r+b \in 0..(2*d-1) /\ 2*d \in Nat \ {0}
  BY <1>1, <1>2
<1>5. n \div (2*d) = q
  BY <1>3, <1>4, Quotient
<1> QED BY <1>1, <1>2, <1>5, Zenon

\* A multiple of the divisor comes out of a quotient.
LEMMA DivShift ==
  \A d \in Nat \ {0} : \A x, k \in Nat : (k * d + x) \div d = k + x \div d
<1> TAKE d \in Nat \ {0}
<1> TAKE x, k \in Nat
<1>1. PICK q \in Nat, r \in 0 .. d-1 : x = d * q + r /\ x \div d = q /\ x % d = r
  BY ONLY x \in Nat, d \in Nat \ {0}, Division, Zenon
<1>2. k*d + x \in Nat /\ k + q \in Int /\ k * d + x = d * (k + q) + r
  BY <1>1
<1>3. (k * d + x) \div d = k + q
  <2> DEFINE n == k * d + x
             p == k + q
  <2>1. n \in Nat /\ p \in Int /\ n = d * p + r
    BY <1>2
  <2>2. n \div d = p
    <3> HIDE DEF n, p
    <3>. QED  BY ONLY <2>1, d \in Nat \ {0}, r \in 0 .. d-1, Quotient
  <2>. QED  BY <2>2
<1> QED BY <1>1, <1>3, Zenon

\* One more bit of a number.
LEMMA ModDouble ==
  \A n \in Nat : \A d \in Nat \ {0} : n % (2 * d) = (n % d) + d * ((n \div d) % 2)
<1> TAKE n \in Nat
<1> TAKE d \in Nat \ {0}
<1>1. PICK q \in Nat, r \in 0 .. d-1 : n = d * q + r /\ n \div d = q /\ n % d = r
  BY ONLY n \in Nat, d \in Nat \ {0}, Division, Zenon
<1>2. PICK h \in Nat, b \in 0 .. 1 : q = 2 * h + b /\ q \div 2 = h /\ q % 2 = b
  BY ONLY q \in Nat, Halving, Zenon
<1>3. n = (2*d) * h + (r + d*b) 
  BY <1>1, <1>2
<1> DEFINE e == 2*d
           s == r + d*b
<1>4. s \in 0 .. e-1 /\ e \in Nat \ {0} /\ h \in Int /\ n = e * h + s
  BY <1>1, <1>2, <1>3
<1>5. n % e = s
  <2> HIDE DEF e, s
  <2> QED BY <1>4, Quotient
<1> QED BY <1>1, <1>2, <1>5, Zenon

\* A number that is shifted left, cut and filled up with a bit.
LEMMA ModOfShift ==
  \A x \in Nat : \A c \in 0 .. 1 : \A p, k \in Nat \ {0} :
    (((2 * x) % (2 * p * k)) + c) % (2 * p) = 2 * (x % p) + c
<1> TAKE x \in Nat
<1> TAKE c \in 0 .. 1
<1> TAKE p, k \in Nat \ {0}
<1> DEFINE M == 2*p*k
<1>0. M \in Nat \ {0} /\ 2*x \in Nat 
  OBVIOUS
<1>1. PICK Q \in Nat, R \in 0 .. M-1 : 2*x = M * Q + R /\ (2*x) \div M = Q /\ (2*x) % M = R
  BY <1>0, Division, Zenon
<1>2. PICK q \in Nat, r \in 0 .. p-1 : x = p * q + r /\ x \div p = q /\ x % p = r
  BY ONLY x \in Nat, p \in Nat \ {0}, Division, Zenon
<1>3. R + c = (2*p) * (q - k*Q) + (2*r + c)
  BY <1>1, <1>2
<1> DEFINE e == 2*p
           s == 2*r + c
           t == q - k*Q
           u == R + c
<1>4. s \in 0 .. e-1 /\ e \in Nat \ {0} /\ t \in Int /\ u \in Nat /\ u = e * t + s
  BY <1>1, <1>2, <1>3
<1>5. u % e = s
  <2> HIDE DEF e, s, t, u
  <2> QED BY <1>4, Quotient
<1> QED BY <1>1, <1>2, <1>5, Zenon

\* Dividing by the double is halving the quotient.
LEMMA HalfOfDiv ==
  \A n \in Nat : \A d \in Nat \ {0} : n \div (2 * d) = (n \div d) \div 2
<1> TAKE n \in Nat
<1> TAKE d \in Nat \ {0}
<1>1. PICK g \in Nat, e \in 0 .. d-1 : n = d * g + e /\ n \div d = g /\ n % d = e
  BY ONLY n \in Nat, d \in Nat \ {0}, Division, Zenon
<1>2. PICK h \in Nat, c \in 0 .. 1 : g = 2 * h + c /\ g \div 2 = h /\ g % 2 = c
  BY ONLY g \in Nat, Halving, Zenon
<1> DEFINE v == 2 * d
           w == d * c + e
<1>3. v \in Nat \ {0} /\ w \in 0 .. v - 1 /\ h \in Int /\ n = v * h + w
  BY <1>1, <1>2
<1>4. n \div v = h
  <2> HIDE DEF v, w
  <2>. QED  BY ONLY n \in Nat, <1>3, Quotient
<1>. QED  BY <1>1, <1>2, <1>4, Zenon

\* A step of a multiplication: one more bit of a, times b, is added, and the
\* accumulators are shifted right.
LEMMA MultiplyStep ==
  \A P, Q \in Nat \ {0} : \A a, b, hi, lo, s \in Nat :
    hi * P + (lo \div (2 * Q)) = (a % P) * b /\ s = hi + ((a \div P) % 2) * b
    => (s \div 2) * (2 * P) + (((s % 2) * (P * Q) + (lo \div 2)) \div Q) = (a % (2 * P)) * b
<1> TAKE P, Q \in Nat \ {0}
<1> TAKE a, b, hi, lo, s \in Nat
<1>1. PICK h \in Nat, o \in 0 .. 1 : s = 2 * h + o /\ s \div 2 = h /\ s % 2 = o
  BY ONLY s \in Nat, Halving, Zenon
<1>2. PICK d \in Nat, r \in 0 .. P-1 : a = P * d + r /\ a \div P = d /\ a % P = r
  BY ONLY a \in Nat, P \in Nat \ {0}, Division, Zenon
<1>3. PICK e \in Nat, c \in 0 .. 1 : d = 2 * e + c /\ d \div 2 = e /\ d % 2 = c
  BY ONLY d \in Nat, Halving, Zenon
<1>4. PICK m \in Nat, x \in 0 .. 1 : lo = 2 * m + x /\ lo \div 2 = m /\ lo % 2 = x
  BY ONLY lo \in Nat, Halving, Zenon
<1>5. PICK y \in Nat, z \in 0 .. Q-1 : m = Q * y + z /\ m \div Q = y /\ m % Q = z
  BY ONLY m \in Nat, Q \in Nat \ {0}, Division, Zenon
<1>6. lo \div (2 * Q) = y
  <2>1. (lo \div 2) \div Q = lo \div (2 * Q)
    BY ONLY lo \in Nat, Q \in Nat \ {0}, DivOfHalf, Zenon
  <2>. QED  BY ONLY <1>4, <1>5, <2>1, Zenon
<1>7. (o * (P * Q) + m) \div Q = o * P + y
  <2>1. o * P \in Nat /\ o * (P * Q) = (o * P) * Q
    OBVIOUS
  <2>2. \A n, k \in Nat : (k * Q + n) \div Q = k + n \div Q
    BY ONLY Q \in Nat \ {0}, DivShift, Zenon
  <2>3. ((o * P) * Q + m) \div Q = o * P + m \div Q
    BY ONLY m \in Nat, <2>1, <2>2, Zenon
  <2>. QED  BY ONLY <1>5, <2>1, <2>3, Zenon
<1>8. a % (2 * P) = r + P * c
  <2>1. a % (2 * P) = (a % P) + P * ((a \div P) % 2)
    BY ONLY a \in Nat, P \in Nat \ {0}, ModDouble, Zenon
  <2>. QED  BY ONLY <1>2, <1>3, <2>1, Zenon
<1>9. ASSUME hi * P + y = r * b, s = hi + c * b
      PROVE  h * (2 * P) + (o * P + y) = (r + P * c) * b
  <2>1. h * (2 * P) + o * P = s * P
    BY ONLY <1>1, P \in Nat, h \in Nat, o \in 0 .. 1, s \in Nat
  <2>2. s * P = hi * P + (c * b) * P
    BY ONLY <1>9, P \in Nat, hi \in Nat, c \in 0 .. 1, b \in Nat
  <2>3. (r + P * c) * b = r * b + (c * b) * P
    BY ONLY P \in Nat, c \in 0 .. 1, b \in Nat, r \in 0 .. P - 1
  <2> DEFINE hp == h * (2 * P)
             op == o * P
             sp == s * P
             ip == hi * P
             cp == (c * b) * P
             rb == r * b
  <2>4. hp \in Nat /\ op \in Nat /\ sp \in Nat /\ ip \in Nat /\ cp \in Nat /\ rb \in Nat
    BY P \in Nat, c \in 0 .. 1, o \in 0 .. 1, r \in 0 .. P - 1
  <2>5. hp + op = sp /\ sp = ip + cp /\ ip + y = rb
    BY <1>9, <2>1, <2>2
  <2>6. hp + (op + y) = rb + cp
    <3> HIDE DEF hp, op, sp, ip, cp, rb
    <3>. QED  BY ONLY <2>4, <2>5, y \in Nat
  <2>. QED  BY <2>3, <2>6, Zenon
<1>. QED  BY <1>1, <1>2, <1>3, <1>4, <1>6, <1>7, <1>8, <1>9, Zenon

\* A step of a division: the next bit of a enters the rest from the right, b
\* is subtracted where it can be, and the quotient gets the bit that says so.
LEMMA DivideStep ==
  \A P, Q \in Nat \ {0} : \A a, b, hi, lo, r \in Nat : \A c \in 0 .. 1 :
    /\ a < 2 * P * Q /\ hi < b
    /\ a \div (2 * Q) = (lo % P) * b + hi
    /\ r = ((2 * hi) % (2 * P * Q)) + ((a \div Q) % 2)
    /\ c = 1 <=> r >= b
    => LET rest == IF c = 1 THEN r - b ELSE r
       IN  /\ a \div Q = ((((2 * lo) % (2 * P * Q)) + c) % (2 * P)) * b + rest
           /\ rest < b
<1> TAKE P, Q \in Nat \ {0}
<1> TAKE a, b, hi, lo, r \in Nat
<1> TAKE c \in 0 .. 1
<1>1. PICK g \in Nat, e \in 0 .. Q-1 : a = Q * g + e /\ a \div Q = g /\ a % Q = e
  BY ONLY a \in Nat, Q \in Nat \ {0}, Division, Zenon
<1>2. PICK h \in Nat, d \in 0 .. 1 : g = 2 * h + d /\ g \div 2 = h /\ g % 2 = d
  BY ONLY g \in Nat, Halving, Zenon
<1>3. PICK x \in Nat, y \in 0 .. P-1 : lo = P * x + y /\ lo \div P = x /\ lo % P = y
  BY ONLY lo \in Nat, P \in Nat \ {0}, Division, Zenon
<1> DEFINE N == 2 * P * Q
           dh == (2 * hi) % N
           ld == (2 * lo) % N
<1>4. ASSUME a < N, h = y * b + hi, hi < b
      PROVE  dh = 2 * hi
  <2>1. h < P
    <3> SUFFICES ASSUME h >= P  PROVE  FALSE
      OBVIOUS
    <3>1. Q * (2 * h) >= Q * (2 * P)
      BY ONLY h >= P, h \in Nat, P \in Nat, Q \in Nat
    <3>2. a >= Q * (2 * h)
      BY ONLY <1>1, <1>2, a \in Nat, Q \in Nat, e \in 0 .. Q - 1, g \in Nat, h \in Nat, d \in 0 .. 1
    <3>. QED  BY <1>4, <3>1, <3>2
  <2>2. y * b \in Nat
    BY ONLY y \in 0 .. P - 1, P \in Nat, b \in Nat
  <2>3. hi < P
    BY <1>4, <2>1, <2>2
  <2> DEFINE w == 2 * hi
  <2>4. N \in Nat \ {0} /\ 2 * P <= N
    BY ONLY P \in Nat \ {0}, Q \in Nat \ {0}
  <2>5. w \in Nat /\ w \in 0 .. N - 1 /\ 0 \in Int /\ w = N * 0 + w
    <3> HIDE DEF N
    <3>. QED  BY <2>3, <2>4
  <2>6. w % N = w
    <3> HIDE DEF N, w
    <3>. QED  BY ONLY <2>4, <2>5, Quotient
  <2>. QED  BY <2>6
<1>5. a \div (2 * Q) = h
  <2>1. a \div (2 * Q) = (a \div Q) \div 2
    BY ONLY a \in Nat, Q \in Nat \ {0}, HalfOfDiv, Zenon
  <2>. QED  BY ONLY <1>1, <1>2, <2>1, Zenon
<1>6. (ld + c) % (2 * P) = 2 * y + c
  <2>1. (((2 * lo) % (2 * P * Q)) + c) % (2 * P) = 2 * (lo % P) + c
    <3>1. \A p, k \in Nat \ {0} :
            (((2 * lo) % (2 * p * k)) + c) % (2 * p) = 2 * (lo % p) + c
      BY ONLY lo \in Nat, c \in 0 .. 1, ModOfShift, Zenon
    <3>. QED  BY ONLY <3>1, P \in Nat \ {0}, Q \in Nat \ {0}, Zenon
  <2>. QED  BY ONLY <1>3, <2>1, Zenon
<1> HIDE DEF dh, ld
<1>7. ASSUME h = y * b + hi, r = 2 * hi + d, hi < b, c = 1 <=> r >= b,
             NEW rest, rest = IF c = 1 THEN r - b ELSE r
      PROVE  g = (2 * y + c) * b + rest /\ rest < b
  <2> DEFINE f == y * b
  <2>1. f \in Nat
    BY ONLY y \in 0 .. P - 1, P \in Nat, b \in Nat
  <2>2. (2 * y + 1) * b = 2 * f + b /\ (2 * y + 0) * b = 2 * f
    BY ONLY y \in 0 .. P - 1, P \in Nat, b \in Nat
  <2>3. h = f + hi
    BY <1>7
  <2> HIDE DEF f
  <2>4. CASE c = 1
    BY ONLY <1>2, <1>7, <2>1, <2>2, <2>3, <2>4, g \in Nat, h \in Nat,
            d \in 0 .. 1, r \in Nat, hi \in Nat, b \in Nat
  <2>5. CASE c = 0
    BY ONLY <1>2, <1>7, <2>1, <2>2, <2>3, <2>5, g \in Nat, h \in Nat,
            d \in 0 .. 1, r \in Nat, hi \in Nat, b \in Nat
  <2>. QED  BY <2>4, <2>5
<1>8. SUFFICES
        ASSUME a < N, hi < b, a \div (2 * Q) = (lo % P) * b + hi,
               r = dh + ((a \div Q) % 2), c = 1 <=> r >= b,
               NEW rest, rest = IF c = 1 THEN r - b ELSE r
        PROVE  a \div Q = ((ld + c) % (2 * P)) * b + rest /\ rest < b
  BY DEF dh, ld
<1>9. h = y * b + hi
  BY ONLY <1>3, <1>5, <1>8, Zenon
<1>10. dh = 2 * hi
  BY <1>4, <1>8, <1>9, Zenon
<1>11. r = 2 * hi + d
  BY ONLY <1>1, <1>2, <1>8, <1>10, Zenon
<1>12. g = (2 * y + c) * b + rest /\ rest < b
  BY <1>7, <1>8, <1>9, <1>11, Zenon
<1>. QED  BY ONLY <1>1, <1>6, <1>12, Zenon

----------------------------------------------------------------------------
\* Powers of two, counted as sets of numbers.

\* No power of two is zero.
LEMMA PowerOfTwo == \A n \in Nat : 2^n \in Nat \ {0}
<1> TAKE n \in Nat
<1>1. IsFiniteSet(1 .. n) /\ Cardinality(1 .. n) = n
  BY FS_Interval
<1>2. Cardinality(SUBSET (1 .. n)) = 2^n /\ IsFiniteSet(SUBSET (1 .. n))
  BY <1>1, FS_SUBSET
<1> QED BY <1>2, FS_CardinalityType, FS_EmptySet

\* The empty set has one subset.
LEMMA PowerOfZero == 2^0 = 1
<1> DEFINE p == 2^0
<1>1. IsFiniteSet({}) /\ Cardinality({}) = 0
  BY FS_EmptySet
<1>2. Cardinality(SUBSET {}) = p
  BY <1>1, FS_SUBSET
<1>3. SUBSET {} = {{}}
  OBVIOUS
<1>4. Cardinality({{}}) = 1
  BY FS_Singleton
<1>. QED  BY <1>2, <1>3, <1>4

\* The next power is the double: a set with one more element has twice the
\* subsets.
LEMMA NextPower == \A n \in Nat : 2^(n+1) = 2 * 2^n
<1> TAKE n \in Nat
<1> DEFINE A == SUBSET (1 .. n)
           B == {x \in SUBSET (1 .. n+1) : n+1 \in x}
           f == [x \in A |-> x \cup {n+1}]
<1>1. IsFiniteSet(1 .. n) /\ Cardinality(1 .. n) = n
  BY FS_Interval
<1>2. IsFiniteSet(1 .. n+1) /\ Cardinality(1 .. n+1) = n+1
  BY FS_Interval
<1>3. Cardinality(A) = 2^n /\ IsFiniteSet(A)
  BY <1>1, FS_SUBSET
<1>4. Cardinality(SUBSET (1 .. n+1)) = 2^(n+1)
  BY <1>2, FS_SUBSET
<1>5. SUBSET (1 .. n+1) = A \cup B
  <2>1. 1 .. n+1 = (1 .. n) \cup {n+1}  OBVIOUS
  <2> HIDE <2>1
  <2>2. ASSUME NEW x \in SUBSET (1 .. n+1), n+1 \notin x PROVE x \in A
    BY <2>1, <2>2
  <2>3. A \subseteq SUBSET (1 .. n+1) BY <2>1
  <2> QED BY <2>2, <2>3
<1>6. A \cap B = {}
  OBVIOUS
<1>7. f \in Bijection(A, B)
  <2>0. n+1 \notin 1 .. n /\ 1 .. n+1 = (1 .. n) \cup {n+1} OBVIOUS
  <2>1. f \in [A -> B] BY <2>0
  <2>2. \A x, y \in A : f[x] = f[y] => x = y
    <3> SUFFICES ASSUME NEW x \in A, NEW y \in A, x \cup {n+1} = y \cup {n+1} PROVE x = y
      OBVIOUS
    <3> QED BY <2>0
  <2>3. \A z \in B : \E x \in A : f[x] = z
    <3> TAKE z \in B
    <3>1. z \ {n+1} \in A BY <2>0
    <3>2. f[z \ {n+1}] = z BY <3>1
    <3> QED BY <3>1, <3>2
  <2> HIDE DEF f, A, B
  <2> QED BY <2>1, <2>2, <2>3 DEF Bijection, Injection, Surjection, IsInjective
<1>8. IsFiniteSet(B) /\ Cardinality(B) = 2^n
  <2> HIDE DEF f, A, B
  <2>1. ExistsBijection(A, B) BY <1>7 DEF ExistsBijection
  <2> QED BY <2>1, <1>3, FS_Bijection
<1>9. Cardinality(A \cup B) = Cardinality(A) + Cardinality(B) - Cardinality(A \cap B)
  <2> HIDE DEF f, A, B
  <2> QED BY <1>3, <1>8, FS_Union
<1>10. Cardinality(A \cap B) = 0 BY <1>6, FS_EmptySet
<1> DEFINE p == 2^n
           r == 2^(n+1)
<1>11. p \in Nat /\ r \in Nat
  BY PowerOfTwo
<1>12. r = p + p - 0
  <2> HIDE DEF A, B, f
  <2> QED BY <1>3, <1>4, <1>5, <1>8, <1>9, <1>10, Zenon
<1> HIDE DEF A, B, p, r
<1>13. r = 2 * p
  BY <1>11, <1>12
<1> QED BY <1>13 DEF p, r

----------------------------------------------------------------------------
\* Induction, for a set of numbers.

Less == {p \in Nat \X Nat : p[1] < p[2]}

\* The order of the natural numbers is well-founded.
LEMMA LessIsWellFounded == IsWellFoundedOn(Less, Nat)
<1>1. Less = OpToRel(<, Nat)
  BY Zenon DEF Less, OpToRel
<1>. QED  BY <1>1, NatLessThanWellFounded, Zenon

\* A set that holds 0, and the successor of each number it holds, holds every
\* number: one that is missing would be the least.
LEMMA Induction ==
  ASSUME NEW S, 0 \in S, \A n \in Nat : n \in S => n + 1 \in S
  PROVE  \A n \in Nat : n \in S
<1>. SUFFICES ASSUME Nat \ S # {}  PROVE FALSE
  OBVIOUS
<1>. DEFINE T == Nat \ S
<1>1. T \subseteq Nat /\ T # {}
  OBVIOUS
<1>2. PICK x \in T : \A y \in T : ~(<<y, x>> \in Less)
  <2>. HIDE DEF T
  <2>. QED  BY LessIsWellFounded, WFMin, <1>1
<1>3. x \in Nat /\ x # 0
  OBVIOUS
<1>4. x - 1 \in Nat /\ x - 1 \notin T
  <2>1. x - 1 \in Nat
    BY <1>3
  <2>2. <<x - 1, x>> \in Less
    BY <2>1, <1>3 DEF Less
  <2>. QED  BY <2>1, <2>2, <1>2
<1>5. (x - 1) + 1 \in S
  BY <1>4
<1>. QED  BY <1>3, <1>5

\* The same of a set that holds a number when it holds the smaller ones.
LEMMA StrongInduction ==
  ASSUME NEW S, \A n \in Nat : (\A m \in 0 .. n - 1 : m \in S) => n \in S
  PROVE  \A n \in Nat : n \in S
<1>. DEFINE T == {n \in Nat : \A m \in 0 .. n - 1 : m \in S}
<1>1. 0 \in T
  OBVIOUS
<1>2. ASSUME NEW n \in Nat, n \in T  PROVE n + 1 \in T
  <2>1. n \in S
    BY <1>2
  <2>. SUFFICES ASSUME NEW m \in 0 .. (n + 1) - 1  PROVE m \in S
    OBVIOUS
  <2>2. m \in 0 .. n - 1 \/ m = n
    OBVIOUS
  <2>. QED  BY <1>2, <2>1, <2>2
<1>. HIDE DEF T
<1>3. \A n \in Nat : n \in T
  BY <1>1, <1>2, Induction, Zenon
<1>. QED  BY <1>3, Zenon DEF T

----------------------------------------------------------------------------
\* Quotients of quotients, and remainders of remainders.

\* A number in a mixed radix: what is above c * d, what is between, and what is
\* below c.
LEMMA MixedRadix ==
  \A n \in Nat : \A c, d \in Nat \ {0} :
    /\ (n \div c) \div d = n \div (c * d)
    /\ n % (c * d) = c * ((n \div c) % d) + (n % c)
    /\ (n % (c * d)) \div c = (n \div c) % d
    /\ (n % (c * d)) % c = n % c
<1>. TAKE n \in Nat
<1>. TAKE c, d \in Nat \ {0}
<1>1. PICK q \in Nat, r \in 0 .. c-1 : n = c * q + r /\ n \div c = q /\ n % c = r
  BY ONLY n \in Nat, c \in Nat \ {0}, Division, Zenon
<1>2. PICK p \in Nat, s \in 0 .. d-1 : q = d * p + s /\ q \div d = p /\ q % d = s
  BY ONLY q \in Nat, d \in Nat \ {0}, Division, Zenon
<1>. DEFINE e == c * d
            t == c * s + r
<1>3. e \in Nat \ {0} /\ t \in 0 .. e - 1
  <2>1. c * s <= c * (d - 1)
    BY ONLY c \in Nat, s \in 0 .. d - 1, d \in Nat \ {0}
  <2>2. c * (d - 1) = c * d - c
    BY ONLY c \in Nat, d \in Nat \ {0}
  <2>3. c * s \in Nat /\ c * d \in Nat \ {0}
    BY ONLY c \in Nat \ {0}, s \in 0 .. d - 1, d \in Nat \ {0}
  <2>. QED  BY ONLY <2>1, <2>2, <2>3, r \in 0 .. c - 1, c \in Nat \ {0}
<1>4. n = e * p + t
  <2>1. c * (d * p + s) = (c * d) * p + c * s
    BY ONLY c \in Nat, d \in Nat, p \in Nat, s \in 0 .. d - 1
  <2>. QED  BY ONLY <1>1, <1>2, <2>1, c \in Nat, d \in Nat, p \in Nat,
          s \in 0 .. d - 1, r \in 0 .. c - 1
<1>5. n \div e = p /\ n % e = t
  <2>. HIDE DEF e, t
  <2>. QED  BY ONLY n \in Nat, p \in Nat, <1>3, <1>4, Quotient
<1>6. t \div c = s /\ t % c = r
  <2>1. t \in Nat
    BY ONLY c \in Nat, s \in 0 .. d - 1, r \in 0 .. c - 1
  <2>2. t = c * s + r
    OBVIOUS
  <2>. HIDE DEF t
  <2>. QED  BY ONLY c \in Nat \ {0}, s \in 0 .. d - 1, d \in Nat, r \in 0 .. c - 1, <2>1, <2>2, Quotient
<1>. QED  BY <1>1, <1>2, <1>5, <1>6, Zenon

----------------------------------------------------------------------------
\* Powers of two, and the bits of a number.

\* The powers add up.
LEMMA PowerSum == \A k, n \in Nat : 2^(k + n) = 2^k * 2^n
<1>. TAKE k \in Nat
<1>. DEFINE S == {n \in Nat : 2^(k + n) = 2^k * 2^n}
<1>1. 0 \in S
  <2>1. k + 0 = k /\ 2^k \in Nat
    BY PowerOfTwo
  <2>2. 2^k * 2^0 = 2^k
    <3>. DEFINE p == 2^k
    <3>1. p * 1 = p
      BY <2>1
    <3>. QED  BY <3>1, PowerOfZero
  <2>. QED  BY <2>1, <2>2
<1>2. \A n \in Nat : n \in S => n + 1 \in S
  <2>. SUFFICES ASSUME NEW n \in Nat, 2^(k + n) = 2^k * 2^n
                PROVE  2^(k + (n + 1)) = 2^k * 2^(n + 1)
    OBVIOUS
  <2>0. 2^(k + n) = 2^k * 2^n
    OBVIOUS
  <2>1. k + (n + 1) = (k + n) + 1 /\ k + n \in Nat
    OBVIOUS
  <2>2. 2^(k + (n + 1)) = 2 * 2^(k + n) /\ 2^(n + 1) = 2 * 2^n
    BY <2>1, NextPower, Zenon
  <2>3. \A p, q \in Nat : 2 * (p * q) = p * (2 * q)
    OBVIOUS
  <2>4. 2^k \in Nat /\ 2^n \in Nat
    BY PowerOfTwo
  <2>. QED  BY ONLY <2>0, <2>2, <2>3, <2>4, Zenon
<1>. HIDE DEF S
<1>3. \A n \in Nat : n \in S
  BY <1>1, <1>2, Induction, Zenon
<1>. QED  BY <1>3 DEF S

\* A power is the product of a smaller one and of the rest, and is not less.
LEMMA PowerSplit ==
  \A n \in Nat : \A k \in 0 .. n :
    /\ n - k \in Nat /\ 2^k \in Nat \ {0} /\ 2^(n - k) \in Nat \ {0} /\ 2^n \in Nat \ {0}
    /\ 2^n = 2^k * 2^(n - k) /\ 2^k <= 2^n
<1>. TAKE n \in Nat
<1>. TAKE k \in 0 .. n
<1>1. n - k \in Nat /\ k \in Nat /\ k + (n - k) = n
  OBVIOUS
<1>2. 2^k \in Nat \ {0} /\ 2^(n - k) \in Nat \ {0} /\ 2^n \in Nat \ {0}
  BY <1>1, PowerOfTwo
<1>3. 2^n = 2^k * 2^(n - k)
  BY <1>1, PowerSum, Zenon
<1>4. \A p, q \in Nat \ {0} : p <= p * q
  OBVIOUS
<1>. QED  BY <1>1, <1>2, <1>3, <1>4, Zenon

\* Bit k of a number, its binary digit.
Digit(v, k) == (v \div 2^k) % 2

\* It is 0 or 1.
LEMMA DigitType == \A v, k \in Nat : Digit(v, k) \in 0 .. 1
<1>. TAKE v, k \in Nat
<1>. DEFINE p == 2^k
<1>1. p \in Nat \ {0}
  BY PowerOfTwo
<1>. HIDE DEF p
<1>2. v \div p \in Nat
  BY ONLY v \in Nat, <1>1, Division, Zenon
<1>3. (v \div p) % 2 \in 0 .. 1
  BY <1>2, Halving, Zenon
<1>. QED  BY <1>3 DEF Digit, p

\* A shift right moves the bits down.
LEMMA DigitDiv == \A v, s, k \in Nat : Digit(v \div 2^s, k) = Digit(v, s + k)
<1>. TAKE v, s, k \in Nat
<1>1. (v \div 2^s) \div 2^k = v \div (2^s * 2^k)
  BY PowerOfTwo, MixedRadix, Zenon
<1>2. 2^(s + k) = 2^s * 2^k
  BY PowerSum, Zenon
<1>. QED  BY <1>1, <1>2, Zenon DEF Digit

\* A remainder has the low bits.
LEMMA DigitMod ==
  \A v, n \in Nat : \A k \in 0 .. n - 1 : Digit(v % 2^n, k) = Digit(v, k)
<1>. TAKE v, n \in Nat
<1>. TAKE k \in 0 .. n - 1
<1>. DEFINE m == n - k - 1
<1>1. m \in Nat /\ k \in Nat /\ k \in 0 .. n /\ n - k = m + 1
  OBVIOUS
<1>. HIDE DEF m
<1>2. 2^n = 2^k * (2 * 2^m)
  <2>1. 2^n = 2^k * 2^(m + 1)
    BY <1>1, PowerSplit, Zenon
  <2>. QED  BY <1>1, <2>1, NextPower, Zenon
<1>3. 2^k \in Nat \ {0} /\ 2^m \in Nat \ {0} /\ 2 \in Nat \ {0} /\ 2 * 2^m \in Nat \ {0}
  <2>1. \A p \in Nat \ {0} : 2 * p \in Nat \ {0}
    OBVIOUS
  <2>2. 2^k \in Nat \ {0} /\ 2^m \in Nat \ {0}
    BY <1>1, PowerOfTwo
  <2>. QED  BY <2>1, <2>2
<1>4. (v % 2^n) \div 2^k = (v \div 2^k) % (2 * 2^m)
  <2>. DEFINE c == 2^k
              d == 2 * 2^m
  <2>1. (v % (c * d)) \div c = (v \div c) % d
    <3>1. c \in Nat \ {0} /\ d \in Nat \ {0}
      BY <1>3
    <3>. HIDE DEF c, d
    <3>. QED  BY <3>1, MixedRadix, Zenon
  <2>. QED  BY <1>2, <2>1, Zenon
<1>5. v \div 2^k \in Nat
  BY <1>3, Division, Zenon
<1>6. ((v \div 2^k) % (2 * 2^m)) % 2 = (v \div 2^k) % 2
  BY <1>3, <1>5, MixedRadix, Zenon
<1>. QED  BY <1>4, <1>6, Zenon DEF Digit

\* A number below a power has no bit from there on.
LEMMA NoBitAbove ==
  \A n \in Nat : \A v \in 0 .. 2^n - 1 : \A k \in Nat :
    k >= n => v \div 2^k = 0 /\ Digit(v, k) = 0
<1>. TAKE n \in Nat
<1>. TAKE v \in 0 .. 2^n - 1
<1>. SUFFICES ASSUME NEW k \in Nat, k >= n  PROVE v \div 2^k = 0 /\ Digit(v, k) = 0
  OBVIOUS
<1>. DEFINE p == 2^k
            t == 2^n
<1>1. p \in Nat \ {0} /\ t \in Nat \ {0} /\ t <= p
  <2>1. n \in 0 .. k
    OBVIOUS
  <2>. QED  BY <2>1, PowerSplit, Zenon
<1>2. v \in 0 .. t - 1
  OBVIOUS
<1>. HIDE DEF p, t
<1>3. v \in Nat /\ v \in 0 .. p - 1 /\ v = p * 0 + v
  BY <1>1, <1>2
<1>4. v \div p = 0
  BY ONLY <1>1, <1>3, 0 \in Int, Quotient
<1>5. 0 % 2 = 0
  OBVIOUS
<1>. QED  BY <1>4, <1>5, Zenon DEF Digit, p

\* v is y above the s bits of x.
Joins(v, y, s, x) == s \in Nat /\ y \in Nat /\ x \in 0 .. 2^s - 1 /\ v = x + y * 2^s

\* The parts of a number that is one above another, and its bits.
LEMMA Concatenation ==
  \A v, y, s, x : Joins(v, y, s, x) =>
    /\ v \in Nat /\ v \div 2^s = y /\ v % 2^s = x
    /\ \A k \in 0 .. s - 1 : Digit(v, k) = Digit(x, k)
    /\ \A k \in Nat : Digit(v, s + k) = Digit(y, k)
<1>. TAKE v, y, s, x
<1>. HAVE Joins(v, y, s, x)
<1>0. s \in Nat /\ y \in Nat /\ x \in 0 .. 2^s - 1 /\ v = x + y * 2^s
  BY DEF Joins
<1>. DEFINE p == 2^s
<1>1. p \in Nat \ {0}
  BY <1>0, PowerOfTwo
<1>2. v \in Nat /\ v \div p = y /\ v % p = x
  <2>1. v = p * y + x /\ v \in Nat /\ x \in 0 .. p - 1
    <3>1. v = x + y * p /\ y \in Nat
      BY <1>0
    <3>2. x \in 0 .. p - 1
      BY <1>0
    <3>. HIDE DEF p
    <3>. QED  BY <1>1, <3>1, <3>2
  <2>. HIDE DEF p
  <2>. QED  BY ONLY <1>0, <1>1, <2>1, Quotient
<1>3. ASSUME NEW k \in 0 .. s - 1  PROVE Digit(v, k) = Digit(x, k)
  <2>1. Digit(v % 2^s, k) = Digit(v, k)
    BY <1>0, <1>2, DigitMod, Zenon
  <2>. QED  BY <1>2, <2>1, Zenon
<1>4. ASSUME NEW k \in Nat  PROVE Digit(v, s + k) = Digit(y, k)
  <2>1. Digit(v \div 2^s, k) = Digit(v, s + k)
    BY <1>0, <1>2, DigitDiv, Zenon
  <2>. QED  BY <1>2, <2>1, Zenon
<1>. QED  BY <1>2, <1>3, <1>4, Zenon

\* The bits of what is left to a power less one.
LEMMA DigitComplement ==
  \A n \in Nat : \A a \in 0 .. 2^n - 1 : \A k \in 0 .. n - 1 :
    Digit(2^n - 1 - a, k) = 1 - Digit(a, k)
<1>. TAKE n \in Nat
<1>. TAKE a \in 0 .. 2^n - 1
<1>. TAKE k \in 0 .. n - 1
<1>. DEFINE j == n - k - 1
<1>1. j \in Nat /\ k \in Nat /\ k \in 0 .. n /\ n - k = j + 1
  OBVIOUS
<1>. HIDE DEF j
<1>. DEFINE p == 2^k
            m == 2^j
            c == 2^n - 1 - a
            t == 2^n
<1>2. t = p * (2 * m) /\ t \in Nat /\ p \in Nat \ {0} /\ m \in Nat \ {0}
  <2>1. 2^n = 2^k * 2^(j + 1)
    BY <1>1, PowerSplit, Zenon
  <2>. QED  BY <1>1, <2>1, NextPower, PowerOfTwo, Zenon
<1>3. a \in 0 .. t - 1 /\ c = t - 1 - a
  OBVIOUS
<1>. HIDE DEF p, m, c, t
<1>4. a \in Nat
  BY <1>3
<1>5. PICK q \in Nat, r \in 0 .. p-1 : a = p * q + r /\ a \div p = q /\ a % p = r
  BY ONLY <1>2, <1>4, Division, Zenon
<1>6. PICK h \in Nat, b \in 0 .. 1 : q = 2 * h + b /\ q \div 2 = h /\ q % 2 = b
  BY ONLY q \in Nat, Halving, Zenon
<1>. DEFINE u == 2 * m - 1 - q
            w == p - 1 - r
            g == m - 1 - h
            d == 1 - b
<1>7. c = p * u + w
  <2>1. p * (2 * m - 1 - q) = p * (2 * m) - p - p * q
    BY ONLY <1>2, q \in Nat
  <2>2. p * (2 * m) \in Nat /\ p * q \in Nat
    BY ONLY <1>2, q \in Nat
  <2>. QED  BY ONLY <1>2, <1>3, <1>5, <2>1, <2>2, r \in 0 .. p - 1
<1>8. q < 2 * m
  <2>. SUFFICES ASSUME q >= 2 * m  PROVE FALSE
    BY <1>2
  <2>1. p * q >= p * (2 * m)
    BY ONLY <1>2, q \in Nat, q >= 2 * m
  <2>2. p * (2 * m) \in Nat /\ p * q \in Nat
    BY ONLY <1>2, q \in Nat
  <2>. QED  BY ONLY <1>2, <1>3, <1>5, <2>1, <2>2, r \in 0 .. p - 1
<1>9. u \in Nat /\ w \in 0 .. p - 1 /\ g \in Int /\ d \in 0 .. 1 /\ u = 2 * g + d
  BY <1>2, <1>6, <1>8
<1>10. c \in Nat
  BY <1>2, <1>3
<1>. HIDE DEF u, w, g, d
<1>11. c \div p = u
  BY ONLY <1>2, <1>7, <1>9, <1>10, Quotient
<1>12. u % 2 = d
  BY ONLY <1>9, 2 \in Nat \ {0}, 2 - 1 = 1, Quotient
<1>13. Digit(c, k) = d /\ Digit(a, k) = b
  BY <1>5, <1>6, <1>11, <1>12, Zenon DEF Digit, p
<1>. QED  BY <1>13, Zenon DEF d, c, t

\* A number of n + 1 bits is its last bit and a number of n bits.
LEMMA TopBit ==
  \A n \in Nat : \A v \in 0 .. 2^(n + 1) - 1 :
    /\ v = (v % 2^n) + Digit(v, n) * 2^n
    /\ v % 2^n \in 0 .. 2^n - 1
<1>. TAKE n \in Nat
<1>. TAKE v \in 0 .. 2^(n + 1) - 1
<1>. DEFINE p == 2^n
            b == Digit(v, n)
<1>1. p \in Nat \ {0} /\ 2^(n + 1) = 2 * p
  BY PowerOfTwo, NextPower
<1>2. v \in 0 .. 2 * p - 1
  BY <1>1
<1>3. b = (v \div p) % 2
  BY DEF Digit
<1>. HIDE DEF p, b
<1>4. v \in Nat
  BY <1>1, <1>2
<1>5. v % (2 * p) = (v % p) + p * ((v \div p) % 2)
  BY ONLY <1>1, <1>4, ModDouble, Zenon
<1>6. v % (2 * p) = v
  BY ONLY <1>1, <1>2
<1>7. v % p \in 0 .. p - 1
  BY ONLY <1>1, <1>4, Division, Zenon
<1>8. b \in 0 .. 1
  BY <1>4, DigitType DEF b
<1>. DEFINE m == v % p
<1>9. v = m + p * b /\ m \in 0 .. p - 1
  BY <1>3, <1>5, <1>6, <1>7, Zenon
<1>. HIDE DEF m
<1>10. v = m + b * p
  BY ONLY <1>8, <1>9, <1>1
<1>. QED  BY <1>9, <1>10, Zenon DEF m, b, p

\* Numbers with the same bits are the same.
LEMMA EqualBits ==
  \A n \in Nat : \A v, w \in 0 .. 2^n - 1 :
    (\A k \in 0 .. n - 1 : Digit(v, k) = Digit(w, k)) => v = w
<1>. DEFINE S == {n \in Nat : \A v, w \in 0 .. 2^n - 1 :
                    (\A k \in 0 .. n - 1 : Digit(v, k) = Digit(w, k)) => v = w}
<1>1. 0 \in S
  <2>1. 0 .. 2^0 - 1 = {0}
    BY PowerOfZero
  <2>. QED  BY <2>1
<1>2. ASSUME NEW n \in Nat, n \in S  PROVE n + 1 \in S
  <2>. SUFFICES ASSUME NEW v \in 0 .. 2^(n + 1) - 1, NEW w \in 0 .. 2^(n + 1) - 1,
                       \A k \in 0 .. (n + 1) - 1 : Digit(v, k) = Digit(w, k)
                PROVE  v = w
    OBVIOUS
  <2>1. /\ v = (v % 2^n) + Digit(v, n) * 2^n /\ v % 2^n \in 0 .. 2^n - 1
        /\ w = (w % 2^n) + Digit(w, n) * 2^n /\ w % 2^n \in 0 .. 2^n - 1
    BY TopBit, Zenon
  <2>2. Digit(v, n) = Digit(w, n)
    OBVIOUS
  <2>3. v \in Nat /\ w \in Nat
    BY PowerOfTwo
  <2>4. ASSUME NEW k \in 0 .. n - 1  PROVE Digit(v % 2^n, k) = Digit(w % 2^n, k)
    <3>1. Digit(v % 2^n, k) = Digit(v, k) /\ Digit(w % 2^n, k) = Digit(w, k)
      BY <2>3, DigitMod, Zenon
    <3>2. k \in 0 .. (n + 1) - 1
      OBVIOUS
    <3>. QED  BY <3>1, <3>2, Zenon
  <2>5. v % 2^n = w % 2^n
    BY <1>2, <2>1, <2>4, Zenon
  <2>. QED  BY <2>1, <2>2, <2>5, Zenon
<1>. HIDE DEF S
<1>3. \A n \in Nat : n \in S
  BY <1>1, <1>2, Induction, Zenon
<1>. QED  BY <1>3 DEF S

\* Every set is the set of the one bits of a number, up to any bit.
LEMMA NumberOfBits ==
  ASSUME NEW T
  PROVE  \A n \in Nat : \E v \in 0 .. 2^n - 1 : \A k \in 0 .. n - 1 : Digit(v, k) = 1 <=> k \in T
<1>. DEFINE S == {n \in Nat : \E v \in 0 .. 2^n - 1 : \A k \in 0 .. n - 1 : Digit(v, k) = 1 <=> k \in T}
<1>1. 0 \in S
  <2>1. 0 .. 2^0 - 1 = {0} /\ 0 .. 0 - 1 = {}
    BY PowerOfZero
  <2>. QED  BY <2>1
<1>2. ASSUME NEW n \in Nat, n \in S  PROVE n + 1 \in S
  <2>1. PICK x \in 0 .. 2^n - 1 : \A k \in 0 .. n - 1 : Digit(x, k) = 1 <=> k \in T
    BY <1>2
  <2>2. PICK b \in 0 .. 1 : b \in Nat /\ (b = 1 <=> n \in T)
    <3>1. CASE n \in T
      BY <3>1
    <3>2. CASE n \notin T
      BY <3>2
    <3>. QED  BY <3>1, <3>2
  <2>. DEFINE v == x + b * 2^n
              p == 2^n
  <2>3. v \in 0 .. 2^(n + 1) - 1
    <3>1. 2^(n + 1) = 2 * p /\ p \in Nat \ {0}
      BY PowerOfTwo, NextPower
    <3>2. b * p = 0 \/ b * p = p
      BY <3>1
    <3>3. v = x + b * p /\ x \in 0 .. p - 1
      OBVIOUS
    <3>. HIDE DEF p, v
    <3>. QED  BY <3>1, <3>2, <3>3
  <2>0. Joins(v, b, n, x)
    BY DEF Joins
  <2>4. \A k \in 0 .. n - 1 : Digit(v, k) = Digit(x, k)
    BY <2>0, Concatenation, SMT
  <2>5. Digit(v, n) = b
    <3>1. n + 0 = n /\ 0 \in Nat
      OBVIOUS
    <3>2. Digit(v, n + 0) = Digit(b, 0)
      BY <2>0, <3>1, Concatenation, SMT
    <3>3. b \div 2^0 = b /\ b % 2 = b
      BY PowerOfZero
    <3>. QED  BY <3>1, <3>2, <3>3, Zenon DEF Digit
  <2>. HIDE DEF v
  <2>6. \A k \in 0 .. (n + 1) - 1 : k \in 0 .. n - 1 \/ k = n
    OBVIOUS
  <2>7. \A k \in 0 .. (n + 1) - 1 : Digit(v, k) = 1 <=> k \in T
    BY <2>1, <2>2, <2>4, <2>5, <2>6, Zenon
  <2>. QED  BY <2>3, <2>7
<1>. HIDE DEF S
<1>3. \A n \in Nat : n \in S
  BY <1>1, <1>2, Induction, Zenon
<1>. QED  BY <1>3 DEF S

\* The number that is summed up from its digits, the high ones first.
LEMMA SumOfDigits ==
  \A n \in Nat : \A v \in 0 .. 2^n - 1 :
    /\ v \div 2^n = 0 /\ v \div 2^0 = v
    /\ \A k \in 0 .. n - 1 : v \div 2^k = Digit(v, k) + 2 * (v \div 2^(k + 1))
<1>. TAKE n \in Nat
<1>. TAKE v \in 0 .. 2^n - 1
<1>1. v \in Nat
  BY PowerOfTwo
<1>2. v \div 2^n = 0
  BY NoBitAbove
<1>3. v \div 2^0 = v
  BY <1>1, PowerOfZero
<1>4. ASSUME NEW k \in 0 .. n - 1
      PROVE  v \div 2^k = Digit(v, k) + 2 * (v \div 2^(k + 1))
  <2>. DEFINE p == 2^k
  <2>1. p \in Nat \ {0} /\ 2^(k + 1) = 2 * p
    BY PowerOfTwo, NextPower
  <2>2. Digit(v, k) = (v \div p) % 2
    BY DEF Digit
  <2>. HIDE DEF p
  <2>3. v \div p \in Nat
    BY ONLY <1>1, <2>1, Division, Zenon
  <2>4. v \div (2 * p) = (v \div p) \div 2
    BY ONLY <1>1, <2>1, HalfOfDiv, Zenon
  <2>5. PICK h \in Nat, b \in 0 .. 1 : v \div p = 2 * h + b /\ (v \div p) \div 2 = h /\ (v \div p) % 2 = b
    BY ONLY <2>3, Halving, Zenon
  <2>6. v \div p = b + 2 * h
    BY <2>5
  <2>. QED  BY <2>1, <2>2, <2>4, <2>5, <2>6, Zenon DEF p
<1>. QED  BY <1>2, <1>3, <1>4, Zenon

\* A function that sums up the digits of a number, from the high ones to the low
\* ones, ends with the number.
LEMMA DigitsSummedUp ==
  ASSUME NEW n \in Nat, NEW v \in 0 .. 2^n - 1, NEW f, f[n] = 0,
         \A k \in 0 .. n - 1 : f[k] = Digit(v, k) + 2 * f[k + 1]
  PROVE  f[0] = v
<1>. DEFINE S == {m \in Nat : m <= n => f[n - m] = v \div 2^(n - m)}
<1>1. 0 \in S
  <2>1. n - 0 = n /\ v \div 2^n = 0
    BY SumOfDigits
  <2>. QED  BY <2>1
<1>2. ASSUME NEW m \in Nat, m \in S  PROVE m + 1 \in S
  <2>. SUFFICES ASSUME m + 1 <= n  PROVE f[n - (m + 1)] = v \div 2^(n - (m + 1))
    OBVIOUS
  <2>. DEFINE k == n - (m + 1)
  <2>1. k \in 0 .. n - 1 /\ k + 1 = n - m
    OBVIOUS
  <2>2. f[n - m] = v \div 2^(n - m)
    BY <1>2
  <2>. HIDE DEF k
  <2>3. f[k + 1] = v \div 2^(k + 1)
    BY <2>1, <2>2, Zenon
  <2>4. f[k] = Digit(v, k) + 2 * f[k + 1] /\ v \div 2^k = Digit(v, k) + 2 * (v \div 2^(k + 1))
    BY <2>1, SumOfDigits, Zenon
  <2>5. f[k] = v \div 2^k
    BY <2>3, <2>4, Zenon
  <2>. QED  BY <2>5 DEF k
<1>3. n \in S
  <2>. HIDE DEF S
  <2>. QED  BY <1>1, <1>2, Induction, Zenon
<1>4. f[n - n] = v \div 2^(n - n)
  BY <1>3
<1>5. n - n = 0
  OBVIOUS
<1>. QED  BY <1>4, <1>5, SumOfDigits, Zenon

\* A remainder of a multiple.
LEMMA ModOfMultiple ==
  \A x \in Nat : \A l, f \in Nat \ {0} : (x * l) % (f * l) = (x % f) * l
<1>. TAKE x \in Nat
<1>. TAKE l, f \in Nat \ {0}
<1>1. PICK q \in Nat, r \in 0 .. f-1 : x = f * q + r /\ x \div f = q /\ x % f = r
  BY ONLY x \in Nat, f \in Nat \ {0}, Division, Zenon
<1>. DEFINE n == x * l
            d == f * l
            s == r * l
<1>2. n \in Nat /\ d \in Nat \ {0} /\ n = d * q + s
  <2>1. (f * q + r) * l = (f * l) * q + r * l
    BY ONLY f \in Nat, q \in Nat, r \in 0 .. f - 1, l \in Nat
  <2>. QED  BY <1>1, <2>1
<1>3. s \in 0 .. d - 1
  <2>1. r * l <= (f - 1) * l
    BY ONLY r \in 0 .. f - 1, l \in Nat, f \in Nat \ {0}
  <2>2. (f - 1) * l = f * l - l
    BY ONLY l \in Nat, f \in Nat \ {0}
  <2>3. r * l \in Nat /\ f * l \in Nat
    BY ONLY r \in 0 .. f - 1, l \in Nat, f \in Nat \ {0}
  <2>. QED  BY ONLY <2>1, <2>2, <2>3, l \in Nat \ {0}
<1>4. n % d = s
  <2>. HIDE DEF n, d, s
  <2>. QED  BY ONLY q \in Nat, <1>2, <1>3, Quotient
<1>. QED  BY <1>1, <1>4, Zenon

\* A number of which a field, len bits from bit lo on, is replaced by y.
Replaced(v, lo, len, y) == v + (y - ((v \div 2^lo) % 2^len)) * 2^lo

\* w is a number v of n bits with the field replaced.
Replaces(w, v, n, lo, len, y) ==
  /\ n \in Nat /\ lo \in Nat /\ len \in Nat /\ lo + len <= n
  /\ v \in 0 .. 2^n - 1 /\ y \in 0 .. 2^len - 1
  /\ w = Replaced(v, lo, len, y)

\* It has as many bits as before, and those outside the field are the same.
LEMMA FieldReplaced ==
  \A w, v, n, lo, len, y : Replaces(w, v, n, lo, len, y) =>
    /\ w \in 0 .. 2^n - 1
    /\ \A k \in 0 .. lo - 1 : Digit(w, k) = Digit(v, k)
    /\ \A j \in 0 .. len - 1 : Digit(w, lo + j) = Digit(y, j)
    /\ \A k \in Nat : k >= lo + len => Digit(w, k) = Digit(v, k)
<1>. TAKE w, v, n, lo, len, y
<1>. HAVE Replaces(w, v, n, lo, len, y)
<1>a. /\ n \in Nat /\ lo \in Nat /\ len \in Nat /\ lo + len <= n
      /\ v \in 0 .. 2^n - 1 /\ y \in 0 .. 2^len - 1 /\ w = Replaced(v, lo, len, y)
  BY DEF Replaces
<1>. USE <1>a
<1>0. w = v + (y - ((v \div 2^lo) % 2^len)) * 2^lo
  BY DEF Replaced
<1>. DEFINE L == 2^lo
            F == 2^len
            G == 2^(n - (lo + len))
            N == 2^n
<1>1. L \in Nat \ {0} /\ F \in Nat \ {0} /\ G \in Nat \ {0} /\ N = (L * F) * G
  <2>1. lo + len \in 0 .. n
    OBVIOUS
  <2>2. 2^n = 2^(lo + len) * 2^(n - (lo + len)) /\ 2^(n - (lo + len)) \in Nat \ {0}
    BY <2>1, PowerSplit, Zenon
  <2>3. 2^(lo + len) = 2^lo * 2^len
    BY PowerSum, Zenon
  <2>. QED  BY <2>2, <2>3, PowerOfTwo, Zenon
<1>2. v \in 0 .. N - 1 /\ y \in 0 .. F - 1 /\ w = v + (y - ((v \div L) % F)) * L
  BY <1>0
<1>. HIDE DEF L, F, G, N
<1>3. N \in Nat \ {0} /\ v \in Nat /\ y \in Nat
  <2>1. N \in Nat \ {0}
    BY <1>1
  <2>. QED  BY <2>1, <1>1, <1>2
<1>4. PICK q \in Nat, x \in 0 .. L-1 : v = L * q + x /\ v \div L = q /\ v % L = x
  BY ONLY <1>1, <1>3, Division, Zenon
<1>5. PICK p \in Nat, s \in 0 .. F-1 : q = F * p + s /\ q \div F = p /\ q % F = s
  BY ONLY <1>1, q \in Nat, Division, Zenon
<1>. DEFINE u == y + p * F
<1>6. u \in Nat /\ w = x + u * L
  <2>1. u \in Nat
    BY ONLY <1>1, <1>3, p \in Nat
  <2>2. w = (L * (F * p + s) + x) + (y - s) * L
    BY <1>2, <1>4, <1>5, Zenon
  <2>3. (L * (F * p + s) + x) + (y - s) * L = x + (y + p * F) * L
    BY ONLY <1>1, <1>3, p \in Nat, s \in 0 .. F - 1, x \in 0 .. L - 1
  <2>. QED  BY <2>1, <2>2, <2>3, Zenon
<1>7. /\ w \in Nat /\ w \div L = u /\ w % L = x
      /\ \A k \in 0 .. lo - 1 : Digit(w, k) = Digit(x, k)
      /\ \A k \in Nat : Digit(w, lo + k) = Digit(u, k)
  <2>1. Joins(w, u, lo, x)
    BY <1>6 DEF L, Joins
  <2>. HIDE DEF u
  <2>. QED  BY <2>1, Concatenation, SMT DEF L
<1>8. /\ \A k \in 0 .. len - 1 : Digit(u, k) = Digit(y, k)
      /\ \A k \in Nat : Digit(u, len + k) = Digit(p, k)
  <2>1. Joins(u, p, len, y)
    BY <1>2 DEF F, Joins
  <2>. HIDE DEF u
  <2>. QED  BY ONLY <2>1, Concatenation, SMT
<1>. HIDE DEF u
<1>9. w \in 0 .. N - 1
  <2>1. p < G
    <3>. SUFFICES ASSUME p >= G  PROVE FALSE
      BY <1>1
    <3>1. (L * F) * p >= (L * F) * G
      <4>1. L * F \in Nat
        BY ONLY <1>1
      <4>. DEFINE c == L * F
      <4>2. c * p >= c * G
        <5>. HIDE DEF c
        <5>. QED  BY ONLY <4>1, <1>1, p \in Nat, p >= G DEF c
      <4>. QED  BY <4>2
    <3>2. L * (F * p + s) + x = (L * F) * p + L * s + x
      BY ONLY <1>1, p \in Nat, s \in 0 .. F - 1, x \in 0 .. L - 1
    <3>3. L * s \in Nat /\ (L * F) * p \in Nat /\ (L * F) * G \in Nat
      BY ONLY <1>1, p \in Nat, s \in 0 .. F - 1
    <3>. QED  BY ONLY <1>1, <1>2, <1>4, <1>5, <3>1, <3>2, <3>3, x \in 0 .. L - 1
  <2>2. w < (L * F) * (p + 1)
    <3>1. y * L <= (F - 1) * L
      BY ONLY <1>1, <1>2
    <3>2. w = x + y * L + (p * F) * L
      <4>1. (y + p * F) * L = y * L + (p * F) * L
        BY ONLY <1>1, <1>3, p \in Nat
      <4>2. w = x + (y + p * F) * L
        BY <1>6 DEF u
      <4>3. y * L \in Nat /\ (p * F) * L \in Nat
        BY ONLY <1>1, <1>3, p \in Nat
      <4>. QED  BY ONLY <4>1, <4>2, <4>3, x \in 0 .. L - 1, <1>1
    <3>3. (F - 1) * L = F * L - L /\ (L * F) * (p + 1) = (p * F) * L + F * L
      BY ONLY <1>1, p \in Nat
    <3>4. y * L \in Nat /\ (p * F) * L \in Nat /\ F * L \in Nat
      BY ONLY <1>1, <1>3, p \in Nat
    <3>. QED  BY ONLY <3>1, <3>2, <3>3, <3>4, x \in 0 .. L - 1, <1>1
  <2>3. (L * F) * (p + 1) <= N
    <3>. DEFINE c == L * F
    <3>1. c \in Nat
      BY <1>1
    <3>2. c * (p + 1) <= c * G
      <4>. HIDE DEF c
      <4>. QED  BY ONLY <3>1, <2>1, <1>1, p \in Nat
    <3>. QED  BY <3>2, <1>1
  <2>4. (L * F) * (p + 1) \in Nat
    BY ONLY <1>1, p \in Nat
  <2>. QED  BY ONLY <1>3, <1>7, <2>2, <2>3, <2>4
<1>10. ASSUME NEW k \in 0 .. lo - 1  PROVE Digit(w, k) = Digit(v, k)
  <2>1. Digit(v % 2^lo, k) = Digit(v, k)
    BY <1>3, DigitMod, Zenon
  <2>. QED  BY <1>4, <1>7, <2>1, Zenon DEF L
<1>11. ASSUME NEW j \in 0 .. len - 1  PROVE Digit(w, lo + j) = Digit(y, j)
  <2>1. j \in Nat
    OBVIOUS
  <2>. QED  BY <1>7, <1>8, <2>1, Zenon
<1>12. ASSUME NEW k \in Nat, k >= lo + len  PROVE Digit(w, k) = Digit(v, k)
  <2>. DEFINE m == k - (lo + len)
  <2>1. k = lo + (len + m) /\ m \in Nat /\ len + m \in Nat
    BY ONLY lo \in Nat, len \in Nat, k \in Nat, k >= lo + len
  <2>. HIDE DEF m
  <2>2. Digit(w, lo + (len + m)) = Digit(p, m)
    BY <1>7, <1>8, <2>1, Zenon
  <2>0. v \in Nat /\ len + m \in Nat
    BY <1>3, <2>1, Zenon
  <2>3. Digit(v \div 2^lo, len + m) = Digit(v, lo + (len + m))
    BY ONLY <2>0, lo \in Nat, DigitDiv, SMT
  <2>4. Digit(q \div 2^len, m) = Digit(q, len + m)
    BY ONLY <2>1, q \in Nat, len \in Nat, DigitDiv, SMT
  <2>. QED  BY <1>4, <1>5, <2>1, <2>2, <2>3, <2>4, Zenon DEF L, F
<1>. QED  BY <1>9, <1>10, <1>11, <1>12, Zenon DEF N

=============================================================================
