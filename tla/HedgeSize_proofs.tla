--------------------------- MODULE HedgeSize_proofs ---------------------------
(***************************************************************************)
(* What the float product of HedgeSize is worth against the exact quotient *)
(* for all ratios of up to 128 lots and all counts of lots a short holds.  *)
(* A rounding to 24 bits moves a number by one part in 2^24 at most; two   *)
(* of them move a product of at most 2^22 by less than one.                *)
(* The sets and the relations between numbers have names so that no leaf   *)
(* has both large numerals and products to deal with.                      *)
(***************************************************************************)
EXTENDS MCHedgeSize, TLAPS


-----------------------------------------------------------------------------
(* Powers of two, products, division.                                        *)

\* The powers of two that floats of this size need.
LEMMA PowersAre ==
    /\ TwoTo(0) = 1 /\ TwoTo(1) = 2 /\ TwoTo(2) = 4 /\ TwoTo(3) = 8 /\ TwoTo(4) = 16
    /\ TwoTo(5) = 32 /\ TwoTo(6) = 64 /\ TwoTo(7) = 128 /\ TwoTo(8) = 256 /\ TwoTo(9) = 512
    /\ TwoTo(10) = 1024 /\ TwoTo(11) = 2048 /\ TwoTo(12) = 4096 /\ TwoTo(13) = 8192
    /\ TwoTo(14) = 16384 /\ TwoTo(15) = 32768 /\ TwoTo(16) = 65536 /\ TwoTo(17) = 131072
    /\ TwoTo(18) = 262144 /\ TwoTo(19) = 524288 /\ TwoTo(20) = 1048576
    /\ TwoTo(21) = 2097152 /\ TwoTo(22) = 4194304 /\ TwoTo(23) = 8388608
    /\ TwoTo(24) = 16777216 /\ TwoTo(25) = 33554432 /\ TwoTo(26) = 67108864
    /\ TwoTo(27) = 134217728 /\ TwoTo(28) = 268435456 /\ TwoTo(29) = 536870912
    /\ TwoTo(30) = 1073741824 /\ TwoTo(31) = 2147483648 /\ TwoTo(32) = 4294967296
    /\ TwoTo(33) = 8589934592 /\ TwoTo(34) = 17179869184 /\ TwoTo(35) = 34359738368
    /\ TwoTo(36) = 68719476736 /\ TwoTo(37) = 137438953472 /\ TwoTo(38) = 274877906944
    /\ TwoTo(39) = 549755813888
  BY DEF TwoTo

\* Each is twice the one before it.
LEMMA Doubling ==
    \A n \in 0..29 : TwoTo(n) \in Nat \ {0} /\ TwoTo(n + 1) = 2 * TwoTo(n)
<1>1. \A n \in 0..9 : TwoTo(n) \in Nat \ {0} /\ TwoTo(n + 1) = 2 * TwoTo(n)
  BY PowersAre
<1>2. \A n \in 10..19 : TwoTo(n) \in Nat \ {0} /\ TwoTo(n + 1) = 2 * TwoTo(n)
  BY PowersAre
<1>3. \A n \in 20..29 : TwoTo(n) \in Nat \ {0} /\ TwoTo(n + 1) = 2 * TwoTo(n)
  BY PowersAre
<1> QED
  BY <1>1, <1>2, <1>3

\* Products keep the order of their factors.
LEMMA MulMono ==
    ASSUME NEW a \in Int, NEW b \in Int, NEW c \in Nat, a <= b
    PROVE  a * c <= b * c /\ c * a <= c * b
  OBVIOUS

\* A positive factor cancels.
LEMMA MulCancel ==
    ASSUME NEW a \in Int, NEW b \in Int, NEW c \in Nat \ {0}, a * c <= b * c
    PROVE  a <= b
  OBVIOUS

\* Quotient and remainder.
LEMMA Division ==
    ASSUME NEW x \in Nat, NEW y \in Nat \ {0}
    PROVE  /\ x \div y \in Nat /\ x % y \in 0..(y - 1)
           /\ x = y * (x \div y) + (x % y)
<1>1. x \div y \in Nat
  OBVIOUS
<1>2. x % y \in 0..(y - 1)
  OBVIOUS
<1>3. x = y * (x \div y) + (x % y)
  OBVIOUS
<1> QED
  BY <1>1, <1>2, <1>3

-----------------------------------------------------------------------------
(* The two roundings.                                                        *)

\* Nearest is off by half a divisor at most, and no integer is nearer below.
LEMMA NearestIs ==
    ASSUME NEW x \in Nat, NEW y \in Nat \ {0}
    PROVE  /\ Nearest(x, y) \in Nat
           /\ 2 * (y * Nearest(x, y)) <= 2 * x + y
           /\ 2 * x <= 2 * (y * Nearest(x, y)) + y
           /\ \A k \in Nat : 2 * (y * k) < 2 * x + y => k <= Nearest(x, y)
<1> DEFINE q == x \div y
           r == x % y
           near == Nearest(x, y)
<1>1. q \in Nat /\ r \in 0..(y - 1) /\ x = y * q + r
  BY Division
<1>2. \/ near = q /\ 2 * r <= y
      \/ near = q + 1 /\ 2 * r >= y
  <2>1. 2 * r > y => near = q + 1
    BY DEF Nearest
  <2>2. 2 * r < y => near = q
    <3>1. 2 * r < y => ~(2 * r > y) /\ ~(2 * r = y)
      BY <1>1
    <3> QED
      BY <3>1 DEF Nearest
  <2>3. near = q \/ near = q + 1
    BY DEF Nearest
  <2> QED
    BY <1>1, <2>1, <2>2, <2>3
<1> HIDE DEF q, r, near
<1>3. y * (q + 1) = y * q + y /\ y * (q + 2) = y * q + 2 * y /\ y * q \in Nat
  BY <1>1
<1>4. near \in Nat /\ 2 * (y * near) <= 2 * x + y /\ 2 * x <= 2 * (y * near) + y
  BY <1>1, <1>2, <1>3
<1>5. ASSUME NEW k \in Nat, 2 * (y * k) < 2 * x + y PROVE k <= near
  <2>1. CASE near = q /\ 2 * r <= y
    <3>1. ASSUME k >= q + 1 PROVE FALSE
      <4>1. y * (q + 1) <= y * k
        BY <1>1, <3>1, MulMono
      <4> QED
        BY <1>1, <1>3, <1>5, <2>1, <4>1
    <3> QED
      BY <1>1, <2>1, <3>1
  <2>2. CASE near = q + 1
    <3>1. ASSUME k >= q + 2 PROVE FALSE
      <4>1. y * (q + 2) <= y * k
        BY <1>1, <3>1, MulMono
      <4> QED
        BY <1>1, <1>3, <1>5, <4>1
    <3> QED
      BY <1>1, <2>2, <3>1
  <2> QED
    BY <1>2, <2>1, <2>2
<1> QED
  BY <1>4, <1>5 DEF near

\* A number of at most 39 bits is rounded to a multiple of the power of two that
\* leaves it 24 bits.
LEMMA RoundedIs ==
    ASSUME NEW p \in Nat, p < TwoTo(39)
    PROVE  \E s \in 0..15 : /\ Rounded(p) = Nearest(p, TwoTo(s)) * TwoTo(s)
                            /\ p < TwoTo(24) * TwoTo(s)
                            /\ s > 0 => TwoTo(23) * TwoTo(s) <= p
<1> DEFINE fits(n) == p < TwoTo(24 + n) /\ (n > 0 => p >= TwoTo(23 + n))
<1>1. \E n \in 0..15 : fits(n)
  <2>1. p < 1073741824 => \E n \in 0..6 : fits(n)
    BY PowersAre
  <2>2. p >= 1073741824 /\ p < 34359738368 => \E n \in 7..11 : fits(n)
    BY PowersAre
  <2>3. p >= 34359738368 => \E n \in 12..15 : fits(n)
    BY PowersAre
  <2> QED
    BY <2>1, <2>2, <2>3
<1> DEFINE s == CHOOSE n \in 0..15 : fits(n)
<1>2. s \in 0..15 /\ fits(s)
  <2> HIDE DEF fits
  <2> QED
    BY <1>1
<1>3. Rounded(p) = Nearest(p, TwoTo(s)) * TwoTo(s)
  BY DEF Rounded
<1> HIDE DEF s
<1>4. TwoTo(24 + s) = TwoTo(24) * TwoTo(s) /\ TwoTo(23 + s) = TwoTo(23) * TwoTo(s)
  <2>1. CASE s \in 0..7
    BY <2>1, PowersAre
  <2>2. CASE s \in 8..15
    BY <2>2, PowersAre
  <2> QED
    BY <1>2, <2>1, <2>2
<1> QED
  BY <1>2, <1>3, <1>4

\* Rounding to 24 bits changes a number by one part in 2^24 at most, and stays on the
\* right side of every number of few bits that is as near.
LEMMA RoundedNear ==
    ASSUME NEW p \in Nat, p < TwoTo(39)
    PROVE  /\ Rounded(p) \in Nat
           /\ TwoTo(24) * Rounded(p) <= TwoTo(24) * p + p
           /\ TwoTo(24) * p <= TwoTo(24) * Rounded(p) + p
           /\ \A n \in Nat, j \in 15..30 :
                TwoTo(25) * (n * TwoTo(j)) < TwoTo(25) * p + p => n * TwoTo(j) <= Rounded(p)
<1>1. PICK s \in 0..15 : /\ Rounded(p) = Nearest(p, TwoTo(s)) * TwoTo(s)
                         /\ p < TwoTo(24) * TwoTo(s)
                         /\ s > 0 => TwoTo(23) * TwoTo(s) <= p
  BY RoundedIs
<1> DEFINE u == TwoTo(s)
           near == Nearest(p, u)
           v == Rounded(p)
<1>2. u \in Nat \ {0}
  BY Doubling
<1>3. /\ near \in Nat
      /\ 2 * (u * near) <= 2 * p + u
      /\ 2 * p <= 2 * (u * near) + u
      /\ \A k \in Nat : 2 * (u * k) < 2 * p + u => k <= near
  BY <1>2, NearestIs
<1>4. u * near = v /\ v \in Nat
  <2>1. near * u = u * near /\ near * u \in Nat
    BY <1>2, <1>3
  <2> QED
    BY <1>1, <2>1
<1>5. p < 16777216 * u /\ (s > 0 => 8388608 * u <= p)
  BY <1>1, PowersAre
<1>6. s = 0 => u = 1
  BY PowersAre
<1> HIDE DEF u, near, v
<1>7. 16777216 * v <= 16777216 * p + p /\ 16777216 * p <= 16777216 * v + p
  <2>1. CASE s = 0
    BY <1>2, <1>3, <1>4, <1>6, <2>1
  <2>2. CASE s > 0
    BY <1>2, <1>3, <1>4, <1>5, <2>2
  <2> QED
    BY <2>1, <2>2
<1>8. ASSUME NEW n \in Nat, NEW j \in 15..30, TwoTo(25) * (n * TwoTo(j)) < TwoTo(25) * p + p
      PROVE  n * TwoTo(j) <= v
  <2>1. PICK w \in Nat : TwoTo(j) = u * w
    <3>1. j - s \in 0..30 /\ TwoTo(j - s) \in Nat /\ TwoTo(j) = TwoTo(s) * TwoTo(j - s)
      <4>1. \A i \in 0..15 : \A k \in 15..22 :
              TwoTo(k - i) \in Nat /\ TwoTo(k) = TwoTo(i) * TwoTo(k - i)
        BY PowersAre
      <4>2. \A i \in 0..15 : \A k \in 23..30 :
              TwoTo(k - i) \in Nat /\ TwoTo(k) = TwoTo(i) * TwoTo(k - i)
        BY PowersAre
      <4>3. CASE j \in 15..22
        BY <4>1, <4>3
      <4>4. CASE j \in 23..30
        BY <4>2, <4>4
      <4> QED
        BY <4>3, <4>4
    <3> QED
      BY <3>1 DEF u
  <2>2. n * TwoTo(j) = u * (n * w) /\ n * w \in Nat
    BY <1>2, <2>1
  <2>3. TwoTo(25) = 33554432
    BY PowersAre
  <2>4. 2 * (u * (n * w)) < 2 * p + u
    <3>1. u * (n * w) \in Nat
      BY <1>2, <2>2
    <3> QED
      BY <1>2, <1>5, <1>8, <2>2, <2>3, <3>1
  <2>5. n * w <= near
    BY <1>3, <2>2, <2>4
  <2>6. u * (n * w) <= u * near
    BY <1>2, <1>3, <2>2, <2>5, MulMono
  <2> QED
    BY <1>4, <2>2, <2>6
<1>9. TwoTo(24) = 16777216
  BY PowersAre
<1> QED
  BY <1>4, <1>7, <1>8, <1>9 DEF v

\* The exponent of the ratio exists, and leaves its mantissa 24 bits.
LEMMA RatioIs ==
    ASSUME NEW a \in 1..128, NEW b \in 1..128
    PROVE  \E e \in 16..30 : /\ TwoTo(23) * b <= a * TwoTo(e) /\ a * TwoTo(e) < TwoTo(24) * b
                             /\ HitRatio(a, b) = [m |-> Nearest(a * TwoTo(e), b), e |-> e]
<1> DEFINE fits(n) == TwoTo(23) * b <= a * TwoTo(n) /\ a * TwoTo(n) < TwoTo(24) * b
<1>1. \E n \in 0..30 : fits(n)
  <2>1. 8388608 * b <= 1048576 * a => \E n \in 16..20 : fits(n)
    BY PowersAre
  <2>2. 8388608 * b > 1048576 * a /\ 8388608 * b <= 33554432 * a => \E n \in 21..25 : fits(n)
    BY PowersAre
  <2>3. 8388608 * b > 33554432 * a => \E n \in 26..30 : fits(n)
    BY PowersAre
  <2> QED
    BY <2>1, <2>2, <2>3
<1> DEFINE e == CHOOSE n \in 0..30 : fits(n)
<1>2. e \in 0..30 /\ fits(e)
  <2> HIDE DEF fits
  <2> QED
    BY <1>1
<1>3. HitRatio(a, b) = [m |-> Nearest(a * TwoTo(e), b), e |-> e]
  BY DEF HitRatio
<1> HIDE DEF e
<1>4. e >= 16
  <2> SUFFICES ASSUME e \in 0..15 PROVE FALSE
    BY <1>2
  <2>1. TwoTo(e) \in Nat /\ TwoTo(e) <= 32768
    BY PowersAre
  <2>2. a * TwoTo(e) <= 128 * TwoTo(e)
    BY <2>1, MulMono
  <2> QED
    BY <1>2, <2>1, <2>2, PowersAre
<1> QED
  BY <1>2, <1>3, <1>4

-----------------------------------------------------------------------------
(* The float product against the ratio.                                      *)

\* A quotient is at least k, or at most k, as the products say.
LEMMA QuotientBounds ==
    ASSUME NEW x \in Nat, NEW y \in Nat \ {0}, NEW k \in Int
    PROVE  /\ k * y <= x => k <= x \div y
           /\ x < (k + 1) * y => x \div y <= k
<1> DEFINE q == x \div y
           r == x % y
<1>1. q \in Nat /\ r \in 0..(y - 1) /\ x = y * q + r
  BY Division
<1> HIDE DEF q, r
<1>2. (q + 1) * y = y * q + y /\ q * y = y * q /\ y * q \in Nat
  BY <1>1
<1>3. ASSUME k * y <= x PROVE k <= q
  <2>1. ASSUME q + 1 <= k PROVE FALSE
    <3>1. (q + 1) * y <= k * y
      BY <1>1, <2>1, MulMono
    <3>2. k * y \in Int
      OBVIOUS
    <3> QED
      BY <1>1, <1>2, <1>3, <3>1, <3>2
  <2> QED
    BY <1>1, <2>1
<1>4. ASSUME x < (k + 1) * y PROVE q <= k
  <2>1. ASSUME k + 1 <= q PROVE FALSE
    <3>1. (k + 1) * y <= q * y
      BY <1>1, <2>1, MulMono
    <3>2. (k + 1) * y \in Int
      OBVIOUS
    <3> QED
      BY <1>1, <1>2, <1>4, <3>1, <3>2
  <2> QED
    BY <1>1, <2>1
<1> QED
  BY <1>3, <1>4 DEF q

\* One part in 2^24 apart, as a rounding leaves it; and two of them.
Near(v, p) == 16777216 * v <= 16777216 * p + p /\ 16777216 * p <= 16777216 * v + p
Close(x, w) ==
    /\ 281474976710656 * x <= 281475010265089 * w
    /\ 281474943156225 * w <= 281474976710656 * x

\* The quotient X / y has 24 bits before the point; m is the integer next to it.
Wide(X, y) == 8388608 * y <= X /\ X < 16777216 * y
NextTo(m, X, y) == 2 * (y * m) <= 2 * X + y /\ 2 * X <= 2 * (y * m) + y

\* NearestIs in terms of NextTo.
LEMMA NearestNextTo ==
    ASSUME NEW X \in Nat, NEW y \in Nat \ {0}
    PROVE  Nearest(X, y) \in Nat /\ NextTo(Nearest(X, y), X, y)
  BY NearestIs DEF NextTo

\* RoundedNear in terms of Near.
LEMMA RoundedIsNear ==
    ASSUME NEW p \in Nat, p < TwoTo(39)
    PROVE  Rounded(p) \in Nat /\ Near(Rounded(p), p)
<1> DEFINE v == Rounded(p)
<1>1. /\ v \in Nat
      /\ TwoTo(24) * v <= TwoTo(24) * p + p /\ TwoTo(24) * p <= TwoTo(24) * v + p
  BY RoundedNear
<1>2. TwoTo(24) = 16777216
  BY PowersAre, SMT
<1> HIDE DEF v
<1>3. Near(v, p)
  BY <1>1, <1>2, SMT DEF Near
<1> QED
  BY <1>1, <1>3 DEF v

\* The two roundings together: v is the float product, X / b the ratio, scaled.
LEMMA FloatProduct ==
    ASSUME NEW t \in Nat, NEW b \in Nat, NEW X \in Nat, NEW m \in Nat, NEW v \in Nat,
           Wide(X, b), NextTo(m, X, b), Near(v, t * m)
    PROVE  Close(v * b, t * X)
<1> DEFINE B == b * m
           p == t * m
<1>1. B \in Nat /\ p \in Nat /\ t * B \in Nat /\ t * X \in Nat /\ v * b \in Nat /\ p * b \in Nat
  OBVIOUS
<1>2. p * b = t * B
  OBVIOUS
<1>3. 16777216 * B <= 16777217 * X /\ 16777215 * X <= 16777216 * B
  BY <1>1, SMT DEF Wide, NextTo
<1>4. 16777216 * v <= 16777217 * p /\ 16777215 * p <= 16777216 * v
  BY <1>1, SMT DEF Near
<1> HIDE DEF B, p
<1>5. 16777216 * (t * B) <= 16777217 * (t * X) /\ 16777215 * (t * X) <= 16777216 * (t * B)
  <2>1. /\ t * (16777216 * B) <= t * (16777217 * X)
        /\ t * (16777215 * X) <= t * (16777216 * B)
    BY <1>1, <1>3, MulMono
  <2> QED
    BY <1>1, <2>1
<1>6. 16777216 * (v * b) <= 16777217 * (p * b) /\ 16777215 * (p * b) <= 16777216 * (v * b)
  <2>1. /\ (16777216 * v) * b <= (16777217 * p) * b
        /\ (16777215 * p) * b <= (16777216 * v) * b
    BY <1>1, <1>4, MulMono
  <2> QED
    BY <1>1, <2>1
<1> QED
  BY <1>1, <1>2, <1>5, <1>6, SMT DEF Close

\* The counts of traded lots, and the lots of a leg in a unit of the portfolio.
Shorts == {n \in Nat : n <= 32767}
Units == 1..128

\* Both are sets of naturals, units have at least one lot.
LEMMA Naturals ==
    /\ \A t \in Shorts : t \in Nat /\ t <= 32767
    /\ \A a \in Units : a \in Nat \ {0}
  BY SMT DEF Shorts, Units

\* The mantissa of a ratio has 24 bits, so the product with a short has 39.
LEMMA ProductFits ==
    ASSUME NEW t \in Shorts, NEW b \in Nat, NEW X \in Nat, NEW m \in Nat,
           Wide(X, b), NextTo(m, X, b)
    PROVE  t * m \in Nat /\ t * m < TwoTo(39)
<1>1. m <= 16777216
  <2> SUFFICES ASSUME 16777217 <= m PROVE FALSE
    BY SMT
  <2>1. 16777217 * b <= m * b
    BY MulMono
  <2>2. m * b = b * m /\ b * m \in Nat
    OBVIOUS
  <2> QED
    BY <2>1, <2>2, SMT DEF Wide, NextTo
<1>2. t \in Nat /\ t <= 32767
  BY Naturals
<1>3. t * m <= t * 16777216 /\ t * m \in Nat
  BY <1>1, <1>2, MulMono
<1>4. t * 16777216 < 549755813888
  BY <1>2, SMT
<1>5. TwoTo(39) = 549755813888
  BY PowersAre, SMT
<1> DEFINE p == t * m
<1> HIDE DEF p
<1>6. p <= t * 16777216 /\ p \in Nat
  BY <1>3 DEF p
<1>7. p < 549755813888
  BY <1>2, <1>4, <1>6, SMT
<1> QED
  BY <1>5, <1>6, <1>7 DEF p

\* The exponent of the ratio.
Exponent(a, b, e) ==
    /\ TwoTo(e) \in Nat \ {0} /\ a * TwoTo(e) \in Nat
    /\ Wide(a * TwoTo(e), b)
    /\ HitRatio(a, b) = [m |-> Nearest(a * TwoTo(e), b), e |-> e]

\* RatioIs in terms of Exponent.
LEMMA RatioHasExponent ==
    ASSUME NEW a \in Units, NEW b \in Units
    PROVE  \E e \in 16..30 : Exponent(a, b, e)
<1>1. a \in 1..128 /\ b \in 1..128 /\ a \in Nat /\ b \in Nat
  BY SMT DEF Units
<1>2. \A c \in 1..128, d \in 1..128 : \E e \in 16..30 :
        /\ TwoTo(23) * d <= c * TwoTo(e) /\ c * TwoTo(e) < TwoTo(24) * d
        /\ HitRatio(c, d) = [m |-> Nearest(c * TwoTo(e), d), e |-> e]
  BY RatioIs
<1>3. PICK e \in 16..30 : /\ TwoTo(23) * b <= a * TwoTo(e) /\ a * TwoTo(e) < TwoTo(24) * b
                          /\ HitRatio(a, b) = [m |-> Nearest(a * TwoTo(e), b), e |-> e]
  <2> HIDE DEF Units
  <2> QED
    BY <1>1, <1>2
<1>4. TwoTo(e) \in Nat \ {0}
  BY PowersAre
<1>5. a * TwoTo(e) \in Nat
  BY <1>1, <1>4
<1>6. TwoTo(23) = 8388608 /\ TwoTo(24) = 16777216
  BY PowersAre, SMT
<1>7. Wide(a * TwoTo(e), b)
  <2> DEFINE X == a * TwoTo(e)
  <2>1. TwoTo(23) * b <= X /\ X < TwoTo(24) * b
    BY <1>3
  <2> HIDE DEF X
  <2>2. 8388608 * b <= X /\ X < 16777216 * b
    BY <1>6, <2>1, SMT
  <2>3. Wide(X, b)
    BY <2>2, SMT DEF Wide
  <2> QED
    BY <2>3 DEF X
<1>8. Exponent(a, b, e)
  BY <1>3, <1>4, <1>5, <1>7 DEF Exponent
<1> QED
  BY <1>8

\* What HitLots is made of: the ratio is X / b with X = a * 2^e, m its mantissa,
\* and v the float product.
Product(t, a, b, e, m, v) ==
    /\ HitLots(t, a, b) = v \div TwoTo(e)
    /\ v = Rounded(t * m) /\ t * m < TwoTo(39) /\ Near(v, t * m)
    /\ NextTo(m, a * TwoTo(e), b)
    /\ Close(v * b, t * (a * TwoTo(e)))

\* Every HitLots is such a product.
LEMMA HitLotsIs ==
    ASSUME NEW t \in Shorts, NEW a \in Units, NEW b \in Units
    PROVE  \E e \in 16..30 : \E m \in Nat, v \in Nat :
             Exponent(a, b, e) /\ Product(t, a, b, e, m, v)
<1>1. PICK e \in 16..30 : Exponent(a, b, e)
  BY RatioHasExponent
<1> DEFINE X == a * TwoTo(e)
           m == Nearest(X, b)
           v == Rounded(t * m)
<1>2. X \in Nat /\ b \in Nat \ {0} /\ t \in Nat
  BY <1>1, Naturals DEF Exponent
<1>3. Wide(X, b)
  BY <1>1 DEF Exponent
<1>4. HitLots(t, a, b) = v \div TwoTo(e)
  BY <1>1 DEF HitLots, Exponent
<1> HIDE DEF X
<1>5. m \in Nat /\ NextTo(m, X, b)
  BY <1>2, NearestNextTo
<1> HIDE DEF m
<1>6. t * m \in Nat /\ t * m < TwoTo(39)
  BY <1>2, <1>3, <1>5, ProductFits
<1>7. v \in Nat /\ Near(v, t * m)
  BY <1>6, RoundedIsNear
<1>8. v = Rounded(t * m)
  OBVIOUS
<1> HIDE DEF v
<1>9. Close(v * b, t * X)
  BY <1>2, <1>3, <1>5, <1>7, FloatProduct
<1>10. Product(t, a, b, e, m, v)
  BY <1>4, <1>5, <1>6, <1>7, <1>8, <1>9 DEF Product, X
<1> QED
  BY <1>1, <1>5, <1>7, <1>10

\* Two roundings move a product of at most 2^22 by less than one: c / b is the ratio's share,
\* v / E the float product.
LEMMA FloorBounds ==
    ASSUME NEW c \in Nat, c <= TwoTo(22), NEW b \in Nat \ {0}, NEW E \in Nat \ {0}, NEW v \in Nat,
           Close(v * b, c * E), NEW k \in Int
    PROVE  /\ k * b + 1 <= c => k <= v \div E
           /\ c < (k + 1) * b => v \div E <= k
<1> DEFINE W == c * E
           Y == v * b
           K == k * b
           L == (k + 1) * b
<1>1. W \in Nat /\ Y \in Nat /\ K \in Int /\ L \in Int /\ K * E \in Int /\ L * E \in Int
  OBVIOUS
<1>2. W <= 4194304 * E
  <2>1. c <= 4194304
    BY PowersAre, SMT
  <2> QED
    BY <2>1, MulMono
<1>3. Close(Y, W)
  OBVIOUS
<1>4. (k * E) * b = K * E /\ ((k + 1) * E) * b = L * E
  <2>1. (k * E) * b = (k * b) * E /\ ((k + 1) * E) * b = ((k + 1) * b) * E
    OBVIOUS
  <2> QED
    BY <2>1
<1>5. k * E \in Int /\ (k + 1) * E \in Int
  OBVIOUS
<1> HIDE DEF Y, K, L
<1>6. ASSUME K + 1 <= c PROVE k <= v \div E
  <2>1. (K + 1) * E <= W
    BY <1>1, <1>6, MulMono
  <2>2. (K + 1) * E = K * E + E
    BY <1>1
  <2>3. K * E <= Y
    <3> DEFINE Z == K * E
    <3>1. Z \in Int /\ Z + E <= W
      BY <1>1, <2>1, <2>2
    <3> HIDE DEF W, Z
    <3>2. Z <= Y
      BY <1>1, <1>2, <1>3, <3>1, SMT DEF Close
    <3> QED
      BY <3>2 DEF Z
  <2>4. (k * E) * b <= v * b
    BY <1>4, <2>3 DEF Y
  <2>5. k * E <= v
    BY <1>5, <2>4, MulCancel
  <2> QED
    BY <2>5, QuotientBounds
<1>7. ASSUME c < L PROVE v \div E <= k
  <2>1. (c + 1) * E <= L * E
    BY <1>1, <1>7, MulMono
  <2>2. (c + 1) * E = W + E
    OBVIOUS
  <2>3. Y < L * E
    <3> DEFINE Z == L * E
    <3>1. Z \in Int /\ W + E <= Z
      BY <1>1, <2>1, <2>2
    <3> HIDE DEF W, Z
    <3>2. Y < Z
      BY <1>1, <1>2, <1>3, <3>1, SMT DEF Close
    <3> QED
      BY <3>2 DEF Z
  <2>4. v * b < ((k + 1) * E) * b
    BY <1>4, <2>3 DEF Y
  <2>5. v < (k + 1) * E
    <3> SUFFICES ASSUME (k + 1) * E <= v PROVE FALSE
      BY <1>5
    <3>1. ((k + 1) * E) * b <= v * b
      BY <1>5, MulMono
    <3>2. v * b \in Int /\ ((k + 1) * E) * b \in Int
      BY <1>5
    <3> QED
      BY <2>4, <3>1, <3>2
  <2> QED
    BY <2>5, QuotientBounds
<1> QED
  BY <1>6, <1>7 DEF K, L

\* The same of HitLots.
LEMMA HitLotsBounds ==
    ASSUME NEW t \in Shorts, NEW a \in Units, NEW b \in Units, NEW k \in Int
    PROVE  /\ k * b + 1 <= t * a => k <= HitLots(t, a, b)
           /\ t * a < (k + 1) * b => HitLots(t, a, b) <= k
<1>1. PICK e \in 16..30 : \E m \in Nat, v \in Nat : Exponent(a, b, e) /\ Product(t, a, b, e, m, v)
  BY HitLotsIs
<1>2. PICK m \in Nat, v \in Nat : Exponent(a, b, e) /\ Product(t, a, b, e, m, v)
  BY <1>1
<1> DEFINE E == TwoTo(e)
           c == t * a
<1>3. E \in Nat \ {0} /\ HitLots(t, a, b) = v \div E /\ Close(v * b, t * (a * E))
  BY <1>2 DEF Exponent, Product
<1>4. t \in Nat /\ a \in Nat /\ b \in Nat \ {0}
  BY Naturals
<1> HIDE DEF E
<1>5. t * (a * E) = c * E
  BY <1>3, <1>4
<1>6. c \in Nat /\ c <= TwoTo(22)
  <2>1. t <= 32767 /\ a <= 128
    BY SMT DEF Shorts, Units
  <2>2. c <= t * 128 /\ c \in Nat
    BY <1>4, <2>1, MulMono
  <2>3. t * 128 <= 4194304
    BY <1>4, <2>1, SMT
  <2>4. TwoTo(22) = 4194304
    BY PowersAre, SMT
  <2> HIDE DEF c
  <2> QED
    BY <1>4, <2>2, <2>3, <2>4, SMT
<1> HIDE DEF c
<1>7. Close(v * b, c * E)
  BY <1>3, <1>5
<1>8. /\ k * b + 1 <= c => k <= v \div E
      /\ c < (k + 1) * b => v \div E <= k
  BY <1>3, <1>4, <1>6, <1>7, FloorBounds
<1> QED
  BY <1>3, <1>8 DEF c

\* The exact quotient, and what the next lot of the first leg adds to the product.
LEMMA ExactLotsIs ==
    ASSUME NEW t \in Nat, NEW a \in Nat \ {0}, NEW b \in Nat \ {0}
    PROVE  /\ ExactLots(t, a, b) \in Nat
           /\ ExactLots(t, a, b) * b <= t * a /\ t * a < (ExactLots(t, a, b) + 1) * b
           /\ ExactLots(t, a, b) * b + 1 <= (t + 1) * a
<1> DEFINE c == t * a
           N == ExactLots(t, a, b)
<1>1. c \in Nat /\ (t + 1) * a = c + a
  OBVIOUS
<1>2. N = c \div b
  BY DEF ExactLots
<1> HIDE DEF c, N
<1>3. c \div b \in Nat /\ c % b \in 0..(b - 1) /\ c = b * (c \div b) + (c % b)
  BY <1>1, Division
<1>4. N \in Nat /\ b * N <= c /\ c < b * N + b
  BY <1>1, <1>2, <1>3
<1>5. N * b = b * N /\ (N + 1) * b = b * N + b
  BY <1>4
<1>6. N * b <= c /\ c < (N + 1) * b /\ N * b + 1 <= c + a
  BY <1>1, <1>4, <1>5
<1> QED
  BY <1>1, <1>4, <1>6 DEF c, N

\* The float product never asks for more than the ratio, and for one lot less at most.
LEMMA WithinOne ==
    ASSUME NEW t \in Shorts, NEW a \in Units, NEW b \in Units
    PROVE  HitLots(t, a, b) \in {ExactLots(t, a, b) - 1, ExactLots(t, a, b)}
<1> DEFINE N == ExactLots(t, a, b)
           h == HitLots(t, a, b)
<1>1. N \in Nat /\ N * b <= t * a /\ t * a < (N + 1) * b
  <2>1. t \in Nat /\ a \in Nat \ {0} /\ b \in Nat \ {0}
    BY Naturals
  <2> QED
    BY <2>1, ExactLotsIs
<1>2. h \in Int
  <2>1. PICK e \in 16..30 : \E m \in Nat, v \in Nat : Exponent(a, b, e) /\ Product(t, a, b, e, m, v)
    BY HitLotsIs
  <2>2. PICK m \in Nat, v \in Nat : Exponent(a, b, e) /\ Product(t, a, b, e, m, v)
    BY <2>1
  <2>3. h = v \div TwoTo(e) /\ TwoTo(e) \in Nat \ {0}
    BY <2>2 DEF Exponent, Product
  <2> HIDE DEF h
  <2> QED
    BY <2>3
<1> HIDE DEF N
<1>3. h <= N
  <2>1. N \in Int
    BY <1>1
  <2> QED
    BY <1>1, <2>1, HitLotsBounds
<1>4. N - 1 <= h
  <2>1. N - 1 \in Int /\ a \in Nat /\ t \in Nat /\ b \in Nat \ {0}
    BY <1>1, Naturals
  <2>2. (N - 1) * b = N * b - b /\ N * b \in Int /\ t * a \in Int
    BY <1>1, <2>1
  <2>3. (N - 1) * b + 1 <= t * a
    BY <1>1, <2>1, <2>2
  <2> QED
    BY <2>1, <2>3, HitLotsBounds
<1> HIDE DEF h
<1>5. h \in {N - 1, N}
  BY <1>1, <1>2, <1>3, <1>4
<1> QED
  BY <1>5 DEF h, N

\* One more lot of the first leg makes up for the lot that was missing.
LEMMA OneMoreMakesUp ==
    ASSUME NEW t \in Shorts, t + 1 \in Shorts, NEW a \in Units, NEW b \in Units
    PROVE  ExactLots(t, a, b) <= HitLots(t + 1, a, b)
<1> DEFINE N == ExactLots(t, a, b)
<1>1. N \in Nat /\ N * b + 1 <= (t + 1) * a
  <2>1. t \in Nat /\ a \in Nat \ {0} /\ b \in Nat \ {0}
    BY Naturals
  <2> QED
    BY <2>1, ExactLotsIs
<1> HIDE DEF N
<1>2. N \in Int
  BY <1>1
<1>3. N <= HitLots(t + 1, a, b)
  BY <1>1, <1>2, HitLotsBounds
<1> QED
  BY <1>3 DEF N

\* A mantissa of a small ratio that was rounded down is so near that the product of the two
\* roundings still reaches a multiple.
SmallRoundsUp(m, X, b) == 33554432 * X < 33554433 * (b * m)

\* The exponents of small ratios.
LEMMA SmallExponent ==
    ASSUME NEW a \in 1..6, NEW b \in 1..6, NEW e \in 16..30, Wide(a * TwoTo(e), b)
    PROVE  e \in 20..26
<1>1. ASSUME e \in 16..19 PROVE FALSE
  <2>1. TwoTo(e) \in Nat /\ TwoTo(e) <= 524288
    BY <1>1, PowersAre
  <2>2. a * TwoTo(e) <= 6 * TwoTo(e)
    BY <2>1, MulMono
  <2> QED
    BY <2>1, <2>2 DEF Wide
<1>2. ASSUME e \in 27..30 PROVE FALSE
  <2>1. TwoTo(e) \in Nat /\ TwoTo(e) >= 134217728
    BY <1>2, PowersAre
  <2>2. 1 * TwoTo(e) <= a * TwoTo(e)
    BY <2>1, MulMono
  <2> QED
    BY <2>1, <2>2 DEF Wide
<1> QED
  BY <1>1, <1>2

\* A scaled first leg in units of 2^20, and what it can be for each other leg.
Scaled(y) == 1048576 * y
SmallScale(b, y) ==
    /\ b = 1 => y \in {8, 10, 12}
    /\ b = 2 => y \in {16, 20, 24}
    /\ b = 3 => y \in {24, 32, 40}
    /\ b = 4 => y \in {32, 40, 48}
    /\ b = 5 => y \in {40, 48, 64}
    /\ b = 6 => y \in {48, 64, 80}

\* Every small ratio has one of these.
LEMMA SmallScaled ==
    ASSUME NEW a \in 1..6, NEW b \in 1..6, NEW e \in 16..30, Wide(a * TwoTo(e), b)
    PROVE  \E y \in Nat : a * TwoTo(e) = Scaled(y) /\ SmallScale(b, y)
<1>1. e \in 20..26
  BY SmallExponent
<1> DEFINE y == a * TwoTo(e - 20)
<1>2. y \in Nat /\ a * TwoTo(e) = 1048576 * y
  BY <1>1, PowersAre
<1>3. e - 20 \in 0..6 /\ y \in {a, 2 * a, 4 * a, 8 * a, 16 * a, 32 * a, 64 * a}
  BY <1>1, PowersAre
<1>4. 8 * b <= y /\ y < 16 * b
  <2>1. Wide(1048576 * y, b)
    BY <1>2
  <2> HIDE DEF y
  <2> QED
    BY <1>2, <2>1, SMT DEF Wide
<1> HIDE DEF y
<1>5. b = 1 => y \in {8, 10, 12}
  BY <1>2, <1>3, <1>4, SMT
<1>6. b = 2 => y \in {16, 20, 24}
  BY <1>2, <1>3, <1>4, SMT
<1>7. b = 3 => y \in {24, 32, 40}
  BY <1>2, <1>3, <1>4, SMT
<1>8. b = 4 => y \in {32, 40, 48}
  BY <1>2, <1>3, <1>4, SMT
<1>9. b = 5 => y \in {40, 48, 64}
  BY <1>2, <1>3, <1>4, SMT
<1>10. b = 6 => y \in {48, 64, 80}
  BY <1>2, <1>3, <1>4, SMT
<1>11. a * TwoTo(e) = Scaled(y)
  BY <1>2 DEF Scaled
<1>12. SmallScale(b, y)
  BY <1>5, <1>6, <1>7, <1>8, <1>9, <1>10 DEF SmallScale
<1> QED
  BY <1>2, <1>11, <1>12

\* One mantissa after the other.
LEMMA SmallMantissa ==
    ASSUME NEW b \in 1..6, NEW m \in Nat, NEW y \in Nat,
           SmallScale(b, y), NextTo(m, Scaled(y), b)
    PROVE  SmallRoundsUp(m, Scaled(y), b)
<1>1. CASE b = 1
  BY <1>1, SMT DEF SmallScale, Scaled, NextTo, SmallRoundsUp
<1>2. CASE b = 2
  BY <1>2, SMT DEF SmallScale, Scaled, NextTo, SmallRoundsUp
<1>3. CASE b = 3
  BY <1>3, SMT DEF SmallScale, Scaled, NextTo, SmallRoundsUp
<1>4. CASE b = 4
  BY <1>4, SMT DEF SmallScale, Scaled, NextTo, SmallRoundsUp
<1>5. CASE b = 5
  BY <1>5, SMT DEF SmallScale, Scaled, NextTo, SmallRoundsUp
<1>6. CASE b = 6
  BY <1>6, SMT DEF SmallScale, Scaled, NextTo, SmallRoundsUp
<1> QED
  BY <1>1, <1>2, <1>3, <1>4, <1>5, <1>6

\* The product p = t * m of a small ratio is so near to t * X / b = N * E that its rounding,
\* which leaves N * E as it is, cannot fall below.
Reached(M, p) == 33554432 * M < 33554432 * p + p

\* A multiple of b is reached.
LEMMA MultipleReached ==
    ASSUME NEW t \in Nat \ {0}, NEW b \in Nat \ {0}, NEW X \in Nat, NEW m \in Nat, NEW M \in Nat,
           SmallRoundsUp(m, X, b), M * b = t * X
    PROVE  Reached(M, t * m)
<1> DEFINE p == t * m
<1>1. 33554432 * X + 1 <= 33554433 * (b * m) /\ b * m \in Nat /\ p \in Nat
  BY SMT DEF SmallRoundsUp
<1>2. t * (33554432 * X + 1) <= t * (33554433 * (b * m))
  BY <1>1, MulMono
<1>3. t * (33554432 * X + 1) = 33554432 * (t * X) + t
  OBVIOUS
<1>4. t * (33554433 * (b * m)) = 33554433 * (p * b)
  <2>1. t * (b * m) = p * b
    OBVIOUS
  <2>2. t * (33554433 * (b * m)) = 33554433 * (t * (b * m))
    BY <1>1
  <2> QED
    BY <2>1, <2>2
<1> HIDE DEF p
<1>5. (33554432 * M) * b = 33554432 * (M * b) /\ (33554433 * p) * b = 33554433 * (p * b)
  BY <1>1
<1>6. (33554432 * M) * b < (33554433 * p) * b
  <2>1. M * b \in Nat /\ p * b \in Nat
    BY <1>1
  <2> QED
    BY <1>2, <1>3, <1>4, <1>5, <2>1
<1>7. 33554432 * M < 33554433 * p
  <2> SUFFICES ASSUME 33554433 * p <= 33554432 * M PROVE FALSE
    BY <1>1
  <2>1. (33554433 * p) * b <= (33554432 * M) * b
    BY <1>1, MulMono
  <2>2. (33554433 * p) * b \in Int /\ (33554432 * M) * b \in Int
    BY <1>1
  <2> QED
    BY <1>6, <2>1, <2>2
<1>8. Reached(M, p)
  BY <1>1, <1>7, SMT DEF Reached
<1> QED
  BY <1>8 DEF p

\* For ratios of up to six lots the float product is exact, whatever was traded.
THEOREM SmallRatiosAreExact ==
    ASSUME NEW t \in Shorts, NEW a \in 1..6, NEW b \in 1..6
    PROVE  HitLots(t, a, b) = ExactLots(t, a, b)
<1> DEFINE N == ExactLots(t, a, b)
           h == HitLots(t, a, b)
<1>1. a \in Units /\ b \in Units /\ t \in Nat /\ a \in Nat \ {0} /\ b \in Nat \ {0}
  <2>1. a \in Units /\ b \in Units
    BY SMT DEF Units
  <2> QED
    BY <2>1, Naturals
<1>2. h \in {N - 1, N}
  BY <1>1, WithinOne
<1>3. N \in Nat /\ N * b <= t * a
  BY <1>1, ExactLotsIs
<1>4. N * b \in Int /\ t * a \in Int
  BY <1>1, <1>3
<1> HIDE DEF N
<1>5. ASSUME N * b + 1 <= t * a PROVE N <= h
  <2>1. N \in Int
    BY <1>3
  <2> QED
    BY <1>1, <1>5, <2>1, HitLotsBounds
<1>6. ASSUME N * b = t * a PROVE N <= h
  <2>1. PICK e \in 16..30 : \E m \in Nat, v \in Nat : Exponent(a, b, e) /\ Product(t, a, b, e, m, v)
    BY <1>1, HitLotsIs
  <2>2. PICK m \in Nat, v \in Nat : Exponent(a, b, e) /\ Product(t, a, b, e, m, v)
    BY <2>1
  <2> DEFINE E == TwoTo(e)
             X == a * E
             p == t * m
  <2>3. /\ h = v \div E /\ E \in Nat \ {0} /\ X \in Nat
        /\ v = Rounded(p) /\ p < TwoTo(39)
        /\ Wide(a * TwoTo(e), b) /\ NextTo(m, X, b)
    BY <2>2 DEF Exponent, Product
  <2>4. PICK y \in Nat : a * TwoTo(e) = Scaled(y) /\ SmallScale(b, y)
    BY <2>3, SmallScaled
  <2> HIDE DEF h, E
  <2>5. (N * E) * b = t * X /\ N * E \in Nat /\ p \in Nat
    <3>1. (N * E) * b = (N * b) * E /\ t * X = (t * a) * E
      BY <1>1, <1>3, <2>3
    <3>2. N * E \in Nat /\ p \in Nat
      BY <1>1, <1>3, <2>3
    <3> QED
      BY <1>6, <3>1, <3>2
  <2>6. SmallRoundsUp(m, X, b)
    <3>1. X = Scaled(y)
      BY <2>4 DEF E
    <3> HIDE DEF X
    <3>2. NextTo(m, Scaled(y), b)
      BY <2>3, <3>1
    <3>3. SmallRoundsUp(m, Scaled(y), b)
      BY <2>4, <3>2, SmallMantissa
    <3> QED
      BY <3>1, <3>3
  <2> HIDE DEF X
  <2>7. N * E <= v
    <3>1. CASE t = 0
      <4>1. N * b = 0
        BY <1>6, <1>1, <3>1
      <4>2. N = 0
        BY <1>1, <1>3, <4>1
      <4> QED
        BY <2>3, <4>2
    <3>2. CASE t # 0
      <4>1. t \in Nat \ {0}
        BY <1>1, <3>2
      <4> DEFINE M == N * E
      <4>2. M \in Nat /\ M * b = t * X
        BY <2>5
      <4> HIDE DEF M
      <4>3. Reached(M, t * m)
        BY <1>1, <2>2, <2>3, <2>6, <4>1, <4>2, MultipleReached
      <4> HIDE DEF p
      <4>4. TwoTo(25) * M < TwoTo(25) * p + p
        <5>1. Reached(M, p)
          BY <4>3 DEF p
        <5>2. TwoTo(25) = 33554432
          BY PowersAre, SMT
        <5> QED
          BY <2>5, <4>2, <5>1, <5>2, SMT DEF Reached
      <4>5. TwoTo(25) * (N * TwoTo(e)) < TwoTo(25) * p + p => N * TwoTo(e) <= Rounded(p)
        <5>1. e \in 15..30
          OBVIOUS
        <5> QED
          BY <1>3, <2>3, <2>5, <5>1, RoundedNear
      <4> QED
        BY <2>3, <4>4, <4>5 DEF M, E
    <3> QED
      BY <3>1, <3>2
  <2>8. N \in Int
    BY <1>3
  <2>9. N <= v \div E
    BY <2>3, <2>7, <2>8, QuotientBounds
  <2> QED
    BY <2>3, <2>9
<1>7. N <= h
  <2>1. N * b <= t * a
    BY <1>3
  <2> QED
    BY <1>4, <1>5, <1>6, <2>1
<1> HIDE DEF h
<1>8. h = N
  BY <1>2, <1>3, <1>7
<1> QED
  BY <1>8 DEF h, N

-----------------------------------------------------------------------------
(* The specification.                                                        *)

HedgeTypes == first \in 1..MaxRatio /\ other \in 1..MaxRatio /\ traded \in 0..MaxTraded

\* The two legs of the portfolio and the lots traded keep their types.
LEMMA HedgeTypesInvariant == Spec => []HedgeTypes
<1>1. Init => HedgeTypes
  BY HedgeSizeAssumption DEF Init, HedgeTypes
<1>2. HedgeTypes /\ [Trade]_<<first, other, traded>> => HedgeTypes'
  BY HedgeSizeAssumption DEF HedgeTypes, Trade
<1> QED
  BY <1>1, <1>2, PTL DEF Spec

\* The count of traded lots and the next one fit a short.
LEMMA CountsAreShorts ==
    ASSUME NEW T \in Nat, T <= 32766, NEW t \in 0..T
    PROVE  t \in Shorts /\ t + 1 \in Shorts
<1>1. t \in Shorts
  BY SMT DEF Shorts
<1>2. t + 1 \in Shorts
  BY SMT DEF Shorts
<1> QED
  BY <1>1, <1>2

\* Each part of HedgeFollowsRatio, by the lemma about it.
LEMMA RatioFollows == HedgeTypes => HedgeFollowsRatio
<1> SUFFICES ASSUME HedgeTypes PROVE HedgeFollowsRatio
  OBVIOUS
<1>1. first \in Units /\ other \in Units
  <2>1. MaxRatio \in 1..128
    BY HedgeSizeAssumption
  <2> QED
    BY <2>1, SMT DEF HedgeTypes, Units
<1>2. traded \in Shorts /\ traded + 1 \in Shorts
  <2>1. MaxTraded \in Nat /\ MaxTraded <= 32766 /\ traded \in 0..MaxTraded
    BY HedgeSizeAssumption, SMT DEF HedgeTypes
  <2> QED
    BY <2>1, CountsAreShorts
<1>3. HitLots(traded, other, first)
        \in {ExactLots(traded, other, first) - 1, ExactLots(traded, other, first)}
  BY <1>1, <1>2, WithinOne
<1>4. first <= 6 /\ other <= 6 => HitLots(traded, other, first) = ExactLots(traded, other, first)
  <2> SUFFICES ASSUME first <= 6, other <= 6
               PROVE  HitLots(traded, other, first) = ExactLots(traded, other, first)
    OBVIOUS
  <2>1. first \in 1..6 /\ other \in 1..6
    BY <1>1, SMT DEF Units
  <2> QED
    BY <1>2, <2>1, SmallRatiosAreExact
<1>5. ExactLots(traded, other, first) <= HitLots(traded + 1, other, first)
  BY <1>1, <1>2, OneMoreMakesUp
<1>6. HitLots(traded + 1, other, first) >= ExactLots(traded, other, first)
  BY <1>5
<1> QED
  BY <1>3, <1>4, <1>6 DEF HedgeFollowsRatio

\* Whatever the ratio, up to 128 lots, and whatever was traded, as long as it fits a short, the
\* float product never asks for more lots than the ratio, is one short at most, exact for ratios
\* of up to six lots, and one lot of the first leg later it has caught up.
THEOREM HedgesFollowTheRatio == Spec => []HedgeFollowsRatio
  BY HedgeTypesInvariant, RatioFollows, PTL
=============================================================================
