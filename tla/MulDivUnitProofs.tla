-------------------------- MODULE MulDivUnitProofs -------------------------
(***************************************************************************)
(* The multiply and divide unit computes what arithmetic says, for every   *)
(* word size: what its registers hold after every step of the loop, and    *)
(* with it the promise of its port.                                        *)
(***************************************************************************)
EXTENDS MulDivUnit, WordProofs

(* One more low bit, one less high bit.                                    *)
LEMMA Halving ==
  ASSUME NEW n \in Nat, NEW m \in Nat, m >= 1
  PROVE  /\ n \div (2 * m) = (n \div m) \div 2
         /\ n % (2 * m) = (n % m) + m * ((n \div m) % 2)
<1> DEFINE q == n \div m
           r == n % m
           h == q \div 2
           t == q % 2
<1>1. q \in Int /\ r \in 0 .. m - 1 /\ n = m * q + r
  BY DivMod
<1> HIDE DEF q, r
<1>2. h \in Int /\ t \in 0 .. 1 /\ q = 2 * h + t
  BY <1>1
<1> HIDE DEF h, t
<1>3. m * q = m * (2 * h) + m * t /\ m * (2 * h) = (2 * m) * h
  BY <1>1, <1>2
<1>4. m * t \in 0 .. m
  BY <1>2
<1> DEFINE b == 2 * m
           s == r + m * t
<1>5. b \in Nat /\ b >= 1 /\ s \in 0 .. b - 1
  BY <1>1, <1>4
<1>6. n = b * h + s
  BY <1>1, <1>2, <1>3, <1>4
<1> HIDE DEF b, s
<1>7. n \div b = h /\ n % b = s
  BY <1>2, <1>5, <1>6, DivModUnique
<1> QED
  BY <1>7 DEF b, s, h, t, q, r

(* The high word of a number does not depend on what is above two words.   *)
LEMMA HighOfTwo ==
  ASSUME NEW i \in Int, NEW W \in Nat, W >= 1
  PROVE  (i % (W * W)) \div W = (i \div W) % W
<1> DEFINE q == i \div W
           r == i % W
           s == q \div W
           t == q % W
<1>1. q \in Int /\ r \in 0 .. W - 1 /\ i = W * q + r
  BY DivMod
<1> HIDE DEF q, r
<1>2. s \in Int /\ t \in 0 .. W - 1 /\ q = W * s + t
  BY <1>1, DivMod
<1> HIDE DEF s, t
<1> DEFINE m == W * W
           low == W * t + r
<1>3. m \in Nat /\ m >= 1
  OBVIOUS
<1>4. W * t <= W * (W - 1) /\ W * (W - 1) = m - W
  BY <1>2, MultipleMonotone
<1>5. W * t \in Nat /\ low \in 0 .. m - 1
  BY <1>1, <1>2, <1>4
<1>6. i = m * s + low
  <2>1. W * q = W * (W * s) + W * t /\ W * (W * s) = m * s
    BY <1>1, <1>2
  <2> QED
    BY <1>1, <1>2, <2>1
<1>7. i % m = low
  <2> HIDE DEF m, low
  <2> QED
    BY <1>2, <1>3, <1>5, <1>6, DivModUnique
<1>8. low \div W = t
  <2>1. low \in Int
    BY <1>5
  <2>2. low = W * t + r
    OBVIOUS
  <2> HIDE DEF low
  <2> QED
    BY <1>1, <1>2, <2>1, <2>2, DivModUnique
<1> QED
  BY <1>7, <1>8 DEF m, t, q

(* A word times at most the modulus: what keeps the sum within the product *)
(* register.                                                               *)
LEMMA ProductWithin ==
  ASSUME NEW W \in Nat, NEW a \in 0 .. W - 1, NEW b \in 0 .. W
  PROVE  a * b \in Nat /\ a * b <= W * W - W
<1>1. a * b \in Nat
  OBVIOUS
<1>2. a * b <= a * W
  BY MultipleMonotone
<1>3. W * a <= W * (W - 1) /\ W * (W - 1) = W * W - W /\ a * W = W * a
  BY MultipleMonotone
<1> QED
  BY <1>1, <1>2, <1>3

(* A power of two up to the word and the power that completes it.          *)
LEMMA Complement == \A k \in 0 .. XLEN : 2 ^ k * 2 ^ (XLEN - k) = WordModulus
<1> DEFINE S == {k \in 0 .. XLEN : 2 ^ k * 2 ^ (XLEN - k) = WordModulus}
<1>1. XLEN \in Nat /\ WordModulus \in Nat
  BY WordSize
<1>2. 0 \in S
  <2>1. XLEN - 0 = XLEN /\ 2 ^ 0 = 1
    BY <1>1, PowerAssumption
  <2>2. 2 ^ 0 * 2 ^ XLEN = WordModulus
    BY <1>1, <2>1 DEF WordModulus
  <2> QED
    BY <1>1, <2>1, <2>2
<1>3. ASSUME NEW k \in 0 .. XLEN - 1, k \in S PROVE k + 1 \in S
  <2> DEFINE j == XLEN - (k + 1)
  <2>1. j \in 0 .. XLEN - 1 /\ j + 1 = XLEN - k /\ k + 1 \in 0 .. XLEN
    BY <1>1
  <2>2. 2 ^ (k + 1) = 2 * 2 ^ k /\ 2 ^ (j + 1) = 2 * 2 ^ j /\ 2 ^ k \in Nat /\ 2 ^ j \in Nat
    BY <2>1, PowerAssumption
  <2>3. 2 ^ k * 2 ^ (j + 1) = WordModulus
    BY <1>3, <2>1
  <2> HIDE DEF j
  <2> DEFINE p == 2 ^ k
             q == 2 ^ j
  <2>4. p * (2 * q) = WordModulus /\ p \in Nat /\ q \in Nat
    BY <2>2, <2>3
  <2>5. (2 * p) * q = WordModulus
    <3> HIDE DEF p, q
    <3> QED BY <2>4
  <2>6. 2 ^ (k + 1) * 2 ^ j = WordModulus
    BY <2>2, <2>5
  <2> QED
    BY <2>1, <2>6 DEF j
<1> HIDE DEF S
<1>4. \A k \in 0 .. XLEN : k \in S
  BY <1>1, <1>2, <1>3, BoundedInduction
<1> QED
  BY <1>4 DEF S

(* One step of shift-and-add, with p for 2 ^ k.                            *)
LEMMA MultiplyArithmetic ==
  ASSUME NEW W \in Nat, NEW a \in 0 .. W - 1, NEW b \in 0 .. W - 1,
         NEW p \in Nat, p >= 1, 2 * p <= W
  PROVE  /\ (a * p * 2) % (W * W) = a * (2 * p)
         /\ (b \div p) % 2 = 1 => (a * (b % p) + a * p) % (W * W) = a * (b % (2 * p))
         /\ (b \div p) % 2 # 1 => a * (b % p) = a * (b % (2 * p))
         /\ (b \div p) \div 2 = b \div (2 * p)
<1>1. b \in Nat /\ a \in Nat
  OBVIOUS
<1>2. (b \div p) \div 2 = b \div (2 * p) /\ b % (2 * p) = (b % p) + p * ((b \div p) % 2)
  BY <1>1, Halving
<1> DEFINE r == b % p
           t == (b \div p) % 2
           c == b % (2 * p)
           m == W * W
<1>3. r \in 0 .. p - 1 /\ t \in 0 .. 1 /\ c = r + p * t
  <2>1. b \div p \in Int /\ r \in 0 .. p - 1
    BY <1>1, DivMod
  <2> QED
    BY <1>2, <2>1
<1> HIDE DEF r, t, c
<1>4. p * t \in 0 .. p /\ c \in 0 .. W
  BY <1>3
<1>5. a * c \in 0 .. m - 1 /\ a * (2 * p) \in 0 .. m - 1
  <2>1. a * c \in Nat /\ a * c <= W * W - W
    BY <1>4, ProductWithin
  <2>2. 2 * p \in 0 .. W
    OBVIOUS
  <2>3. a * (2 * p) \in Nat /\ a * (2 * p) <= W * W - W
    BY <2>2, ProductWithin
  <2> QED
    BY <2>1, <2>3
<1>6. m \in Nat /\ \A v \in 0 .. m - 1 : v % m = v
  <2>1. m \in Nat
    OBVIOUS
  <2> HIDE DEF m
  <2> QED
    BY <2>1
<1>7. a * p * 2 = a * (2 * p)
  OBVIOUS
<1>8. t = 1 => a * r + a * p = a * c
  BY <1>3
<1>9. t # 1 => a * r = a * c
  BY <1>3
<1> HIDE DEF m
<1>10. (a * (2 * p)) % m = a * (2 * p) /\ (a * c) % m = a * c
  BY <1>5, <1>6
<1> QED
  BY <1>2, <1>7, <1>8, <1>9, <1>10 DEF m, r, t, c

(* One step of restoring division, with p for 2 ^ k and h for half of      *)
(* 2 ^ (XLEN - k): the bit that leaves the quotient register, low \div h;  *)
(* what the register holds after it; and the remainder.                    *)
TopBitOf(p, h, low, u) ==
  /\ low \div h \in 0 .. 1 /\ low % h \in 0 .. h - 1
  /\ (p * low + u) \div (p * h) = low \div h
  /\ (2 * (p * low + u)) % (2 * (p * h)) = 2 * (p * (low % h) + u)

(* Shifting a register left by one: its top bit, and the split of what     *)
(* remains into dividend and quotient bits.                                *)
LEMMA TopBit ==
  ASSUME NEW p \in Nat, p >= 1, NEW h \in Nat, h >= 1,
         NEW low \in 0 .. 2 * h - 1, NEW u \in 0 .. p - 1
  PROVE  TopBitOf(p, h, low, u)
<1> DEFINE t == low \div h
           l == low % h
<1>1. t \in Int /\ t >= 0 /\ l \in 0 .. h - 1 /\ low = h * t + l
  <2>1. low \in Int /\ low >= 0
    OBVIOUS
  <2> QED
    BY <2>1, DivMod
<1> HIDE DEF t, l
<1>2. t \in 0 .. 1
  <2> SUFFICES ASSUME t >= 2 PROVE FALSE
    BY <1>1
  <2>1. h * 2 <= h * t
    BY <1>1, MultipleMonotone
  <2> QED
    BY <1>1, <2>1
<1> DEFINE v == p * l + u
           s == p * h
           q == p * low + u
<1>3. p * l <= p * (h - 1) /\ p * (h - 1) = s - p
  BY <1>1, MultipleMonotone
<1>4. s \in Nat /\ s >= 1 /\ p * l \in Nat /\ v \in 0 .. s - 1
  BY <1>1, <1>3
<1>5. q = s * t + v /\ q \in Int
  <2>1. p * low = p * (h * t) + p * l /\ p * (h * t) = s * t
    BY <1>1, <1>2
  <2> QED
    BY <1>1, <1>2, <2>1
<1> HIDE DEF v, s, q
<1>6. q \div s = t
  BY <1>2, <1>4, <1>5, DivModUnique
<1> DEFINE W == 2 * s
           q2 == 2 * q
           v2 == 2 * v
<1>7. W \in Nat /\ W >= 1 /\ v2 \in 0 .. W - 1 /\ q2 \in Int /\ q2 = W * t + v2
  BY <1>2, <1>4, <1>5
<1> HIDE DEF W, q2, v2
<1>8. q2 % W = v2
  BY <1>2, <1>7, DivModUnique
<1> QED
  BY <1>1, <1>2, <1>6, <1>8 DEF TopBitOf, t, l, v, s, q, W, q2, v2

(* The next bit of the dividend enters the remainder, the rest stays.      *)
LEMMA NextDividend ==
  ASSUME NEW h \in Nat, h >= 1, NEW a \in Nat
  PROVE  /\ a \div h = 2 * (a \div (2 * h)) + ((a % (2 * h)) \div h)
         /\ a % h = (a % (2 * h)) % h
<1> DEFINE m == 2 * h
           high == a \div m
           low == a % m
           t == low \div h
           l == low % h
<1>1. m \in Nat /\ m >= 1
  OBVIOUS
<1> HIDE DEF m
<1>2. high \in Int /\ low \in 0 .. m - 1 /\ a = m * high + low
  BY <1>1, DivMod
<1> HIDE DEF high, low
<1>3. t \in Int /\ l \in 0 .. h - 1 /\ low = h * t + l
  BY <1>1, <1>2, DivMod
<1> HIDE DEF t, l
<1>4. a = h * (2 * high + t) + l /\ 2 * high + t \in Int
  <2>1. m * high = h * (2 * high) /\ h * (2 * high + t) = h * (2 * high) + h * t
    BY <1>2, <1>3 DEF m
  <2> QED
    BY <1>2, <1>3, <2>1
<1> DEFINE q == 2 * high + t
<1>5. a = h * q + l /\ q \in Int
  BY <1>4
<1> HIDE DEF q
<1>6. a \div h = q /\ a % h = l
  BY <1>3, <1>5, DivModUnique
<1> QED
  BY <1>6 DEF q, t, l, low, high, m

LowBitsOf(p, l, u, fit) ==
  /\ (2 * (p * l + u) + fit) \div (2 * p) = l
  /\ (2 * (p * l + u) + fit) % (2 * p) = 2 * u + fit

(* After a quotient bit has entered at the bottom: the dividend bits       *)
(* above, the quotient bits below.                                         *)
LEMMA LowBits ==
  ASSUME NEW p \in Nat, p >= 1, NEW l \in Nat, NEW u \in 0 .. p - 1, NEW fit \in 0 .. 1
  PROVE  LowBitsOf(p, l, u, fit)
<1> DEFINE m == 2 * p
           w == 2 * u + fit
           n == 2 * (p * l + u) + fit
<1>1. m \in Nat /\ m >= 1 /\ w \in 0 .. m - 1
  OBVIOUS
<1>2. n = m * l + w /\ n \in Int
  OBVIOUS
<1> HIDE DEF m, w, n
<1>3. n \div m = l /\ n % m = w
  BY <1>1, <1>2, DivModUnique
<1> QED
  BY <1>3 DEF LowBitsOf, m, w, n

(* One step of restoring division: subtracting the divisor when it fits    *)
(* keeps the remainder below it and accounts for the quotient's new bit.   *)
LEMMA RemainderStep ==
  ASSUME NEW b \in Nat, NEW u \in Nat, NEW rem \in Nat, NEW t \in 0 .. 1, rem < b, NEW trial, trial = 2 * rem + t
  PROVE  /\ trial >= b => /\ 2 * (b * u + rem) + t = b * (2 * u + 1) + (trial - b)
                          /\ trial - b < b
         /\ 2 * (b * u + rem) + t = b * (2 * u) + trial
<1>1. b * (2 * u + 1) = b * (2 * u) + b /\ 2 * (b * u + rem) = b * (2 * u) + 2 * rem
  OBVIOUS
<1>2. b * (2 * u) \in Int
  OBVIOUS
<1> QED
  BY <1>1, <1>2

(* What the divider's registers hold when p is 2 ^ k and m is              *)
(* 2 ^ (XLEN - k), and what a step makes of them.                          *)
Divided(p, m, a, b, quotient, rem) ==
  /\ quotient \div p = a % m
  /\ a \div m = b * (quotient % p) + (IF b = 0 THEN a \div m ELSE rem)
  /\ b # 0 => rem < b

Trial(W, half, quotient, rem) == 2 * (rem % W) + ((quotient \div half) % 2)
Shifted(W, quotient) == (2 * quotient) % W

(* One step of the division loop, as arithmetic: what was divided of the   *)
(* upper bits becomes the same with one bit more.                          *)
LEMMA DivideArithmetic ==
  ASSUME NEW p \in Nat, p >= 1, NEW h \in Nat, h >= 1, NEW half, half = p * h,
         NEW W \in Nat, W = 2 * half,
         NEW a \in Nat, NEW b \in 0 .. W - 1, NEW quotient \in Nat, NEW rem \in Nat,
         Divided(p, 2 * h, a, b, quotient, rem),
         NEW trial, trial = Trial(W, half, quotient, rem),
         NEW shifted, shifted = Shifted(W, quotient),
         NEW quotient2, quotient2 = IF trial >= b THEN shifted + 1 ELSE shifted,
         NEW rem2, rem2 = IF trial >= b THEN trial - b ELSE trial
  PROVE  Divided(2 * p, h, a, b, quotient2, rem2)
<1> DEFINE m == 2 * h
           high == a \div m
           low == a % m
           u == quotient % p
           fit == IF trial >= b THEN 1 ELSE 0
<1> HIDE DEF fit
<1>1. m \in Nat /\ m >= 1
  OBVIOUS
<1> HIDE DEF m
<1>2. high \in Nat /\ low \in 0 .. m - 1 /\ low \in Int
  <2>1. a \in Int /\ a >= 0
    OBVIOUS
  <2> QED
    <3>1. a \div m \in Int /\ a % m \in 0 .. m - 1 /\ (a >= 0 => a \div m >= 0)
      BY <1>1, <2>1, DivMod
    <3>2. \A i \in 0 .. m - 1 : i \in Int
      BY <1>1
    <3> QED
      BY <2>1, <3>1, <3>2
<1>3. u \in 0 .. p - 1 /\ quotient = p * low + u
  <2>1. quotient \div p = low
    BY DEF Divided, m
  <2>2. u \in 0 .. p - 1 /\ quotient = p * (quotient \div p) + u
    BY DivMod
  <2> QED
    BY <2>1, <2>2
<1>4. (b # 0 => rem < b /\ high = b * u + rem)
  BY DEF Divided, m
<1> DEFINE t == low \div h
           l == low % h
<1>5. a \div h = 2 * high + t /\ a % h = l
  BY NextDividend DEF m
<1> HIDE DEF high, low, u, t, l
<1>6. low \in 0 .. 2 * h - 1
  BY <1>2 DEF m
<1>7. /\ t \in 0 .. 1 /\ l \in 0 .. h - 1
      /\ (p * low + u) \div (p * h) = t
      /\ (2 * (p * low + u)) % (2 * (p * h)) = 2 * (p * l + u)
  <2>1. /\ low \div h \in 0 .. 1 /\ low % h \in 0 .. h - 1
        /\ (p * low + u) \div (p * h) = low \div h
        /\ (2 * (p * low + u)) % (2 * (p * h)) = 2 * (p * (low % h) + u)
    <3>1. TopBitOf(p, h, low, u)
      BY <1>3, <1>6, TopBit
    <3> QED
      BY <3>1 DEF TopBitOf
  <2> QED
    BY <2>1 DEF t, l
<1>8. trial = 2 * (rem % W) + t /\ shifted = 2 * (p * l + u)
  <2>1. quotient \div half = t /\ (2 * quotient) % W = 2 * (p * l + u)
    BY <1>3, <1>7
  <2>2. t % 2 = t
    BY <1>7
  <2> QED
    BY <2>1, <2>2 DEF Trial, Shifted
<1>9. trial \in Nat /\ fit \in 0 .. 1 /\ quotient2 = 2 * (p * l + u) + fit
  <2>1. p * l \in Nat /\ u \in Nat
    BY <1>3, <1>7
  <2>2. rem % W \in Nat
    <3>1. W \in Nat /\ W >= 1
      OBVIOUS
    <3> QED
      BY <3>1, DivMod
  <2>3. trial \in Nat
    BY <1>7, <1>8, <2>2
  <2> QED
    BY <1>8, <2>1, <2>3 DEF fit
<1>10. quotient2 \div (2 * p) = l /\ quotient2 % (2 * p) = 2 * u + fit
  <2>1. l \in Nat
    BY <1>7
  <2>2. (2 * (p * l + u) + fit) \div (2 * p) = l /\ (2 * (p * l + u) + fit) % (2 * p) = 2 * u + fit
    <3>1. LowBitsOf(p, l, u, fit)
      BY <1>3, <1>9, <2>1, LowBits
    <3> QED
      BY <3>1 DEF LowBitsOf
  <2> QED
    BY <1>9, <2>2
<1>11. ASSUME b = 0 PROVE b * (2 * u + fit) + (2 * high + t) = 2 * high + t
  BY <1>2, <1>3, <1>7, <1>9, <1>11
<1>12. ASSUME b # 0 PROVE rem2 < b /\ 2 * high + t = b * (2 * u + fit) + rem2
  <2>1. rem % W = rem /\ rem < b /\ high = b * u + rem /\ b \in Nat /\ u \in Nat
    BY <1>3, <1>4, <1>12
  <2>2. trial = 2 * rem + t
    BY <1>8, <2>1
  <2>3. /\ trial >= b => /\ 2 * (b * u + rem) + t = b * (2 * u + 1) + (trial - b)
                         /\ trial - b < b
        /\ 2 * (b * u + rem) + t = b * (2 * u) + trial
    BY <1>7, <2>1, <2>2, RemainderStep
  <2>4. CASE trial >= b
    BY <2>1, <2>3, <2>4 DEF fit
  <2>5. CASE ~(trial >= b)
    <3>1. 2 * u + fit = 2 * u
      BY <2>1, <2>5 DEF fit
    <3> QED
      BY <1>9, <2>1, <2>3, <2>5, <3>1
  <2> QED
    BY <2>4, <2>5
<1>13. a \div h = b * (2 * u + fit) + (IF b = 0 THEN a \div h ELSE rem2)
  BY <1>5, <1>11, <1>12
<1> QED
  BY <1>5, <1>10, <1>12, <1>13 DEF Divided

-----------------------------------------------------------------------------
(* The magnitudes the unit works on are those of the integers its operands *)
(* stand for.                                                              *)
LEMMA MagnitudeIs ==
  ASSUME NEW v \in Word
  PROVE  /\ Negative(v) \in BOOLEAN
         /\ Negative(v) => Negate(v) \in Word /\ Negate(v) # 0 /\ Signed(v) = -Negate(v)
         /\ ~Negative(v) => Signed(v) = v
<1> DEFINE half == 2 ^ (XLEN - 1)
           W == WordModulus
<1>1. half \in Nat /\ half >= 8 /\ W = 2 * half /\ v \in Nat /\ v < W
  BY WordSize DEF Word
<1>2. Negative(v) \in BOOLEAN /\ (Negative(v) <=> (v \div half) % 2 = 1)
  BY DEF Negative, Bit
<1>3. Signed(v) = IF Negative(v) THEN v - W ELSE v
  BY DEF Signed
<1>4. Negate(v) = (-v) % W
  BY DEF Negate
<1> HIDE DEF half, W
<1>5. CASE v < half
  <2>1. v \div half = 0
    BY <1>1, <1>5
  <2> QED
    BY <1>2, <1>3, <2>1
<1>6. CASE v >= half
  <2>1. (-v) = W * (-1) + (W - v) /\ W - v \in 0 .. W - 1 /\ -v \in Int /\ W >= 1 /\ W \in Nat
    BY <1>1, <1>6
  <2>2. (-v) % W = W - v
    <3> DEFINE n == -v
               q == -1
               r == W - v
    <3>1. n \in Int /\ q \in Int /\ r \in 0 .. W - 1 /\ n = W * q + r /\ W \in Nat /\ W >= 1
      BY <1>1, <2>1
    <3> HIDE DEF n, q, r
    <3>2. n % W = r
      BY <3>1, DivModUnique
    <3> QED
      BY <3>2 DEF n, r
  <2>3. v = half * 1 + (v - half) /\ v - half \in 0 .. half - 1
    BY <1>1, <1>6
  <2>4. v \div half = 1
    BY <1>1, <2>3, DivModUnique
  <2>5. Negative(v) /\ Signed(v) = -(W - v) /\ W - v # 0
    BY <1>1, <1>2, <1>3, <2>1, <2>4
  <2>6. W - v \in Word
    BY <2>1 DEF W, Word
  <2> QED
    BY <1>4, <2>2, <2>5, <2>6
<1> QED
  BY <1>1, <1>5, <1>6

(* The invariant of the unit: what was said of its registers, the signs    *)
(* of the operation it works on, and that it works only when it holds no   *)
(* result.                                                                 *)
SignsKept ==
  md.busy => /\ md.negative_a = SignedA(md.request)
             /\ md.negative_b = SignedB(md.request)

ResultTaken == md.busy => md.out = Empty

OfferedTypes == offered \in execute_t \cup {Empty} /\ (offered # Empty => is_muldiv(offered.op))

UnitInv == MdTypes /\ OfferedTypes /\ ResultTaken /\ SignsKept /\ IterationExact

(* The two magnitudes of the operation in progress are words.              *)
LEMMA MagnitudesWithin ==
  ASSUME UnitInv, md.busy
  PROVE  /\ Magnitude(md.request.a, md.negative_a) \in Word
         /\ Magnitude(md.request.b, md.negative_b) \in Word
         /\ md.request.a \in Word /\ md.request.b \in Word
<1>1. md.request.a \in Word /\ md.request.b \in Word
  BY DEF UnitInv, MdTypes, execute_t
<1>2. md.negative_a => Negative(md.request.a)
  BY DEF UnitInv, SignsKept, SignedA
<1>3. md.negative_b => Negative(md.request.b)
  BY DEF UnitInv, SignsKept, SignedB
<1> QED
  BY <1>1, <1>2, <1>3, MagnitudeIs DEF Magnitude

(* IterationExact of the registers one by one.                             *)
ExactOf(op, a, b, k, product, multiplicand, multiplier, quotient, divisor, remainder) ==
  IF op \in MulOps
  THEN /\ product = a * (b % 2 ^ k)
       /\ multiplicand = a * 2 ^ k
       /\ multiplier = b \div 2 ^ k
  ELSE divisor = b /\ Divided(2 ^ k, 2 ^ (XLEN - k), a, b, quotient, remainder)

Exact(r) ==
  ExactOf(r.request.op, Magnitude(r.request.a, r.negative_a), Magnitude(r.request.b, r.negative_b),
          r.step, r.product, r.multiplicand, r.multiplier, r.quotient, r.divisor, r.remainder)

(* IterationExact speaks of a busy unit only.                              *)
LEMMA IterationIs == IterationExact <=> (md.busy => Exact(md))
BY DEF IterationExact, Exact, ExactOf, Divided

(* Before its first step an operation is exact: nothing has been           *)
(* multiplied or divided yet.                                              *)
LEMMA AcceptExact ==
  ASSUME NEW op, NEW a \in Word, NEW b \in Word
  PROVE  ExactOf(op, a, b, 0, 0, a, b, a, b, 0)
<1> DEFINE W == WordModulus
<1>1. XLEN - 0 = XLEN /\ 2 ^ 0 = 1 /\ 2 ^ XLEN = W /\ W \in Nat /\ W >= 1
  BY WordSize, PowerAssumption DEF WordModulus
<1>2. a \in 0 .. W - 1 /\ b \in 0 .. W - 1
  BY DEF Word
<1> HIDE DEF W
<1>3. \A v \in 0 .. W - 1 : v % 1 = 0 /\ v \div 1 = v /\ v % W = v /\ v \div W = 0
  BY <1>1
<1>4. a * 0 = 0 /\ b * 0 = 0 /\ a * 1 = a
  BY <1>1, <1>2
<1>5. Divided(1, W, a, b, a, 0)
  <2>1. a \div 1 = a /\ a % W = a /\ a % 1 = 0 /\ a \div W = 0
    BY <1>2, <1>3
  <2> QED
    BY <1>1, <1>2, <1>4, <2>1 DEF Divided
<1>6. b % 1 = 0 /\ b \div 1 = b
  BY <1>2, <1>3
<1> QED
  BY <1>1, <1>4, <1>5, <1>6 DEF ExactOf

(* The powers of two that step k of an operation speaks of.                *)
LEMMA StepPowers ==
  ASSUME NEW k \in Nat, k < XLEN
  PROVE  LET p == 2 ^ k
             h == 2 ^ (XLEN - (k + 1))
         IN /\ p \in Nat /\ p >= 1 /\ h \in Nat /\ h >= 1
            /\ 2 ^ (k + 1) = 2 * p /\ 2 ^ (XLEN - k) = 2 * h
            /\ 2 ^ (XLEN - 1) = p * h /\ 2 * p <= WordModulus
<1> DEFINE j == XLEN - (k + 1)
           p == 2 ^ k
           h == 2 ^ j
           half == 2 ^ (XLEN - 1)
<1>1. /\ XLEN \in Nat /\ k \in 0 .. XLEN - 1 /\ j \in 0 .. XLEN - 1
      /\ XLEN - k = j + 1 /\ k \in 0 .. XLEN /\ j \in 0 .. XLEN
  BY WordSize
<1>2. p \in Nat /\ p >= 1 /\ h \in Nat /\ h >= 1
  BY <1>1, Powers
<1>3. 2 ^ (k + 1) = 2 * p /\ 2 ^ (j + 1) = 2 * h
  BY <1>1, PowerAssumption
<1>4. p * 2 ^ (j + 1) = WordModulus
  BY <1>1, Complement
<1>5. half \in Nat /\ WordModulus = 2 * half
  BY WordSize
<1> HIDE DEF j, p, h, half
<1>6. p * (2 * h) = 2 * half
  BY <1>3, <1>4, <1>5
<1>7. half = p * h
  BY <1>2, <1>5, <1>6
<1>8. p * 1 <= p * h
  BY <1>2, MultipleMonotone
<1>9. 2 * p <= WordModulus
  BY <1>2, <1>5, <1>7, <1>8
<1> QED
  BY <1>1, <1>2, <1>3, <1>7, <1>9 DEF p, h, j, half

(* A step of multiplication and of division leaves the registers exact.    *)
LEMMA MultiplyExact ==
  ASSUME UnitInv, md.busy, md.step < XLEN, md.request.op \in MulOps
  PROVE  Exact(MultiplyStep)
<1> DEFINE a == Magnitude(md.request.a, md.negative_a)
           b == Magnitude(md.request.b, md.negative_b)
           k == md.step
           p == 2 ^ k
           W == WordModulus
           bit == md.multiplier % 2
           product == IF bit = 1 THEN (md.product + md.multiplicand) % (W * W) ELSE md.product
           doubled == (md.multiplicand * 2) % (W * W)
           halved == md.multiplier \div 2
<1>1. md \in MdRegisters /\ k \in Nat
  BY DEF UnitInv, MdTypes, MdRegisters
<1>2. a \in Word /\ b \in Word
  BY MagnitudesWithin
<1>3. md.product = a * (b % p) /\ md.multiplicand = a * p /\ md.multiplier = b \div p
  BY IterationIs DEF UnitInv, Exact, ExactOf
<1>4. p \in Nat /\ p >= 1 /\ 2 ^ (k + 1) = 2 * p /\ 2 * p <= W /\ W \in Nat
  BY <1>1, StepPowers, WordSize
<1>5. a \in 0 .. W - 1 /\ b \in 0 .. W - 1
  BY <1>2 DEF Word
<1>6. MultiplyStep = [md EXCEPT !.step = k + 1, !.product = product,
                        !.multiplicand = doubled, !.multiplier = halved]
  BY DEF MultiplyStep
<1> HIDE DEF a, b, k, p, W
<1>7. /\ (a * p * 2) % (W * W) = a * (2 * p)
      /\ (b \div p) % 2 = 1 => (a * (b % p) + a * p) % (W * W) = a * (b % (2 * p))
      /\ (b \div p) % 2 # 1 => a * (b % p) = a * (b % (2 * p))
      /\ (b \div p) \div 2 = b \div (2 * p)
  BY <1>4, <1>5, MultiplyArithmetic
<1>8. product = a * (b % (2 * p)) /\ doubled = a * (2 * p) /\ halved = b \div (2 * p)
  BY <1>3, <1>7
<1> HIDE DEF product, doubled, halved
<1> DEFINE m == MultiplyStep
<1>9. /\ m.request = md.request /\ m.negative_a = md.negative_a /\ m.negative_b = md.negative_b
      /\ m.step = k + 1 /\ m.product = product /\ m.multiplicand = doubled /\ m.multiplier = halved
  BY <1>1, <1>6 DEF MdRegisters
<1> HIDE DEF m
<1>10. /\ Magnitude(m.request.a, m.negative_a) = a /\ Magnitude(m.request.b, m.negative_b) = b
       /\ m.request.op \in MulOps
  BY <1>9 DEF a, b
<1>11. Exact(m)
  BY <1>4, <1>8, <1>9, <1>10 DEF Exact, ExactOf
<1> QED
  BY <1>11 DEF m

(* A step of the division keeps the registers exact                        *)
(* (lib/muldiv_iterative.sv).                                              *)
LEMMA DivideExact ==
  ASSUME UnitInv, md.busy, md.step < XLEN, md.request.op \notin MulOps
  PROVE  Exact(DivideStep)
<1> DEFINE a == Magnitude(md.request.a, md.negative_a)
           b == Magnitude(md.request.b, md.negative_b)
           k == md.step
           p == 2 ^ k
           h == 2 ^ (XLEN - (k + 1))
           half == 2 ^ (XLEN - 1)
           W == WordModulus
           trial == Trial(W, half, md.quotient, md.remainder)
           shifted == Shifted(W, md.quotient)
           quotient == IF trial >= b THEN shifted + 1 ELSE shifted
           remainder == IF trial >= b THEN trial - b ELSE trial
<1>1. md \in MdRegisters /\ k \in Nat /\ md.quotient \in Word /\ md.remainder \in Nat
  BY DEF UnitInv, MdTypes, MdRegisters
<1>2. a \in Word /\ b \in Word
  BY MagnitudesWithin
<1>3. md.divisor = b /\ Divided(p, 2 ^ (XLEN - k), a, b, md.quotient, md.remainder)
  BY IterationIs DEF UnitInv, Exact, ExactOf
<1>4. /\ p \in Nat /\ p >= 1 /\ h \in Nat /\ h >= 1
      /\ 2 ^ (k + 1) = 2 * p /\ 2 ^ (XLEN - k) = 2 * h
      /\ half = p * h /\ W \in Nat /\ W = 2 * half
  BY <1>1, StepPowers, WordSize
<1>5. a \in Nat /\ b \in 0 .. W - 1 /\ md.quotient \in Nat
  BY <1>1, <1>2 DEF Word
<1>6. DivideStep = [md EXCEPT !.step = k + 1, !.remainder = remainder, !.quotient = quotient]
  <2>1. /\ trial = 2 * (md.remainder % W) + Bit(md.quotient, XLEN - 1)
        /\ shifted = (2 * md.quotient) % W
    BY DEF Trial, Shifted, Bit
  <2> HIDE DEF trial, shifted
  <2> QED
    BY <1>3, <2>1 DEF DivideStep, Fits
<1> HIDE DEF a, b, p, h, half, W
<1>7. Divided(2 * p, h, a, b, quotient, remainder)
  <2>1. Divided(p, 2 * h, a, b, md.quotient, md.remainder)
    BY <1>3, <1>4
  <2> DEFINE old == md.quotient
             rest == md.remainder
  <2> HIDE DEF old, rest
  <2>2. /\ old \in Nat /\ rest \in Nat /\ Divided(p, 2 * h, a, b, old, rest)
        /\ trial = Trial(W, half, old, rest) /\ shifted = Shifted(W, old)
    BY <1>1, <1>5, <2>1 DEF old, rest
  <2>3. /\ quotient = IF trial >= b THEN shifted + 1 ELSE shifted
        /\ remainder = IF trial >= b THEN trial - b ELSE trial
    OBVIOUS
  <2> HIDE DEF trial, shifted, quotient, remainder
  <2> QED
    BY <1>4, <1>5, <2>2, <2>3, DivideArithmetic
<1> HIDE DEF quotient, remainder
<1> DEFINE m == DivideStep
<1>8. /\ m.request = md.request /\ m.negative_a = md.negative_a /\ m.negative_b = md.negative_b
      /\ m.step = k + 1 /\ m.quotient = quotient /\ m.remainder = remainder
      /\ m.divisor = md.divisor
  BY <1>1, <1>6 DEF MdRegisters
<1> HIDE DEF m
<1>9. /\ Magnitude(m.request.a, m.negative_a) = a /\ Magnitude(m.request.b, m.negative_b) = b
      /\ m.request.op \notin MulOps
  BY <1>8 DEF a, b
<1>10. Exact(m)
  BY <1>3, <1>4, <1>7, <1>8, <1>9 DEF Exact, ExactOf, h
<1> QED
  BY <1>10 DEF m

(* What an edge of the unit does to each of its registers.                 *)
Accepts(x, out_ready) == x # Empty /\ md_in_ready(out_ready)
Completes == md.busy /\ md.step = XLEN

(* An edge keeps the unit and its request wires in their types.            *)
LEMMA UnitTypes ==
  ASSUME UnitInv, NEW flush, NEW out_ready, Edge(flush, out_ready)
  PROVE  MdTypes' /\ OfferedTypes'
<1>1. MdTick(flush, offered, out_ready) /\ OfferedTypes /\ MdTypes
  BY DEF UnitInv, Edge
<1>2. MdTypes'
  BY <1>1, MdStep DEF OfferedTypes
<1>3. offered' \in Following \cup {Empty} \/ offered' = offered
  BY DEF Edge
<1>4. OfferedTypes'
  BY <1>1, <1>3, FollowingAssumption, RequestsAssumption DEF OfferedTypes
<1> QED
  BY <1>2, <1>4

(* An idle unit has no operation to be exact about.                        *)
LEMMA UnitIdle ==
  ASSUME ~md'.busy
  PROVE  (ResultTaken /\ SignsKept /\ IterationExact)'
BY DEF ResultTaken, SignsKept, IterationExact

(* An edge that leaves the unit busy leaves it exact, with the signs of    *)
(* its request and an empty output register.                               *)
LEMMA UnitExact ==
  ASSUME UnitInv, NEW flush, NEW out_ready, Edge(flush, out_ready), md'.busy
  PROVE  (ResultTaken /\ SignsKept /\ IterationExact)'
<1>1. md \in MdRegisters /\ MdTick(flush, offered, out_ready) /\ md.step \in 0 .. XLEN /\ XLEN \in Nat
  BY WordSize DEF UnitInv, MdTypes, Edge, MdRegisters
<1>2. ~flush
  BY <1>1 DEF MdTick, MdReset
<1>3. ~(md.busy /\ md.step = XLEN)
  BY <1>1, <1>2 DEF MdTick, MdEdge, Complete, MdRegisters
<1> DEFINE m == IF Accepts(offered, out_ready) THEN Accept(offered)
                ELSE IF ~md.busy THEN md
                ELSE IF md.request.op \in MulOps THEN MultiplyStep
                ELSE DivideStep
           out == IF out_ready THEN Empty ELSE m.out
<1>4. md' = [m EXCEPT !.out = out]
  BY <1>1, <1>2, <1>3 DEF MdTick, MdEdge, Accepts
<1>5. /\ m \in MdRegisters /\ Exact(m)
      /\ m.busy => /\ m.out = Empty \/ out_ready
                   /\ m.negative_a = SignedA(m.request) /\ m.negative_b = SignedB(m.request)
  <2>1. CASE Accepts(offered, out_ready)
    <3>1. offered \in execute_t /\ is_muldiv(offered.op) /\ MdTypes
      BY <2>1 DEF UnitInv, OfferedTypes, Accepts
    <3>2. /\ Accept(offered) \in MdRegisters /\ Accept(offered).out = md.out
          /\ Accept(offered).request = offered
      BY <3>1, AcceptTypes
    <3> DEFINE a == Magnitude(offered.a, SignedA(offered))
               b == Magnitude(offered.b, SignedB(offered))
               r == Accept(offered)
    <3>3. r = [md EXCEPT !.busy = TRUE, !.request = offered, !.step = 0,
                  !.negative_a = SignedA(offered), !.negative_b = SignedB(offered),
                  !.product = 0, !.multiplicand = a, !.multiplier = b,
                  !.quotient = a, !.divisor = b, !.remainder = 0]
      BY DEF Accept, Magnitude
    <3>4. a \in Word /\ b \in Word
      <4>1. offered.a \in Word /\ offered.b \in Word
        BY <3>1 DEF execute_t
      <4>2. (SignedA(offered) => Negative(offered.a)) /\ (SignedB(offered) => Negative(offered.b))
        BY DEF SignedA, SignedB
      <4> QED
        BY <4>1, <4>2, MagnitudeIs DEF Magnitude
    <3> DEFINE na == SignedA(offered)
               nb == SignedB(offered)
    <3> HIDE DEF a, b, r, na, nb
    <3>5. /\ r.negative_a = na /\ r.negative_b = nb /\ r.request = offered
          /\ r.step = 0 /\ r.product = 0 /\ r.multiplicand = a /\ r.multiplier = b
          /\ r.quotient = a /\ r.divisor = b /\ r.remainder = 0
      BY <1>1, <3>3 DEF MdRegisters, na, nb
    <3>6. Magnitude(r.request.a, r.negative_a) = a /\ Magnitude(r.request.b, r.negative_b) = b
      BY <3>5 DEF a, b, na, nb
    <3>7. Exact(r)
      BY <3>4, <3>5, <3>6, AcceptExact DEF Exact
    <3>8. md.out = Empty \/ out_ready
      BY <2>1 DEF Accepts, md_in_ready
    <3>9. m = r
      BY <2>1 DEF r
    <3> HIDE DEF m
    <3> QED
      BY <3>2, <3>5, <3>7, <3>8, <3>9 DEF r, na, nb
  <2>2. CASE ~Accepts(offered, out_ready) /\ ~md.busy
    <3>1. m = md
      BY <2>2
    <3>2. md' = [md EXCEPT !.out = out]
      BY <1>4, <3>1
    <3> HIDE DEF m, out
    <3>3. ~md'.busy
      BY <1>1, <2>2, <3>2 DEF MdRegisters
    <3> QED
      BY <3>3
  <2>3. CASE ~Accepts(offered, out_ready) /\ md.busy
    <3>1. md.step < XLEN /\ MdTypes /\ md.out = Empty /\ SignsKept
      BY <1>1, <1>3, <2>3 DEF UnitInv, ResultTaken
    <3>2. m = IF md.request.op \in MulOps THEN MultiplyStep ELSE DivideStep
      BY <2>3
    <3>3. m \in MdRegisters /\ m.out = md.out /\ m.request = md.request
      BY <3>1, <3>2, MultiplyTypes, DivideTypes
    <3>4. m.negative_a = md.negative_a /\ m.negative_b = md.negative_b
      BY <1>1, <3>2 DEF MultiplyStep, DivideStep, MdRegisters
    <3>5. Exact(m)
      BY <2>3, <3>1, <3>2, MultiplyExact, DivideExact
    <3> QED
      BY <2>3, <3>1, <3>3, <3>4, <3>5 DEF SignsKept
  <2> QED
    BY <2>1, <2>2, <2>3
<1> HIDE DEF m
<1>6. /\ md'.busy = m.busy /\ md'.out = out /\ md'.request = m.request
      /\ md'.negative_a = m.negative_a /\ md'.negative_b = m.negative_b
      /\ md'.step = m.step /\ md'.product = m.product /\ md'.multiplicand = m.multiplicand
      /\ md'.multiplier = m.multiplier /\ md'.quotient = m.quotient
      /\ md'.divisor = m.divisor /\ md'.remainder = m.remainder
  BY <1>4, <1>5 DEF MdRegisters
<1>7. ResultTaken' /\ SignsKept'
  BY <1>5, <1>6 DEF ResultTaken, SignsKept, SignedA, SignedB
<1>8. IterationExact'
  <2>1. Exact(md)'
    BY <1>5, <1>6 DEF Exact, ExactOf, Divided, Magnitude, Negate
  <2>2. IterationExact' <=> (md.busy => Exact(md))'
    BY DEF IterationExact, Exact, ExactOf, Divided
  <2> QED
    BY <2>1, <2>2
<1> QED
  BY <1>7, <1>8

-----------------------------------------------------------------------------
(* The registers after the last step, and the value made of them.          *)
LEMMA AtTheEnd ==
  ASSUME UnitInv, md.busy, md.step = XLEN
  PROVE  LET a == Magnitude(md.request.a, md.negative_a)
             b == Magnitude(md.request.b, md.negative_b)
         IN IF md.request.op \in MulOps THEN md.product = a * b
            ELSE b # 0 => /\ md.quotient = a \div b /\ md.remainder = a % b
                          /\ md.remainder % WordModulus = md.remainder
<1> DEFINE a == Magnitude(md.request.a, md.negative_a)
           b == Magnitude(md.request.b, md.negative_b)
           W == WordModulus
<1>1. W \in Nat /\ W >= 1 /\ 2 ^ md.step = W /\ 2 ^ (XLEN - md.step) = 1
  <2>1. XLEN - md.step = 0
    BY WordSize
  <2> QED
    BY <2>1, WordSize, PowerAssumption DEF WordModulus
<1>2. /\ md.quotient \in 0 .. W - 1 /\ md.remainder \in Nat
      /\ a \in 0 .. W - 1 /\ b \in 0 .. W - 1
  BY MagnitudesWithin DEF UnitInv, MdTypes, MdRegisters, Word
<1>3. Exact(md)
  BY IterationIs DEF UnitInv
<1> HIDE DEF a, b, W
<1>4. ExactOf(md.request.op, a, b, md.step, md.product, md.multiplicand, md.multiplier,
              md.quotient, md.divisor, md.remainder)
  BY <1>3 DEF Exact, a, b
<1>5. \A v \in 0 .. W - 1 : v % W = v /\ v \div 1 = v
  BY <1>1
<1>6. CASE md.request.op \in MulOps
  <2>1. md.product = a * (b % W)
    BY <1>1, <1>4, <1>6 DEF ExactOf
  <2>2. md.product = a * b
    BY <1>2, <1>5, <2>1
  <2> QED
    BY <1>6, <2>2 DEF a, b
<1>7. CASE md.request.op \notin MulOps
  <2> SUFFICES ASSUME b # 0
               PROVE  /\ md.quotient = a \div b /\ md.remainder = a % b
                      /\ md.remainder % W = md.remainder
    BY <1>7 DEF a, b, W
  <2>1. Divided(W, 1, a, b, md.quotient, md.remainder)
    BY <1>1, <1>4, <1>7 DEF ExactOf
  <2>2. a = b * md.quotient + md.remainder /\ md.remainder < b
    BY <1>2, <1>5, <2>1 DEF Divided
  <2> DEFINE q == md.quotient
             r == md.remainder
  <2>3. q \in Int /\ r \in Nat /\ r < b /\ a = b * q + r
    BY <1>2, <2>2
  <2> HIDE DEF q, r
  <2>4. b \in Nat /\ b >= 1 /\ r \in 0 .. b - 1 /\ r \in 0 .. W - 1 /\ a \in Int
    BY <1>1, <1>2, <2>3
  <2>5. a \div b = q /\ a % b = r
    BY <2>3, <2>4, DivModUnique
  <2>6. r % W = r
    BY <1>5, <2>4
  <2> QED
    BY <2>5, <2>6 DEF q, r
<1> QED
  BY <1>6, <1>7

(* With the signs put back, the product modulo two words, the quotient and *)
(* the remainder are those of the integers.                                *)
Restored(negative, v) == IF negative THEN -v ELSE v

(* Magnitudes multiplied and signs compared give the signed product.       *)
LEMMA ProductSigns ==
  ASSUME NEW na \in BOOLEAN, NEW nb \in BOOLEAN, NEW a \in Nat, NEW b \in Nat
  PROVE  Restored(na, a) * Restored(nb, b) = Restored(na # nb, a * b)
<1>1. (-a) * b = -(a * b) /\ a * (-b) = -(a * b) /\ (-a) * (-b) = a * b
  OBVIOUS
<1> QED
  BY <1>1 DEF Restored

(* Magnitudes divided and signs restored give the quotient that truncates  *)
(* and the remainder with the dividend's sign.                             *)
LEMMA QuotientSigns ==
  ASSUME NEW na \in BOOLEAN, NEW nb \in BOOLEAN, NEW a \in Nat, NEW b \in Nat, b >= 1,
         na => a # 0
  PROVE  LET i == Restored(na, a)
             j == Restored(nb, b)
         IN /\ Quotient(i, j) = Restored(na # nb, a \div b)
            /\ i - j * Quotient(i, j) = Restored(na, a % b)
<1> DEFINE i == Restored(na, a)
           j == Restored(nb, b)
           q == a \div b
           r == a % b
<1>1. q \in Int /\ r \in Int /\ a = b * q + r
  BY DivMod
<1>2. Abs(i) = a /\ Abs(j) = b /\ (i < 0 <=> na) /\ (j < 0 <=> nb)
  BY DEF Abs, Restored
<1>3. Quotient(i, j) = Restored(na # nb, q)
  BY <1>2 DEF Quotient, Restored
<1> HIDE DEF q, r
<1>4. b * (-q) = -(b * q) /\ (-b) * q = -(b * q) /\ (-b) * (-q) = b * q
  BY <1>1
<1>5. i - j * Restored(na # nb, q) = Restored(na, r)
  BY <1>1, <1>4 DEF Restored
<1> QED
  BY <1>3, <1>5 DEF q, r

Opposite == md.negative_a # md.negative_b
TwoWords == WordModulus * WordModulus

(* After the last step the product register, with its sign restored, holds *)
(* what the four multiplications ask for.                                  *)
LEMMA ProductExact ==
  ASSUME UnitInv, md.busy, md.step = XLEN, md.request.op \in MulOps
  PROVE  LET x == md.request
             product == IF Opposite THEN (-md.product) % TwoWords ELSE md.product
         IN /\ x.op = "MUL" => product % WordModulus = MulDivValue("MUL", x.a, x.b)
            /\ x.op # "MUL" => product \div WordModulus = MulDivValue(x.op, x.a, x.b)
<1> DEFINE a == Magnitude(md.request.a, md.negative_a)
           b == Magnitude(md.request.b, md.negative_b)
           i == Restored(md.negative_a, a)
           j == Restored(md.negative_b, b)
           W == WordModulus
           product == IF Opposite THEN (-md.product) % TwoWords ELSE md.product
<1>1. md.negative_a \in BOOLEAN /\ md.negative_b \in BOOLEAN /\ W \in Nat /\ W >= 1
  BY WordSize DEF UnitInv, MdTypes, MdRegisters
<1>2. a \in 0 .. W - 1 /\ b \in 0 .. W - 1
  BY MagnitudesWithin DEF Word
<1>3. md.product = a * b
  BY AtTheEnd
<1>4. /\ md.request.op \in {"MUL", "MULHU"} => i = md.request.a /\ j = md.request.b
      /\ md.request.op = "MULH" => i = Signed(md.request.a) /\ j = Signed(md.request.b)
      /\ md.request.op = "MULHSU" => i = Signed(md.request.a) /\ j = md.request.b
  <2>1. md.request.a \in Word /\ md.request.b \in Word
    BY MagnitudesWithin
  <2>2. md.negative_a = SignedA(md.request) /\ md.negative_b = SignedB(md.request)
    BY DEF UnitInv, SignsKept
  <2>3. CASE md.request.op \in {"MUL", "MULHU"}
    BY <2>2, <2>3 DEF SignedA, SignedB, Magnitude, Restored
  <2>4. CASE md.request.op = "MULH"
    <3>1. (md.negative_a <=> Negative(md.request.a)) /\ (md.negative_b <=> Negative(md.request.b))
      BY <2>2, <2>4 DEF SignedA, SignedB
    <3> QED
      BY <2>1, <2>4, <3>1, MagnitudeIs DEF Magnitude, Restored
  <2>5. CASE md.request.op = "MULHSU"
    <3>1. (md.negative_a <=> Negative(md.request.a)) /\ ~md.negative_b
      BY <2>2, <2>5 DEF SignedA, SignedB
    <3> QED
      BY <2>1, <2>5, <3>1, MagnitudeIs DEF Magnitude, Restored
  <2> QED
    BY <2>3, <2>4, <2>5
<1>5. product = (i * j) % TwoWords
  <2> DEFINE n == a * b
  <2>1. n \in Nat /\ n < TwoWords /\ TwoWords \in Nat
    <3>1. n \in Nat /\ n <= W * W - W
      BY <1>1, <1>2, ProductWithin
    <3>2. W * W \in Nat
      BY <1>1
    <3> HIDE DEF n
    <3> QED
      BY <1>1, <3>1, <3>2 DEF TwoWords
  <2>2. i * j = Restored(Opposite, n)
    <3>1. a \in Nat /\ b \in Nat
      BY <1>1, <1>2
    <3> HIDE DEF a, b
    <3> QED
      BY <1>1, <3>1, ProductSigns DEF Opposite
  <2> HIDE DEF n, i, j, a, b
  <2>3. n % TwoWords = n
    BY <2>1
  <2>4. product = IF Opposite THEN (-n) % TwoWords ELSE n
    BY <1>3 DEF n
  <2> QED
    BY <2>2, <2>3, <2>4 DEF Restored
<1>6. i \in Int /\ j \in Int
  BY <1>2 DEF Restored
<1> HIDE DEF i, j, a, b, product
<1> DEFINE n == i * j
<1>7. n \in Int
  BY <1>6
<1>8. product = n % (W * W)
  BY <1>5 DEF TwoWords
<1> HIDE DEF n, W
<1>9. product \div W = (n \div W) % W
  BY <1>1, <1>7, <1>8, HighOfTwo
<1>10. md.request.op = "MUL" => product = a * b /\ n = a * b /\ a = md.request.a /\ b = md.request.b
  <2> SUFFICES ASSUME md.request.op = "MUL"
               PROVE  product = a * b /\ n = a * b /\ a = md.request.a /\ b = md.request.b
    OBVIOUS
  <2>1. ~md.negative_a /\ ~md.negative_b
    BY DEF UnitInv, SignsKept, SignedA, SignedB
  <2> QED
    <3>1. product = md.product
      <4>1. ~Opposite
        BY <1>1, <2>1 DEF Opposite
      <4> QED
        BY <4>1 DEF product
    <3>2. i = a /\ j = b
      BY <2>1 DEF i, j, Restored
    <3>3. a = md.request.a /\ b = md.request.b
      BY <2>1 DEF a, b, Magnitude
    <3>4. n = a * b
      BY <3>2 DEF n
    <3>5. product = a * b
      BY <1>3, <3>1 DEF a, b
    <3> QED
      BY <3>3, <3>4, <3>5
<1>11. md.request.op = "MUL" => product % W = MulDivValue("MUL", md.request.a, md.request.b)
  BY <1>10 DEF MulDivValue, W
<1>12. md.request.op # "MUL" => product \div W = MulDivValue(md.request.op, md.request.a, md.request.b)
  <2>1. HighWord(n) = product \div W
    BY <1>9 DEF HighWord, W
  <2>2. md.request.op = "MULHU" => MulDivValue("MULHU", md.request.a, md.request.b) = HighWord(n)
    BY <1>4 DEF MulDivValue, n
  <2>3. md.request.op = "MULH" => MulDivValue("MULH", md.request.a, md.request.b) = HighWord(n)
    BY <1>4 DEF MulDivValue, n
  <2>4. md.request.op = "MULHSU" => MulDivValue("MULHSU", md.request.a, md.request.b) = HighWord(n)
    BY <1>4 DEF MulDivValue, n
  <2> QED
    BY <2>1, <2>2, <2>3, <2>4 DEF MulOps
<1> QED
  BY <1>11, <1>12 DEF product, W

(* After the last step quotient and remainder, with their signs restored,  *)
(* are those of the four divisions, for a divisor other than zero.         *)
LEMMA DivisionExact ==
  ASSUME UnitInv, md.busy, md.step = XLEN, md.request.op \in DivOps, md.request.b # 0
  PROVE  LET x == md.request
             quotient == IF Opposite THEN Negate(md.quotient) ELSE md.quotient
             rest == md.remainder % WordModulus
             remainder == IF md.negative_a THEN Negate(rest) ELSE rest
         IN /\ x.op \in {"DIV", "DIVU"} => quotient = MulDivValue(x.op, x.a, x.b)
            /\ x.op \in {"REM", "REMU"} => remainder = MulDivValue(x.op, x.a, x.b)
<1> DEFINE na == md.negative_a
           nb == md.negative_b
           a == Magnitude(md.request.a, na)
           b == Magnitude(md.request.b, nb)
           i == Restored(na, a)
           j == Restored(nb, b)
           W == WordModulus
           q == md.quotient
           r == md.remainder % WordModulus
           quotient == IF Opposite THEN Negate(q) ELSE q
           remainder == IF na THEN Negate(r) ELSE r
<1>1. na \in BOOLEAN /\ nb \in BOOLEAN /\ W \in Nat /\ W >= 1 /\ (Opposite <=> na # nb)
  BY WordSize DEF UnitInv, MdTypes, MdRegisters, Opposite
<1>2. a \in Word /\ b \in Word /\ md.request.a \in Word /\ md.request.b \in Word
  BY MagnitudesWithin
<1>3. CASE md.request.op \in {"DIVU", "REMU"}
  <2>1. ~na /\ ~nb
    BY <1>3 DEF UnitInv, SignsKept, SignedA, SignedB
  <2>2. a = md.request.a /\ b = md.request.b
    BY <2>1 DEF Magnitude
  <2>3. q = a \div b /\ r = a % b
    BY <1>3, <2>2, AtTheEnd DEF MulOps
  <2>4. quotient = q /\ remainder = r
    BY <1>1, <2>1
  <2> HIDE DEF a, b, q, r
  <2>5. quotient = md.request.a \div md.request.b /\ remainder = md.request.a % md.request.b
    BY <2>2, <2>3, <2>4
  <2> HIDE DEF quotient, remainder
  <2>6. /\ MulDivValue("DIVU", md.request.a, md.request.b) = md.request.a \div md.request.b
        /\ MulDivValue("REMU", md.request.a, md.request.b) = md.request.a % md.request.b
    BY DEF MulDivValue
  <2> QED
    BY <1>3, <2>5, <2>6 DEF quotient, remainder, q, r
<1>4. CASE md.request.op \in {"DIV", "REM"}
  <2>1. (na <=> Negative(md.request.a)) /\ (nb <=> Negative(md.request.b))
    BY <1>4 DEF UnitInv, SignsKept, SignedA, SignedB
  <2>2. /\ i = Signed(md.request.a) /\ j = Signed(md.request.b)
        /\ na => a # 0
        /\ b # 0
    BY <1>2, <2>1, MagnitudeIs DEF Magnitude, Restored
  <2>3. q = a \div b /\ r = a % b
    BY <1>4, <2>2, AtTheEnd DEF MulOps
  <2>4. a \in Nat /\ b \in Nat /\ b >= 1 /\ a \in 0 .. W - 1
    BY <1>2, <2>2 DEF Word
  <2> HIDE DEF a, b, i, j, q, r, na, nb, W
  <2>5. q \in Nat /\ r \in Nat /\ q < W /\ r < W
    <3>1. md.quotient \in Word /\ md.remainder % WordModulus \in Word
      <4>1. md.quotient \in Word /\ md.remainder \in Int
        BY DEF UnitInv, MdTypes, MdRegisters
      <4> QED
        BY <4>1, Modulo
    <3> QED
      BY <1>1, <3>1 DEF Word, W, q, r
  <2>6. /\ Quotient(i, j) = Restored(na # nb, q)
        /\ i - j * Quotient(i, j) = Restored(na, r)
    <3>1. /\ Quotient(Restored(na, a), Restored(nb, b)) = Restored(na # nb, a \div b)
          /\ Restored(na, a) - Restored(nb, b) * Quotient(Restored(na, a), Restored(nb, b)) = Restored(na, a % b)
      BY <1>1, <2>2, <2>4, QuotientSigns
    <3> QED
      BY <2>3, <3>1 DEF i, j
  <2>7. Restored(na # nb, q) % W = quotient
    BY <1>1, <2>5 DEF Restored, Negate, W
  <2>8. Restored(na, r) % W = remainder
    BY <1>1, <2>5 DEF Restored, Negate, W
  <2>9. MulDivValue("DIV", md.request.a, md.request.b) = Quotient(i, j) % W
    BY <2>2 DEF MulDivValue, W
  <2>10. MulDivValue("REM", md.request.a, md.request.b) = (i - j * Quotient(i, j)) % W
    BY <2>2 DEF MulDivValue, W
  <2> HIDE DEF quotient, remainder
  <2>11. /\ MulDivValue("DIV", md.request.a, md.request.b) = quotient
         /\ MulDivValue("REM", md.request.a, md.request.b) = remainder
    BY <2>6, <2>7, <2>8, <2>9, <2>10
  <2> QED
    BY <1>4, <2>11 DEF quotient, remainder, q, r, na
<1> QED
  BY <1>3, <1>4 DEF DivOps

(* The value delivered is the reference's, and zero for a destination x0;  *)
(* division by zero included.                                              *)
LEMMA FinalValueExact ==
  ASSUME UnitInv, md.busy, md.step = XLEN
  PROVE  final_value = IF md.request.meta.rd = 0 THEN 0
                       ELSE MulDivValue(md.request.op, md.request.a, md.request.b)
<1> DEFINE x == md.request
           product == IF Opposite THEN (-md.product) % TwoWords ELSE md.product
           quotient == IF Opposite THEN Negate(md.quotient) ELSE md.quotient
           rest == md.remainder % WordModulus
           remainder == IF md.negative_a THEN Negate(rest) ELSE rest
<1>1. final_value = CASE x.meta.rd = 0 -> 0
       [] x.meta.rd # 0 /\ x.op = "MUL" -> product % WordModulus
       [] x.meta.rd # 0 /\ x.op \in MulOps \ {"MUL"} -> product \div WordModulus
       [] x.meta.rd # 0 /\ x.op \in {"DIV", "DIVU"} ->
            IF x.b = 0 THEN WordModulus - 1 ELSE quotient
       [] x.meta.rd # 0 /\ x.op \in {"REM", "REMU"} ->
            IF x.b = 0 THEN x.a ELSE remainder
  BY DEF final_value, Opposite, TwoWords
<1>2. x.op \in MulOps \/ x.op \in DivOps
  BY DEF UnitInv, MdTypes, is_muldiv
<1>3. x.op \in MulOps => /\ x.op = "MUL" => product % WordModulus = MulDivValue("MUL", x.a, x.b)
                         /\ x.op # "MUL" => product \div WordModulus = MulDivValue(x.op, x.a, x.b)
  BY ProductExact
<1>4. x.op \in DivOps /\ x.b # 0 =>
        /\ x.op \in {"DIV", "DIVU"} => quotient = MulDivValue(x.op, x.a, x.b)
        /\ x.op \in {"REM", "REMU"} => remainder = MulDivValue(x.op, x.a, x.b)
  BY DivisionExact
<1> HIDE DEF product, quotient, remainder
<1>5. x.b = 0 => /\ x.op \in {"DIV", "DIVU"} => MulDivValue(x.op, x.a, x.b) = WordModulus - 1
                 /\ x.op \in {"REM", "REMU"} => MulDivValue(x.op, x.a, x.b) = x.a
  <2> DEFINE a == x.a
             b == x.b
  <2> HIDE DEF a, b
  <2>1. b = 0 => /\ MulDivValue("DIV", a, b) = WordModulus - 1
                 /\ MulDivValue("DIVU", a, b) = WordModulus - 1
                 /\ MulDivValue("REM", a, b) = a
                 /\ MulDivValue("REMU", a, b) = a
    BY DEF MulDivValue
  <2> QED
    BY <2>1 DEF a, b
<1> HIDE DEF x
<1>6. CASE x.meta.rd = 0
  BY <1>1, <1>6 DEF x
<1>7. CASE x.meta.rd # 0 /\ x.op \in MulOps
  <2>1. x.op \notin {"DIV", "DIVU", "REM", "REMU"}
    BY <1>7 DEF MulOps
  <2> QED
    BY <1>1, <1>3, <1>7, <2>1 DEF x
<1>8. CASE x.meta.rd # 0 /\ x.op \in DivOps
  <2>1. x.op \notin MulOps /\ x.op # "MUL" /\ x.op \in {"DIV", "DIVU", "REM", "REMU"}
    BY <1>8 DEF MulOps, DivOps
  <2> QED
    BY <1>1, <1>4, <1>5, <1>8, <2>1 DEF x
<1> QED
  BY <1>2, <1>6, <1>7, <1>8
-----------------------------------------------------------------------------
(* The port's arithmetic is the unit's reference: the two instances of one *)
(* module differ in name only.                                             *)
LEMMA PortValue ==
  ASSUME NEW op, NEW a, NEW b
  PROVE  Port!MulDivValue(op, a, b) = MulDivValue(op, a, b)
<1>1. Port!WordModulus = WordModulus
  BY DEF WordModulus, Port!WordModulus
<1>2. \A v : Port!Signed(v) = Signed(v)
  BY <1>1 DEF Signed, Port!Signed, Negative, Port!Negative, Bit, Port!Bit
<1>3. \A i, j : Port!Quotient(i, j) = Quotient(i, j)
  BY DEF Quotient, Port!Quotient, Abs, Port!Abs
<1>4. \A i : Port!HighWord(i) = HighWord(i)
  BY <1>1 DEF HighWord, Port!HighWord
<1> QED
  BY <1>1, <1>2, <1>3, <1>4 DEF MulDivValue, Port!MulDivValue

(* The port's answer carries the request's meta and no branch.             *)
LEMMA PortAnswer ==
  ASSUME NEW x
  PROVE  Port!Answer(x) =
           [meta |-> x.meta, branch |-> NoBranch,
            value |-> IF x.meta.rd = 0 THEN 0 ELSE MulDivValue(x.op, x.a, x.b)]
BY PortValue DEF Port!Answer, NoBranch, Port!NoBranch, FAULT_NONE, Port!FAULT_NONE

(* The instruction the unit works on, as its port sees it.                 *)
Working == IF md.busy THEN md.request ELSE Empty

(* The unit accepts exactly when its port does.                            *)
LEMMA AcceptsAsPort ==
  ASSUME UnitInv, NEW out_ready
  PROVE  Accepts(offered, out_ready) <=> Port!Accepted(offered, out_ready)
<1>1. md.busy => md.request # Empty
  BY EmptyAssumption DEF UnitInv, MdTypes
<1> QED
  BY <1>1 DEF Accepts, md_in_ready, Port!Accepted

(* An edge accepts, works, answers, holds, hands over or forgets: the step *)
(* of the port with the same flush, instruction and out_ready, without     *)
(* exception (lib/muldiv_iterative.sv:18, 39-94).                          *)
THEOREM MulDivEdgeIsPortStep ==
  ASSUME UnitInv, NEW flush \in BOOLEAN, NEW out_ready \in BOOLEAN, Edge(flush, out_ready)
  PROVE  Port!Step(flush, offered, out_ready)
<1>1. md \in MdRegisters /\ MdTick(flush, offered, out_ready) /\ MdTypes /\ ResultTaken
  BY DEF UnitInv, MdTypes, Edge
<1>2. md.busy => md.request \in execute_t /\ md.request # Empty
  BY <1>1, EmptyAssumption DEF MdTypes
<1>7. Accepts(offered, out_ready) <=> Port!Accepted(offered, out_ready)
  BY AcceptsAsPort
<1>3. CASE flush
  <2>1. Working' = Empty /\ md'.out = Empty
    BY <1>1, <1>3 DEF MdTick, MdReset, Working
  <2> QED
    BY <1>3, <2>1 DEF Port!Step, Port!Forget, Working
<1>4. CASE ~flush /\ md.busy /\ md.step = XLEN
  <2> DEFINE r == [meta |-> md.request.meta, value |-> final_value, branch |-> NoBranch]
  <2>1. md' = [md EXCEPT !.busy = FALSE, !.out = r]
    BY <1>1, <1>4 DEF MdTick, MdEdge, Complete
  <2>2. r = Port!Answer(md.request)
    BY <1>4, FinalValueExact, PortAnswer
  <2> HIDE DEF r
  <2>3. ~md'.busy /\ md'.out = r
    BY <1>1, <2>1 DEF MdRegisters
  <2>4. Working = md.request /\ Working # Empty /\ md.out = Empty /\ Working' = Empty
    BY <1>1, <1>2, <1>4, <2>3 DEF Working, ResultTaken
  <2>5. ~Accepts(offered, out_ready)
    BY <1>4 DEF Accepts, md_in_ready
  <2> QED
    BY <1>4, <1>7, <2>2, <2>3, <2>4, <2>5 DEF Port!Step, Port!Finish, Working
<1>5. CASE ~flush /\ ~(md.busy /\ md.step = XLEN) /\ Accepts(offered, out_ready)
  <2>1. offered \in execute_t /\ is_muldiv(offered.op) /\ offered # Empty
    BY <1>5 DEF Accepts, UnitInv, OfferedTypes
  <2>2. ~md.busy /\ (md.out = Empty \/ out_ready)
    BY <1>5 DEF Accepts, md_in_ready
  <2> DEFINE m == Accept(offered)
  <2>3. m \in MdRegisters /\ m.busy /\ m.request = offered /\ m.out = md.out
    BY <1>1, <2>1, AcceptTypes
  <2>4. md' = [m EXCEPT !.out = IF out_ready THEN Empty ELSE m.out]
    BY <1>1, <1>5 DEF MdTick, MdEdge, Accepts
  <2> HIDE DEF m
  <2>5. md'.busy /\ md'.request = offered /\ md'.out = Empty
    BY <2>2, <2>3, <2>4 DEF MdRegisters
  <2>6. Working' = offered
    BY <2>5 DEF Working
  <2> QED
    BY <1>5, <1>7, <2>5, <2>6 DEF Port!Step, Port!Start, Working
<1>6. CASE ~flush /\ ~(md.busy /\ md.step = XLEN) /\ ~Accepts(offered, out_ready)
  <2> DEFINE m == IF ~md.busy THEN md
                  ELSE IF md.request.op \in MulOps THEN MultiplyStep
                  ELSE DivideStep
  <2>1. md' = [m EXCEPT !.out = IF out_ready THEN Empty ELSE m.out]
    BY <1>1, <1>6 DEF MdTick, MdEdge, Accepts
  <2>2. m \in MdRegisters /\ m.busy = md.busy /\ m.request = md.request /\ m.out = md.out
    <3>1. CASE ~md.busy
      BY <1>1, <3>1
    <3>2. CASE md.busy
      <4>1. md.step < XLEN
        BY <1>1, <1>6, <3>2, WordSize DEF MdRegisters
      <4> QED
        BY <1>1, <3>2, <4>1, MultiplyTypes, DivideTypes
    <3> QED
      BY <3>1, <3>2
  <2> HIDE DEF m
  <2>3. /\ md'.busy = md.busy /\ md'.request = md.request
        /\ md'.out = IF out_ready THEN Empty ELSE md.out
    BY <2>1, <2>2 DEF MdRegisters
  <2>4. Working' = Working
    BY <2>3 DEF Working
  <2>5. CASE md.busy
    <3>1. Working # Empty /\ md'.out = md.out
      BY <1>1, <1>2, <2>3, <2>5 DEF ResultTaken, Working
    <3> QED
      BY <1>6, <1>7, <2>4, <3>1 DEF Port!Step, Port!Work, Working
  <2>6. CASE ~md.busy
    <3>1. Working = Empty
      BY <2>6 DEF Working
    <3> QED
      BY <1>6, <1>7, <2>3, <2>4, <3>1 DEF Port!Step, Port!Hold, Working
  <2> QED
    BY <2>5, <2>6
<1> QED
  BY <1>3, <1>4, <1>5, <1>6

(* The unit's invariant holds when it starts and after every edge.         *)
LEMMA UnitInvInit == UnitInit => UnitInv
<1> SUFFICES ASSUME UnitInit PROVE UnitInv
  OBVIOUS
<1>1. md = MdReset /\ offered \in Requests
  BY DEF UnitInit, MdInit
<1>2. 0 \in Word /\ 0 \in 0 .. XLEN /\ 0 \div WordModulus \in Word
  BY WordSize DEF Word
<1> QED
  BY <1>1, <1>2, RequestsAssumption
  DEF UnitInv, MdTypes, MdReset, MdRegisters, OfferedTypes, ResultTaken, SignsKept, IterationExact

(* Every edge preserves the invariant of the unit.                         *)
LEMMA UnitInvStep == UnitInv /\ [UnitNext]_unitVars => UnitInv'
<1> SUFFICES ASSUME UnitInv, [UnitNext]_unitVars PROVE UnitInv'
  OBVIOUS
<1>1. CASE UNCHANGED unitVars
  BY <1>1 DEF unitVars, UnitInv, MdTypes, OfferedTypes, ResultTaken, SignsKept, SignedA, SignedB,
     IterationExact, Magnitude, Negate, Negative
<1>2. ASSUME NEW flush \in BOOLEAN, NEW out_ready \in BOOLEAN, Edge(flush, out_ready)
      PROVE  UnitInv'
  <2>1. MdTypes' /\ OfferedTypes'
    BY <1>2, UnitTypes
  <2>2. (ResultTaken /\ SignsKept /\ IterationExact)'
    BY <1>2, UnitIdle, UnitExact
  <2> QED
    BY <2>1, <2>2 DEF UnitInv
<1> QED
  BY <1>1, <1>2 DEF UnitNext

(* The registers are what the comments of the loop say after every step,   *)
(* for every word size: the partial product or the partial quotient and    *)
(* remainder, with no bit lost at the top (lib/muldiv_iterative.sv:71-83). *)
THEOREM MulDivExact == UnitSpec => []IterationExact
<1>1. UnitInv => IterationExact
  BY DEF UnitInv
<1> QED
  BY <1>1, UnitInvInit, UnitInvStep, PTL DEF UnitSpec

(* What waits at the unit is one of the instructions its user has.         *)
OfferedIsRequest == offered \in Requests \cup {Empty}

(* It is so when the unit starts and after every edge.                     *)
LEMMA OfferedStays ==
  /\ UnitInit => OfferedIsRequest
  /\ OfferedIsRequest /\ [UnitNext]_unitVars => OfferedIsRequest'
BY FollowingAssumption DEF OfferedIsRequest, UnitInit, UnitNext, Edge, unitVars

(* For every word size the unit keeps the promise of its port, edge by     *)
(* edge with the same flush, instruction and out_ready: what it accepts it *)
(* answers once, with the value the reference arithmetic gives and the     *)
(* accepted destination, and holds the answer until it is taken; it        *)
(* forgets on a flush, and then only (lib/muldiv_iterative.sv:39-94).      *)
THEOREM MulDivImplementsPort == UnitSpec => PortImplemented /\ Port!PortSpec
<1>1. UnitInit => Port!PortInit
  BY DEF UnitInit, MdInit, MdReset, Port!PortInit
<1>2. UnitInv => EdgeImplemented
  BY MulDivEdgeIsPortStep DEF EdgeImplemented
<1>3. UnitInv /\ [UnitNext]_unitVars => [EdgeImplemented]_unitVars
  BY <1>2
<1>4. UnitInv /\ OfferedIsRequest /\ [UnitNext]_unitVars => [Port!PortNext]_<<Working, md.out>>
  <2> SUFFICES ASSUME UnitInv, OfferedIsRequest, [UnitNext]_unitVars
               PROVE  [Port!PortNext]_<<Working, md.out>>
    OBVIOUS
  <2>1. CASE UNCHANGED unitVars
    BY <2>1 DEF unitVars, Working
  <2>2. ASSUME NEW flush \in BOOLEAN, NEW out_ready \in BOOLEAN, Edge(flush, out_ready)
        PROVE  Port!PortNext
    <3>1. Port!Step(flush, offered, out_ready)
      BY <2>2, MulDivEdgeIsPortStep
    <3> QED
      BY <3>1 DEF Port!PortNext, OfferedIsRequest
  <2> QED
    BY <2>1, <2>2 DEF UnitNext
<1> QED
  BY <1>1, <1>3, <1>4, UnitInvInit, UnitInvStep, OfferedStays, PTL
  DEF UnitSpec, PortImplemented, Port!PortSpec, Working
=============================================================================
