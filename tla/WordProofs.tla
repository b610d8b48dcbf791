----------------------------- MODULE WordProofs -----------------------------
(***************************************************************************)
(* Lemmas about machine words and about choosing the least: what the units *)
(* that compute return, for every word size.                               *)
(***************************************************************************)
EXTENDS Execution, MachineCsr, WellFoundedInduction, TLAPS

(* A set of numbers has a least one.                                       *)
LEMMA LeastNumber ==
  ASSUME NEW T \in SUBSET Nat, T # {}
  PROVE  \E x \in T : \A y \in T : x <= y
<1>1. IsWellFoundedOn(OpToRel(<, Nat), Nat)
  BY NatLessThanWellFounded
<1>2. PICK x \in T : \A y \in T : ~(<<y, x>> \in OpToRel(<, Nat))
  BY <1>1, WFMin
<1>3. \A y \in T : ~(y < x)
  BY <1>2 DEF OpToRel
<1> QED
  BY <1>3

(* A function to the naturals has a least value on a set that is not       *)
(* empty.                                                                  *)
LEMMA LeastBy ==
  ASSUME NEW S, S # {}, NEW f \in [S -> Nat]
  PROVE  \E x \in S : \A y \in S : f[x] <= f[y]
<1> DEFINE T == {f[x] : x \in S}
<1>1. T \in SUBSET Nat /\ T # {}
  OBVIOUS
<1> HIDE DEF T
<1>2. PICK n \in T : \A m \in T : n <= m
  BY <1>1, LeastNumber
<1> QED
  BY <1>2 DEF T

(* Induction up to a bound, on a set.                                      *)
LEMMA BoundedInduction ==
  ASSUME NEW n \in Nat, NEW S, 0 \in S, \A k \in 0 .. n - 1 : k \in S => k + 1 \in S
  PROVE  \A k \in 0 .. n : k \in S
<1> DEFINE T == {k \in 0 .. n : k \notin S}
<1> SUFFICES ASSUME T # {} PROVE FALSE
  OBVIOUS
<1>0. T \in SUBSET Nat
  OBVIOUS
<1>1. PICK x \in T : \A y \in T : x <= y
  <2> HIDE DEF T
  <2> QED BY <1>0, LeastNumber
<1>2. x # 0 /\ x \in 0 .. n
  OBVIOUS
<1>3. x - 1 \in 0 .. n - 1 /\ x - 1 \notin T
  BY <1>1, <1>2
<1>4. x - 1 \in S
  BY <1>3
<1>5. (x - 1) + 1 \in S
  BY <1>3, <1>4
<1> QED
  BY <1>2, <1>5

-----------------------------------------------------------------------------
(* Multiples keep the order.                                               *)
LEMMA MultipleMonotone ==
  ASSUME NEW i \in Int, NEW j \in Int, i <= j, NEW m \in Nat
  PROVE  m * i <= m * j
<1> DEFINE d == j - i
<1>1. d \in Nat /\ j = i + d
  OBVIOUS
<1> HIDE DEF d
<1>2. m * d >= 0 /\ m * j = m * i + m * d
  BY <1>1
<1> QED
  BY <1>1, <1>2

(* Quotient and remainder by a positive number: their ranges and the       *)
(* equation between them.                                                  *)
LEMMA DivMod ==
  ASSUME NEW n \in Int, NEW m \in Nat, m >= 1
  PROVE  /\ n \div m \in Int /\ n % m \in 0 .. m - 1
         /\ n = m * (n \div m) + (n % m)
         /\ n >= 0 => n \div m >= 0
  OBVIOUS

(* The equation and the range of the remainder determine quotient and      *)
(* remainder.                                                              *)
LEMMA DivModUnique ==
  ASSUME NEW n \in Int, NEW m \in Nat, m >= 1, NEW q \in Int, NEW r \in 0 .. m - 1, n = m * q + r
  PROVE  n \div m = q /\ n % m = r
<1> DEFINE p == n \div m
           s == n % m
<1>1. p \in Int /\ s \in 0 .. m - 1 /\ n = m * p + s
  BY DivMod
<1> HIDE DEF p, s
<1>2. ~(p < q)
  <2> SUFFICES ASSUME p < q PROVE FALSE
    OBVIOUS
  <2>1. m * (p + 1) <= m * q
    BY <1>1, MultipleMonotone
  <2>2. m * (p + 1) = m * p + m
    BY <1>1
  <2> QED
    BY <1>1, <2>1, <2>2
<1>3. ~(q < p)
  <2> SUFFICES ASSUME q < p PROVE FALSE
    OBVIOUS
  <2>1. m * (q + 1) <= m * p
    BY <1>1, MultipleMonotone
  <2>2. m * (q + 1) = m * q + m
    OBVIOUS
  <2> QED
    BY <1>1, <2>1, <2>2
<1>4. p = q
  BY <1>1, <1>2, <1>3
<1>5. s = r
  BY <1>1, <1>4
<1> QED
  BY <1>4, <1>5 DEF p, s

(* Powers of two, and the size of a word.                                  *)
LEMMA Powers == \A n \in 0 .. XLEN : 2 ^ n \in Nat /\ 2 ^ n >= 1
<1> DEFINE S == {n \in 0 .. XLEN : 2 ^ n \in Nat /\ 2 ^ n >= 1}
<1>1. XLEN \in Nat
  BY Tiny5Assumption
<1>2. 0 \in S
  BY <1>1, PowerAssumption
<1>3. ASSUME NEW k \in 0 .. XLEN - 1, k \in S PROVE k + 1 \in S
  BY <1>1, <1>3, PowerAssumption
<1> HIDE DEF S
<1>4. \A n \in 0 .. XLEN : n \in S
  BY <1>1, <1>2, <1>3, BoundedInduction
<1> QED
  BY <1>4 DEF S

(* The size of a word as the provers use it: a power of two, at least 16.  *)
LEMMA WordSize ==
  /\ XLEN \in Nat /\ XLEN >= 4
  /\ WordModulus \in Nat /\ WordModulus >= 16 /\ WordModulus % 4 = 0
  /\ 2 ^ (XLEN - 1) \in Nat /\ WordModulus = 2 * 2 ^ (XLEN - 1)
<1>1. XLEN \in Nat /\ XLEN >= 4
  BY Tiny5Assumption
<1> DEFINE S == {n \in 0 .. XLEN : n >= 4 => 2 ^ n \in Nat /\ 2 ^ n >= 16 /\ 2 ^ n % 4 = 0}
<1>2. 2 ^ 0 = 1 /\ \A n \in 0 .. XLEN - 1 : 2 ^ (n + 1) = 2 * 2 ^ n
  BY PowerAssumption
<1>3. 2 ^ 1 = 2
  <2>1. 2 ^ (0 + 1) = 2 * 2 ^ 0 BY <1>1, <1>2
  <2> QED BY <2>1, <1>2
<1>4. 2 ^ 2 = 4
  <2>1. 2 ^ (1 + 1) = 2 * 2 ^ 1 BY <1>1, <1>2
  <2> QED BY <2>1, <1>3
<1>5. 2 ^ 3 = 8
  <2>1. 2 ^ (2 + 1) = 2 * 2 ^ 2 BY <1>1, <1>2
  <2> QED BY <2>1, <1>4
<1>6. 2 ^ 4 = 16
  <2>1. 2 ^ (3 + 1) = 2 * 2 ^ 3 BY <1>1, <1>2
  <2> QED BY <2>1, <1>5
<1>7. 0 \in S
  BY <1>1
<1>8. ASSUME NEW k \in 0 .. XLEN - 1, k \in S PROVE k + 1 \in S
  <2>1. k + 1 \in 0 .. XLEN /\ 2 ^ (k + 1) = 2 * 2 ^ k
    BY <1>1, <1>2
  <2>2. CASE k < 3
    BY <1>1, <2>1, <2>2
  <2>3. CASE k = 3
    BY <1>6, <2>1, <2>3
  <2>4. CASE k >= 4
    BY <1>8, <2>1, <2>4
  <2> QED
    BY <2>2, <2>3, <2>4
<1> HIDE DEF S
<1>9. XLEN \in S
  BY <1>1, <1>7, <1>8, BoundedInduction
<1>10. WordModulus \in Nat /\ WordModulus >= 16 /\ WordModulus % 4 = 0
  BY <1>1, <1>9 DEF S, WordModulus
<1>11. 2 ^ (XLEN - 1) \in Nat
  BY <1>1, Powers
<1>12. WordModulus = 2 * 2 ^ (XLEN - 1)
  <2>1. XLEN - 1 \in 0 .. XLEN - 1 /\ (XLEN - 1) + 1 = XLEN
    BY <1>1
  <2>2. 2 ^ ((XLEN - 1) + 1) = 2 * 2 ^ (XLEN - 1)
    BY <1>2, <2>1
  <2> QED
    BY <2>1, <2>2 DEF WordModulus
<1> QED
  BY <1>1, <1>10, <1>11, <1>12
-----------------------------------------------------------------------------
(* A word put together bit by bit.                                         *)
LEMMA BitsMakeWord == ASSUME NEW bit PROVE WordOfBits(bit) \in Word
<1> DEFINE part(n) == IF bit[n] THEN 2 ^ n ELSE 0
           Sums(f, m) == f = [n \in 0 .. m |-> IF n = 0 THEN 0 ELSE f[n - 1] + part(n - 1)]
           low == CHOOSE f : Sums(f, XLEN)
<1>1. XLEN \in Nat /\ \A n \in 0 .. XLEN : 2 ^ n \in Nat /\ 2 ^ n >= 1
  BY WordSize, Powers
<1>2. WordOfBits(bit) = low[XLEN]
  BY DEF WordOfBits
<1>3. \A n \in 0 .. XLEN - 1 : part(n) \in 0 .. 2 ^ n
  BY <1>1
<1>4. \E f : Sums(f, XLEN)
  <2> DEFINE S == {m \in 0 .. XLEN : \E f : Sums(f, m)}
  <2>1. 0 \in S
    <3>1. Sums([n \in 0 .. 0 |-> 0], 0)
      OBVIOUS
    <3> HIDE DEF Sums
    <3> QED
      BY <1>1, <3>1
  <2>2. ASSUME NEW k \in 0 .. XLEN - 1, k \in S PROVE k + 1 \in S
    <3> HIDE DEF part
    <3>1. PICK f : Sums(f, k)
      BY <2>2
    <3> DEFINE g == [n \in 0 .. k + 1 |-> IF n = 0 THEN 0 ELSE f[n - 1] + part(n - 1)]
    <3>2. \A n \in 0 .. k : g[n] = f[n]
      BY <1>1, <3>1
    <3>3. Sums(g, k + 1)
      <4>1. \A n \in 0 .. k + 1 : n # 0 => n - 1 \in 0 .. k
        BY <1>1
      <4>2. \A n \in 0 .. k + 1 : g[n] = IF n = 0 THEN 0 ELSE g[n - 1] + part(n - 1)
        BY <3>2, <4>1
      <4>3. g = [n \in 0 .. k + 1 |-> g[n]]
        OBVIOUS
      <4> HIDE DEF g
      <4> QED
        BY <4>2, <4>3
    <3> HIDE DEF Sums, g
    <3> QED
      BY <1>1, <3>3
  <2> HIDE DEF S
  <2>3. XLEN \in S
    BY <1>1, <2>1, <2>2, BoundedInduction
  <2> QED
    BY <2>3 DEF S
<1> HIDE DEF part
<1>5. Sums(low, XLEN)
  <2> HIDE DEF Sums
  <2> QED
    BY <1>4
<1>6. \A n \in 0 .. XLEN : low[n] = IF n = 0 THEN 0 ELSE low[n - 1] + part(n - 1)
  <2> HIDE DEF low
  <2> QED
    BY <1>5
<1> HIDE DEF low
<1> DEFINE S == {n \in 0 .. XLEN : low[n] \in 0 .. 2 ^ n - 1}
<1>7. 0 \in S
  BY <1>1, <1>6, PowerAssumption
<1>8. ASSUME NEW k \in 0 .. XLEN - 1, k \in S PROVE k + 1 \in S
  <2>1. 2 ^ (k + 1) = 2 * 2 ^ k /\ 2 ^ k \in Nat
    BY PowerAssumption
  <2>2. low[k + 1] = low[k] + part(k)
    BY <1>1, <1>6
  <2>3. low[k] \in 0 .. 2 ^ k - 1 /\ part(k) \in 0 .. 2 ^ k
    BY <1>3, <1>8
  <2> QED
    BY <1>1, <2>1, <2>2, <2>3
<1> HIDE DEF S
<1>9. XLEN \in S
  BY <1>1, <1>7, <1>8, BoundedInduction
<1> QED
  BY <1>2, <1>9 DEF S, Word, WordModulus
-----------------------------------------------------------------------------
(* Division and remainder stay within the word.                            *)
LEMMA QuotientWithin ==
  ASSUME NEW a \in Nat, NEW n \in Nat, n >= 1
  PROVE  a \div n \in 0 .. a
  OBVIOUS

(* A number reduced to a word's bits is a word, as after every adder.      *)
LEMMA Modulo ==
  ASSUME NEW i \in Int
  PROVE  i % WordModulus \in Word
  BY WordSize DEF Word

(* A word read as a two's complement number is an integer ($signed).       *)
LEMMA SignedType ==
  ASSUME NEW a \in Word
  PROVE  Signed(a) \in Int
  BY WordSize DEF Signed, Word

(* The ALU and the branch comparator return words and truth values.        *)
LEMMA IntegerValueType ==
  ASSUME NEW op, NEW a \in Word, NEW b \in Word
  PROVE  IntegerValue(op, a, b) \in Word
<1>1. a \in Int /\ a \in Nat /\ b \in Int /\ 0 \in Word /\ 1 \in Word
  BY WordSize DEF Word
<1> DEFINE n == 2 ^ ShiftAmount(b)
<1>2. n \in Nat /\ n >= 1
  <2>1. ShiftAmount(b) \in 0 .. XLEN
    BY <1>1, WordSize DEF ShiftAmount
  <2> QED
    BY <2>1, Powers
<1>3. (a + b) % WordModulus \in Word /\ (a - b) % WordModulus \in Word
  BY <1>1, Modulo
<1> HIDE DEF n
<1>4. (a * n) % WordModulus \in Word
  BY <1>1, <1>2, Modulo
<1>5. a \div n \in Word
  <2>1. a \div n \in 0 .. a
    BY <1>1, <1>2, QuotientWithin
  <2> QED
    BY <2>1, WordSize DEF Word
<1>6. (Signed(a) \div n) % WordModulus \in Word
  <2>1. Signed(a) \div n \in Int
    BY <1>2, SignedType
  <2> QED
    BY <2>1, Modulo
<1>7. \A p : BoolWord(p) \in Word
  BY <1>1 DEF BoolWord
<1>8. \A bit : WordOfBits(bit) \in Word
  BY BitsMakeWord
<1> QED
  BY <1>1, <1>3, <1>4, <1>5, <1>6, <1>7, <1>8 DEF IntegerValue, Sra, n
(* The branch comparator gives a truth value (lib/integer_alu.sv:25-30).   *)
LEMMA BranchTakenType ==
  ASSUME NEW op, is_branch(op), NEW a \in Word, NEW b \in Word
  PROVE  BranchTaken(op, a, b) \in BOOLEAN
<1>1. Signed(a) \in Int /\ Signed(b) \in Int /\ a \in Int /\ b \in Int
  BY SignedType DEF Word
<1> DEFINE i == Signed(a)
           j == Signed(b)
<1> HIDE DEF i, j
<1>2. (i < j) \in BOOLEAN /\ (i >= j) \in BOOLEAN /\ (a < b) \in BOOLEAN /\ (a >= b) \in BOOLEAN
  BY <1>1 DEF i, j
<1>3. op \in {"BEQ", "BNE", "BLT", "BGE", "BLTU", "BGEU"}
  BY DEF is_branch, BranchOps
<1>4. BranchTaken(op, a, b) = CASE op = "BEQ"  -> a = b
                                [] op = "BNE"  -> a # b
                                [] op = "BLT"  -> i < j
                                [] op = "BGE"  -> i >= j
                                [] op = "BLTU" -> a < b
                                [] op = "BGEU" -> a >= b
  BY DEF BranchTaken, i, j
<1> QED
  BY <1>2, <1>3, <1>4

(* The result of an ALU carries the destination of its instruction.        *)
LEMMA AluResultType ==
  ASSUME NEW x \in execute_t
  PROVE  AluResult(x) \in result_t /\ AluResult(x).meta = x.meta
<1> DEFINE taken == BranchTaken(x.op, x.a, x.b)
           target == (x.meta.pc + x.branch_offset) % WordModulus
           value == IF x.meta.rd = 0 THEN 0 ELSE IntegerValue(x.op, x.a, x.b)
           branch == IF ~is_branch(x.op) THEN NoBranch
                     ELSE [valid |-> TRUE, taken |-> taken, target |-> target,
                           fault |-> IF MisalignedBranch(taken, target)
                                     THEN FAULT_MISALIGNED ELSE FAULT_NONE]
<1>1. x.meta \in meta_t /\ x.meta.pc \in Word /\ x.a \in Word /\ x.b \in Word
      /\ x.branch_offset \in Word /\ 0 \in Word
  BY WordSize DEF execute_t, meta_t, Word
<1>2. target \in Word
  <2>1. x.meta.pc + x.branch_offset \in Int
    BY <1>1 DEF Word
  <2> QED
    BY <2>1, Modulo
<1>3. is_branch(x.op) => taken \in BOOLEAN
  BY <1>1, BranchTakenType
<1>4. value \in Word
  BY <1>1, IntegerValueType
<1>5. AluResult(x) = [meta |-> x.meta, value |-> value, branch |-> branch]
  BY DEF AluResult
<1> HIDE DEF taken, target, value
<1>6. branch \in branch_result_t
  BY <1>1, <1>2, <1>3 DEF branch_result_t, NoBranch
<1> HIDE DEF branch
<1> QED
  BY <1>1, <1>4, <1>5, <1>6 DEF result_t

-----------------------------------------------------------------------------
(* The multiply and divide unit.                                           *)
LEMMA HighWithin ==
  ASSUME NEW i \in Int
  PROVE  LET p == i % (WordModulus * WordModulus)
         IN p \in Nat /\ p \div WordModulus \in Word
<1> DEFINE W == WordModulus
           p == i % (W * W)
           q == p \div W
<1>1. W \in Nat /\ W >= 1
  BY WordSize
<1> HIDE DEF W
<1>2. W * W \in Nat /\ W * W >= 1
  BY <1>1
<1>3. p \in 0 .. W * W - 1
  <2> DEFINE S == W * W
  <2>1. S \in Nat /\ S >= 1
    BY <1>2
  <2> HIDE DEF S
  <2>2. i % S \in 0 .. S - 1
    BY <2>1
  <2> QED
    BY <2>2 DEF S
<1> HIDE DEF p
<1>4. q \in Nat /\ W * q <= p
  BY <1>1, <1>2, <1>3
<1> HIDE DEF q
<1>5. q < W
  <2> SUFFICES ASSUME q >= W PROVE FALSE
    BY <1>1, <1>4
  <2>1. W * q >= W * W
    BY <1>1, <1>4
  <2> QED
    BY <1>1, <1>2, <1>3, <1>4, <2>1
<1>6. p \in Nat /\ q \in 0 .. W - 1
  BY <1>1, <1>2, <1>3, <1>4, <1>5
<1> QED
  BY <1>6 DEF p, q, W, Word
(* Accepting an operation loads registers of their widths and keeps the    *)
(* output register.                                                        *)
LEMMA AcceptTypes ==
  ASSUME MdTypes, NEW x \in execute_t, is_muldiv(x.op)
  PROVE  /\ Accept(x) \in MdRegisters /\ Accept(x).busy /\ Accept(x).request = x
         /\ Accept(x).product = 0 /\ Accept(x).out = md.out
<1> DEFINE a == IF SignedA(x) THEN Negate(x.a) ELSE x.a
           b == IF SignedB(x) THEN Negate(x.b) ELSE x.b
<1>1. x.a \in Word /\ x.b \in Word /\ 0 \in Word
  BY WordSize DEF execute_t, Word
<1>2. a \in Word /\ b \in Word
  <2>1. \A v \in Word : Negate(v) \in Word
    <3>1. \A v \in Word : -v \in Int
      BY DEF Word
    <3> QED
      BY <3>1, Modulo DEF Negate
  <2> QED
    BY <1>1, <2>1
<1>3. SignedA(x) \in BOOLEAN /\ SignedB(x) \in BOOLEAN
  BY DEF SignedA, SignedB
<1>4. a \in Nat /\ b \in Nat /\ 0 \in 0 .. XLEN
  BY <1>2, WordSize DEF Word
<1> HIDE DEF a, b
<1>5. Accept(x) = [md EXCEPT !.busy = TRUE, !.request = x, !.step = 0,
                     !.negative_a = SignedA(x), !.negative_b = SignedB(x),
                     !.product = 0, !.multiplicand = a, !.multiplier = b,
                     !.quotient = a, !.divisor = b, !.remainder = 0]
  BY DEF Accept, a, b
<1>6. md \in MdRegisters
  BY DEF MdTypes
<1>7. [md EXCEPT !.busy = TRUE, !.request = x, !.step = 0,
                 !.negative_a = SignedA(x), !.negative_b = SignedB(x),
                 !.product = 0, !.multiplicand = a, !.multiplier = b,
                 !.quotient = a, !.divisor = b, !.remainder = 0] \in MdRegisters
  BY <1>2, <1>3, <1>4, <1>6 DEF MdRegisters
<1>8. DOMAIN md = {"busy", "step", "request", "negative_a", "negative_b", "product", "multiplicand",
                   "multiplier", "quotient", "divisor", "remainder", "out"}
  BY <1>6 DEF MdRegisters
<1> QED
  BY <1>5, <1>7, <1>8

(* A step of the multiplication keeps the registers in their widths: no    *)
(* bit is lost at the top of the product.                                  *)
LEMMA MultiplyTypes ==
  ASSUME MdTypes, md.step < XLEN
  PROVE  LET m == MultiplyStep
         IN /\ m \in MdRegisters /\ m.busy = md.busy /\ m.request = md.request
            /\ m.product \div WordModulus \in Word /\ m.out = md.out
<1>1. md \in MdRegisters /\ md.product \div WordModulus \in Word
  BY DEF MdTypes
<1>2. /\ md.product \in Nat /\ md.multiplicand \in Nat /\ md.multiplier \in Word
      /\ md.step \in 0 .. XLEN
  BY <1>1 DEF MdRegisters
<1> DEFINE square == WordModulus * WordModulus
           sum == (md.product + md.multiplicand) % square
           product == IF md.multiplier % 2 = 1 THEN sum ELSE md.product
           doubled == (md.multiplicand * 2) % square
           halved == md.multiplier \div 2
<1>3. product \in Nat /\ product \div WordModulus \in Word
  <2>1. md.product + md.multiplicand \in Int
    BY <1>2
  <2>2. sum \in Nat /\ sum \div WordModulus \in Word
    BY <2>1, HighWithin
  <2> HIDE DEF sum
  <2> QED
    BY <1>1, <1>2, <2>2
<1>4. doubled \in Nat
  <2>1. md.multiplicand * 2 \in Int
    BY <1>2
  <2> QED
    BY <2>1, HighWithin
<1>5. halved \in Word
  BY <1>2, WordSize DEF Word
<1>6. md.step + 1 \in 0 .. XLEN
  BY <1>2, WordSize
<1>7. MultiplyStep = [md EXCEPT !.step = md.step + 1, !.product = product,
                        !.multiplicand = doubled, !.multiplier = halved]
  BY DEF MultiplyStep
<1> HIDE DEF product, doubled, halved
<1> QED
  BY <1>1, <1>3, <1>4, <1>5, <1>6, <1>7 DEF MdRegisters

(* A step of the division keeps the registers in their widths.             *)
LEMMA DivideTypes ==
  ASSUME MdTypes, md.step < XLEN
  PROVE  LET m == DivideStep
         IN /\ m \in MdRegisters /\ m.busy = md.busy /\ m.request = md.request
            /\ m.product = md.product /\ m.out = md.out
<1>1. md \in MdRegisters
  BY DEF MdTypes
<1>2. /\ md.quotient \in Word /\ md.divisor \in Word /\ md.remainder \in Nat
      /\ md.step \in 0 .. XLEN
  BY <1>1 DEF MdRegisters
<1> DEFINE trial == 2 * (md.remainder % WordModulus) + Bit(md.quotient, XLEN - 1)
           shifted == (2 * md.quotient) % WordModulus
           remainder == IF Fits(trial) THEN trial - md.divisor ELSE trial
           quotient == IF Fits(trial) THEN shifted + 1 ELSE shifted
<1>3. trial \in Nat
  <2>1. md.remainder % WordModulus \in Word
    BY <1>2, Modulo
  <2>2. Bit(md.quotient, XLEN - 1) \in 0 .. 1
    <3> DEFINE i == md.quotient \div 2 ^ (XLEN - 1)
    <3>1. i \in Int
      BY <1>2, WordSize DEF Word
    <3> HIDE DEF i
    <3>2. i % 2 \in 0 .. 1
      BY <3>1
    <3> QED
      BY <3>2 DEF Bit, i
  <2> QED
    BY <2>1, <2>2 DEF Word
<1>4. remainder \in Nat
  <2> HIDE DEF trial
  <2>1. md.divisor \in Nat
    BY <1>2 DEF Word
  <2> QED
    BY <1>3, <2>1 DEF Fits
<1>5. quotient \in Word
  <2> HIDE DEF trial
  <2> DEFINE half == 2 ^ (XLEN - 1)
  <2>1. md.quotient \in Nat /\ half \in Nat /\ WordModulus = 2 * half /\ half >= 1
    BY <1>2, WordSize DEF Word
  <2> HIDE DEF half
  <2>2. shifted \in 0 .. WordModulus - 1 /\ shifted # WordModulus - 1
    <3> DEFINE q == md.quotient
               W == WordModulus
    <3>1. q \in 0 .. W - 1 /\ W \in Nat /\ W >= 16
      BY <1>2, WordSize DEF Word
    <3> HIDE DEF q, W
    <3>2. CASE q < half
      <4>1. (2 * q) % W = 2 * q
        BY <2>1, <3>1, <3>2 DEF W
      <4> QED
        BY <2>1, <3>1, <3>2, <4>1 DEF q, W
    <3>3. CASE q >= half
      <4>1. 2 * q = W * 1 + (2 * q - W) /\ 2 * q - W \in 0 .. W - 1
        BY <2>1, <3>1, <3>3 DEF W
      <4>2. (2 * q) % W = 2 * q - W
        BY <3>1, <4>1
      <4> QED
        BY <2>1, <3>1, <3>3, <4>2 DEF q, W
    <3> QED
      BY <2>1, <3>1, <3>2, <3>3
  <2> HIDE DEF shifted
  <2> QED
    BY <2>1, <2>2 DEF Word
<1>6. md.step + 1 \in 0 .. XLEN
  BY <1>2, WordSize
<1>7. DivideStep = [md EXCEPT !.step = md.step + 1, !.remainder = remainder, !.quotient = quotient]
  BY DEF DivideStep
<1> HIDE DEF remainder, quotient
<1> QED
  BY <1>1, <1>4, <1>5, <1>6, <1>7 DEF MdRegisters

(* The value delivered at the end of an operation is a word.               *)
LEMMA FinalValueType ==
  ASSUME MdTypes, md.busy
  PROVE  final_value \in Word
<1>1. md \in MdRegisters /\ md.request \in execute_t /\ is_muldiv(md.request.op)
  BY DEF MdTypes
<1>2. /\ md.product \in Nat /\ md.quotient \in Word /\ md.remainder \in Nat
      /\ md.product \div WordModulus \in Word
      /\ md.request.a \in Word /\ md.request.b \in Word
  BY <1>1 DEF MdRegisters, execute_t, MdTypes
<1> DEFINE opposite == md.negative_a # md.negative_b
           negated == (-md.product) % (WordModulus * WordModulus)
           product == IF opposite THEN negated ELSE md.product
           quotient == IF opposite THEN Negate(md.quotient) ELSE md.quotient
           rest == md.remainder % WordModulus
           remainder == IF md.negative_a THEN Negate(rest) ELSE rest
<1>3. product \in Nat /\ product \div WordModulus \in Word
  <2>1. -md.product \in Int
    BY <1>2
  <2>2. negated \in Nat /\ negated \div WordModulus \in Word
    BY <2>1, HighWithin
  <2> HIDE DEF negated, opposite
  <2> QED
    BY <1>2, <2>2
<1>4. \A v \in Word : Negate(v) \in Word
  <2>1. \A v \in Word : -v \in Int
    BY DEF Word
  <2> QED
    BY <2>1, Modulo DEF Negate
<1>5. quotient \in Word
  BY <1>2, <1>4
<1>6. remainder \in Word
  BY <1>2, <1>4, Modulo
<1>7. 0 \in Word /\ WordModulus - 1 \in Word
  BY WordSize DEF Word
<1>8. product % WordModulus \in Word
  <2> HIDE DEF product
  <2> QED
    BY <1>3, Modulo
<1>9. final_value = CASE md.request.meta.rd = 0 -> 0
       [] md.request.meta.rd # 0 /\ md.request.op = "MUL" -> product % WordModulus
       [] md.request.meta.rd # 0 /\ md.request.op \in MulOps \ {"MUL"} -> product \div WordModulus
       [] md.request.meta.rd # 0 /\ md.request.op \in {"DIV", "DIVU"} ->
            IF md.request.b = 0 THEN WordModulus - 1 ELSE quotient
       [] md.request.meta.rd # 0 /\ md.request.op \in {"REM", "REMU"} ->
            IF md.request.b = 0 THEN md.request.a ELSE remainder
  BY DEF final_value
<1> HIDE DEF product, quotient, remainder
<1>10. md.request.op \in MulOps \/ md.request.op \in {"DIV", "DIVU"} \/ md.request.op \in {"REM", "REMU"}
  BY <1>1 DEF is_muldiv, DivOps
<1> QED
  BY <1>2, <1>3, <1>5, <1>6, <1>7, <1>8, <1>9, <1>10
(* An edge of the unit keeps its registers in range, whatever is offered.  *)
LEMMA MdStep ==
  ASSUME MdTypes, NEW x \in execute_t \cup {Empty}, x # Empty => is_muldiv(x.op),
         NEW flush, NEW out_ready, MdTick(flush, x, out_ready)
  PROVE  MdTypes'
<1>1. md \in MdRegisters /\ md.step \in 0 .. XLEN
  BY DEF MdTypes, MdRegisters
<1>2. 0 \in Word /\ 0 \in 0 .. XLEN /\ 0 \div WordModulus \in Word
  BY WordSize DEF Word
<1>3. CASE flush
  BY <1>2, <1>3 DEF MdTick, MdReset, MdTypes, MdRegisters
<1>4. CASE ~flush /\ md.busy /\ md.step = XLEN
  <2>1. md.request \in execute_t /\ final_value \in Word
    BY <1>4, FinalValueType DEF MdTypes
  <2> DEFINE r == [meta |-> md.request.meta, value |-> final_value, branch |-> NoBranch]
  <2>2. r \in result_t
    BY <1>2, <2>1 DEF result_t, execute_t, NoBranch, branch_result_t
  <2>3. md' = [md EXCEPT !.busy = FALSE, !.out = r]
    BY <1>4 DEF MdTick, MdEdge, Complete
  <2> HIDE DEF r
  <2>4. [md EXCEPT !.busy = FALSE, !.out = r] \in MdRegisters
    BY <1>1, <2>2 DEF MdRegisters
  <2>5. ~md'.busy /\ md'.product = md.product
    BY <1>1, <2>3 DEF MdRegisters
  <2> QED
    BY <2>3, <2>4, <2>5 DEF MdTypes
<1>5. CASE ~flush /\ ~(md.busy /\ md.step = XLEN)
  <2> DEFINE m == IF x # Empty /\ md_in_ready(out_ready) THEN Accept(x)
                  ELSE IF ~md.busy THEN md
                  ELSE IF md.request.op \in MulOps THEN MultiplyStep
                  ELSE DivideStep
  <2>1. /\ m \in MdRegisters /\ m.product \div WordModulus \in Word
        /\ m.busy => m.request \in execute_t /\ is_muldiv(m.request.op)
    <3>1. CASE x # Empty /\ md_in_ready(out_ready)
      <4>1. x \in execute_t /\ is_muldiv(x.op)
        BY <3>1
      <4> QED
        BY <1>2, <3>1, <4>1, AcceptTypes
    <3>2. CASE ~(x # Empty /\ md_in_ready(out_ready)) /\ ~md.busy
      BY <3>2 DEF MdTypes
    <3>3. CASE ~(x # Empty /\ md_in_ready(out_ready)) /\ md.busy
      <4>1. md.step < XLEN
        BY <1>1, <1>5, <3>3, WordSize
      <4> QED
        BY <3>3, <4>1, MultiplyTypes, DivideTypes DEF MdTypes
    <3> QED
      BY <3>1, <3>2, <3>3
  <2>2. md' = [m EXCEPT !.out = IF out_ready THEN Empty ELSE m.out]
    BY <1>5 DEF MdTick, MdEdge
  <2> HIDE DEF m
  <2> DEFINE out == IF out_ready THEN Empty ELSE m.out
  <2>3. out \in result_t \cup {Empty}
    BY <2>1 DEF MdRegisters
  <2> HIDE DEF out
  <2>4. [m EXCEPT !.out = out] \in MdRegisters
    BY <2>1, <2>3 DEF MdRegisters
  <2>5. md'.product = m.product /\ md'.busy = m.busy /\ md'.request = m.request
    BY <2>1, <2>2 DEF MdRegisters
  <2> QED
    BY <2>1, <2>2, <2>4, <2>5 DEF MdTypes, out
<1> QED
  BY <1>3, <1>4, <1>5

-----------------------------------------------------------------------------
(* The machine-mode registers.                                             *)
LEMMA HighBits ==
  ASSUME ENABLE_TRAPS
  PROVE  \A n \in 0 .. 11 : 2 ^ n \in Nat /\ 2 * 2 ^ n <= 2 ^ (XLEN - 1)
<1>1. XLEN \in Nat /\ XLEN >= 16
  BY TrapsAssumption, WordSize
<1> SUFFICES ASSUME NEW n \in 0 .. 11
             PROVE  2 ^ n \in Nat /\ 2 * 2 ^ n <= 2 ^ (XLEN - 1)
  OBVIOUS
<1> DEFINE S == {k \in 0 .. XLEN : k >= n + 1 => 2 * 2 ^ n <= 2 ^ k}
<1>2. \A k \in 0 .. XLEN - 1 : 2 ^ k \in Nat /\ 2 ^ (k + 1) = 2 * 2 ^ k
  BY PowerAssumption
<1>3. 2 ^ n \in Nat /\ 2 ^ (n + 1) = 2 * 2 ^ n
  BY <1>1, <1>2
<1>4. 0 \in S
  BY <1>1
<1>5. ASSUME NEW k \in 0 .. XLEN - 1, k \in S PROVE k + 1 \in S
  <2>1. 2 ^ k \in Nat /\ 2 ^ (k + 1) = 2 * 2 ^ k
    BY <1>2
  <2>2. CASE k = n
    BY <1>1, <1>3, <2>2
  <2>3. CASE k # n
    BY <1>1, <1>3, <1>5, <2>1, <2>3
  <2> QED
    BY <2>2, <2>3
<1> HIDE DEF S
<1>6. XLEN - 1 \in S
  BY <1>1, <1>4, <1>5, BoundedInduction
<1> QED
  BY <1>1, <1>3, <1>6 DEF S

(* The cause of an external interrupt fits a word where traps exist.       *)
LEMMA InterruptCause == ENABLE_TRAPS => CAUSE_EXTERNAL \in Word
<1> SUFFICES ASSUME ENABLE_TRAPS PROVE CAUSE_EXTERNAL \in Word
  OBVIOUS
<1>1. XLEN \in Nat /\ XLEN >= 16
  BY TrapsAssumption, WordSize
<1>2. 2 ^ 0 = 1 /\ \A n \in 0 .. XLEN - 1 : 2 ^ (n + 1) = 2 * 2 ^ n
  BY PowerAssumption
<1>3. 2 ^ (0 + 1) = 2 * 2 ^ 0 /\ 2 ^ (1 + 1) = 2 * 2 ^ 1 /\ 2 ^ (2 + 1) = 2 * 2 ^ 2
  BY <1>1, <1>2
<1>4. 2 ^ 1 = 2
  BY <1>2, <1>3
<1>5. 2 ^ 2 = 4
  BY <1>3, <1>4
<1>6. 2 ^ 3 = 8
  BY <1>3, <1>5
<1>7. 16 <= 2 ^ (XLEN - 1)
  BY <1>6, HighBits
<1> QED
  BY <1>7, WordSize DEF CAUSE_EXTERNAL, Word

(* Reading a CSR yields a word, for every address.                         *)
LEMMA CsrReadType ==
  ASSUME ENABLE_TRAPS, csr \in CsrRegisters, NEW address, NEW line
  PROVE  csr_read(address, line) \in Word
<1>1. 0 \in Word
  BY WordSize DEF Word
<1>2. ASSUME NEW p, NEW n \in 0 .. 11 PROVE Flag(p, n) \in Word
  <2>1. 2 ^ n \in Nat /\ 2 * 2 ^ n <= 2 ^ (XLEN - 1)
    BY HighBits
  <2>2. 2 ^ n < WordModulus
    BY <2>1, WordSize
  <2> QED
    BY <1>1, <2>1, <2>2, WordSize DEF Flag, Word
<1>3. (6144 + Flag(csr.mpie, 7) + Flag(csr.mie, 3)) % WordModulus \in Word
  <2>1. 6144 + Flag(csr.mpie, 7) + Flag(csr.mie, 3) \in Int
    BY <1>2 DEF Word
  <2> QED
    BY <2>1, Modulo
<1>4. RV32IM_MISA \in Word
  BY Modulo DEF RV32IM_MISA
<1>5. Flag(csr.meie, 11) \in Word /\ Flag(line, 11) \in Word
  BY <1>2
<1> QED
  BY <1>1, <1>3, <1>4, <1>5 DEF csr_read, CsrRegisters

(* The value a CSR instruction writes is a word.                           *)
LEMMA CsrValueType ==
  ASSUME ENABLE_TRAPS, csr \in CsrRegisters, NEW i, i.rs1 \in Word, NEW source \in Word, NEW line
  PROVE  csr_new_value(i, csr_read(i.csr, line), csr_operand(i, source)) \in Word
<1> DEFINE old == csr_read(i.csr, line)
           operand == csr_operand(i, source)
<1>1. old \in Word
  BY CsrReadType
<1>2. operand \in Word
  BY DEF csr_operand
<1> HIDE DEF old, operand
<1>3. WordModulus - 1 - operand \in Word
  BY <1>2, WordSize DEF Word
<1>4. /\ IntegerValue("OR", old, operand) \in Word
      /\ IntegerValue("AND", old, WordModulus - 1 - operand) \in Word
  BY <1>1, <1>2, <1>3, IntegerValueType
<1>5. csr_new_value(i, old, operand) \in Word
  BY <1>1, <1>2, <1>4 DEF csr_new_value
<1> QED
  BY <1>5 DEF old, operand

(* The CSR file stays in its type through traps, MRET and CSR writes       *)
(* (lib/machine_csr.sv:54-88).                                             *)
LEMMA CsrStep ==
  ASSUME csr \in CsrRegisters, NEW trap, NEW mret, NEW commit, NEW i, NEW source, NEW line,
         trap.valid => trap.pc \in Word /\ trap.cause \in Word /\ trap.tval \in Word,
         commit => ENABLE_TRAPS /\ i.rs1 \in Word /\ source \in Word,
         CsrTick(trap, mret, commit, i, source, line)
  PROVE  csr' \in CsrRegisters
<1>1. \A v \in Word : Aligned(v) \in Word
  BY WordSize DEF Aligned, Word
<1>2. CASE trap.valid
  <2>1. csr' = [csr EXCEPT !.mpie = csr.mie, !.mie = FALSE, !.mepc = trap.pc,
                           !.mcause = trap.cause, !.mtval = trap.tval]
    BY <1>2 DEF CsrTick
  <2>2. [csr EXCEPT !.mpie = csr.mie, !.mie = FALSE, !.mepc = trap.pc,
                    !.mcause = trap.cause, !.mtval = trap.tval] \in CsrRegisters
    BY <1>2 DEF CsrRegisters
  <2> QED
    BY <2>1, <2>2
<1>3. CASE ~trap.valid /\ mret
  <2>1. csr' = [csr EXCEPT !.mie = csr.mpie, !.mpie = TRUE]
    BY <1>3 DEF CsrTick
  <2>2. [csr EXCEPT !.mie = csr.mpie, !.mpie = TRUE] \in CsrRegisters
    BY DEF CsrRegisters
  <2> QED
    BY <2>1, <2>2
<1>4. CASE ~trap.valid /\ ~mret /\ commit /\ csr_written(i)
  <2> DEFINE v == csr_new_value(i, csr_read(i.csr, line), csr_operand(i, source))
  <2>1. csr' = WrittenCsr(i.csr, v)
    BY <1>4 DEF CsrTick
  <2>2. v \in Word
    BY <1>4, CsrValueType
  <2> HIDE DEF v
  <2>3. Aligned(v) \in Word
    BY <1>1, <2>2
  <2> DEFINE w == Aligned(v)
             p == Bit(v, 3) = 1
             q == Bit(v, 7) = 1
             r == Bit(v, 11) = 1
  <2>4. /\ [csr EXCEPT !.mie = p, !.mpie = q] \in CsrRegisters
        /\ [csr EXCEPT !.meie = r] \in CsrRegisters
    <3> HIDE DEF p, q, r
    <3>1. p \in BOOLEAN /\ q \in BOOLEAN /\ r \in BOOLEAN
      BY DEF p, q, r
    <3> QED
      BY <3>1 DEF CsrRegisters
  <2>5. /\ [csr EXCEPT !.mtvec = w] \in CsrRegisters /\ [csr EXCEPT !.mepc = w] \in CsrRegisters
        /\ [csr EXCEPT !.mscratch = v] \in CsrRegisters /\ [csr EXCEPT !.mcause = v] \in CsrRegisters
        /\ [csr EXCEPT !.mtval = v] \in CsrRegisters
    <3> HIDE DEF w
    <3> QED
      BY <2>2, <2>3 DEF CsrRegisters, w
  <2> QED
    BY <2>1, <2>4, <2>5 DEF WrittenCsr
<1>5. CASE ~trap.valid /\ ~mret /\ ~(commit /\ csr_written(i))
  BY <1>5 DEF CsrTick
<1> QED
  BY <1>2, <1>3, <1>4, <1>5
=============================================================================
