----------------------------- MODULE IsaProofs -----------------------------
(***************************************************************************)
(* The theorems about module Isa: the M extension for every register width *)
(* and every pair of operands, the compressed instructions for every       *)
(* 16-bit word, and what the decoder makes of every 32-bit word: all of    *)
(* its bits count, and its immediate is the one of the format.             *)
(***************************************************************************)
EXTENDS Isa, TLAPS
-----------------------------------------------------------------------------
(* Arithmetic modulo Size.                                                  *)

\* A register holds Size = 2 * Half values, at least two.
LEMMA SizeFacts == Half \in Int /\ Half >= 1 /\ Size \in Nat \ {0} /\ Size = 2 * Half
  BY HalfAssumption DEF Size

\* Quotient and remainder of the division that rounds down, and that they are the only ones.
LEMMA DivMod ==
    ASSUME NEW n \in Int, NEW m \in Nat \ {0}
    PROVE  /\ n \div m \in Int
           /\ n % m \in 0 .. m - 1
           /\ n = m * (n \div m) + (n % m)
  OBVIOUS

\* A decomposition with a remainder below the divisor is the one \div and % compute.
LEMMA DivModUnique ==
    ASSUME NEW m \in Nat \ {0}, NEW q \in Int, NEW r \in 0 .. m - 1
    PROVE  (m * q + r) \div m = q /\ (m * q + r) % m = r
  OBVIOUS

\* The static_cast to int32_t takes off Size or nothing.
LEMMA SIntRange ==
    ASSUME NEW a \in Regs
    PROVE  /\ a \in Int
           /\ SInt(a) \in Int
           /\ -Half <= SInt(a)
           /\ SInt(a) < Half
           /\ (SInt(a) = 0) <=> (a = 0)
           /\ \E i \in {0, 1} : SInt(a) = a - i * Size
  BY SizeFacts DEF SInt, Regs

\* The cast to uint32_t gives a register value, congruent to its argument.
LEMMA UIntType ==
    ASSUME NEW n \in Int
    PROVE  UInt(n) \in Regs /\ \E k \in Int : n = Size * k + UInt(n)
<1>1. /\ n \div Size \in Int
      /\ n % Size \in 0 .. Size - 1
      /\ n = Size * (n \div Size) + (n % Size)
  BY SizeFacts, DivMod
<1>. QED  BY <1>1 DEF UInt, Regs

\* A number that an int32_t can hold survives the casts to uint32_t and back.
LEMMA RoundTrip ==
    ASSUME NEW n \in Int, -Half <= n, n < Half
    PROVE  UInt(n) \in Regs /\ SInt(UInt(n)) = n
<1>. DEFINE k == IF n < 0 THEN -1 ELSE 0
            r == n - Size * k
<1>1. k \in Int /\ r \in 0 .. Size - 1 /\ n = Size * k + r
  BY SizeFacts
<1>2. n % Size = r
  BY <1>1, SizeFacts, DivModUnique
<1>. QED  BY <1>1, <1>2, SizeFacts DEF UInt, SInt, Regs

\* The cast leaves a register value alone.
LEMMA SmallUInt ==
    ASSUME NEW n \in Regs
    PROVE  UInt(n) = n
<1>1. n \in 0 .. Size - 1 /\ n = Size * 0 + n
  BY SizeFacts DEF Regs
<1>. QED  BY <1>1, SizeFacts, DivModUnique DEF UInt

\* The upper half of a product that fits into a signed host word of twice the width.
LEMMA SignedHigh ==
    ASSUME NEW p \in Int, -(Half * Size) <= p, p < Half * Size
    PROVE  High(p) \in Regs /\ p - SInt(High(p)) * Size \in Regs
<1>. DEFINE h == p \div Size
<1>1. h \in Int /\ p % Size \in 0 .. Size - 1 /\ p = Size * h + (p % Size)
  BY SizeFacts, DivMod
<1>. HIDE DEF h
<1>2. -Half <= h
  <2>1. SUFFICES ASSUME h <= -Half - 1 PROVE FALSE
    BY <1>1, SizeFacts
  <2>2. Size * h <= Size * (-Half - 1)
    BY <2>1, <1>1, SizeFacts
  <2>3. Size * (-Half - 1) = -(Half * Size) - Size
    BY SizeFacts
  <2>. QED  BY <2>2, <2>3, <1>1, SizeFacts
<1>3. h < Half
  <2>1. SUFFICES ASSUME h >= Half PROVE FALSE
    BY <1>1, SizeFacts
  <2>2. Size * h >= Size * Half
    BY <2>1, <1>1, SizeFacts
  <2>. QED  BY <2>2, <1>1, SizeFacts
<1>4. High(p) \in Regs /\ SInt(High(p)) = h
  BY <1>1, <1>2, <1>3, RoundTrip DEF High, h
<1>5. p - h * Size = p % Size
  BY <1>1, SizeFacts
<1>. QED  BY <1>1, <1>4, <1>5 DEF Regs
-----------------------------------------------------------------------------
(* The products.                                                            *)

\* MUL returns the low word of the product.
LEMMA MulExact ==
    ASSUME NEW a \in Regs, NEW b \in Regs
    PROVE  mul(a, b) \in Regs /\ (a * b - mul(a, b)) % Size = 0
<1>. DEFINE v == mul(a, b)
<1>1. PICK i \in {0, 1} : SInt(a) = a - i * Size
  BY SIntRange
<1>2. PICK j \in {0, 1} : SInt(b) = b - j * Size
  BY SIntRange
<1>3. a \in Int /\ b \in Int /\ SInt(a) * SInt(b) \in Int
  BY SIntRange
<1>4. v \in Regs /\ \E k \in Int : SInt(a) * SInt(b) = Size * k + v
  BY <1>3, UIntType DEF mul
<1>. HIDE DEF v
<1>5. PICK k \in Int : SInt(a) * SInt(b) = Size * k + v
  BY <1>4
<1>6. v \in Int
  BY <1>4, SizeFacts DEF Regs
<1>. DEFINE q == k + i * b + j * a - i * j * Size
<1>7. q \in Int
  BY <1>3, SizeFacts
<1>8. a * b - v = Size * q
  <2>1. (a - i * Size) * (b - j * Size) = a * b - Size * (i * b + j * a - i * j * Size)
    BY <1>3, SizeFacts
  <2>2. a * b - Size * (i * b + j * a - i * j * Size) = Size * k + v
    BY <1>1, <1>2, <1>5, <2>1
  <2>3. Size * (k + (i * b + j * a - i * j * Size))
          = Size * k + Size * (i * b + j * a - i * j * Size)
    BY <1>3, SizeFacts
  <2>4. q = k + (i * b + j * a - i * j * Size)
    BY <1>3, SizeFacts
  <2>. QED  BY <2>2, <2>3, <2>4, <1>3, <1>6, SizeFacts
<1>. HIDE DEF q
<1>9. Size * q = Size * q + 0 /\ 0 \in 0 .. Size - 1
  BY <1>7, SizeFacts
<1>10. (Size * q + 0) % Size = 0
  BY <1>7, <1>9, SizeFacts, DivModUnique
<1>. QED  BY <1>4, <1>8, <1>9, <1>10 DEF v

\* A product of a factor below Half and one below Bound in magnitude.
LEMMA ProductBound ==
    ASSUME NEW x \in Int, NEW y \in Int, NEW m \in Nat, -Half <= x, x < Half, -m <= y, y <= m
    PROVE  x * y \in Int /\ -(Half * m) <= x * y /\ x * y <= Half * m
<1>1. CASE x >= 0
  <2>1. x * y <= x * m /\ x * y >= -(x * m)
    BY <1>1
  <2>2. x * m <= Half * m
    BY <1>1, SizeFacts
  <2>. QED  BY <2>1, <2>2, SizeFacts
<1>2. CASE x < 0
  <2>. DEFINE z == -x
  <2>0. z \in Nat /\ z <= Half
    BY <1>2, SizeFacts
  <2>1. z * y <= z * m /\ z * y >= -(z * m)
    BY <2>0
  <2>2. z * m <= Half * m
    BY <2>0, SizeFacts
  <2>3. x * y = -(z * y)
    OBVIOUS
  <2>. QED  BY <2>0, <2>1, <2>2, <2>3, SizeFacts
<1>. QED  BY <1>1, <1>2

\* MULH returns the high word of the signed product, rounded down.
LEMMA MulhExact ==
    ASSUME NEW a \in Regs, NEW b \in Regs
    PROVE  mulh(a, b) \in Regs /\ SInt(a) * SInt(b) - SInt(mulh(a, b)) * Size \in Regs
<1>1. /\ SInt(a) \in Int /\ -Half <= SInt(a) /\ SInt(a) < Half
      /\ SInt(b) \in Int /\ -Half <= SInt(b) /\ SInt(b) <= Half
  BY SIntRange, SizeFacts
<1>. DEFINE p == SInt(a) * SInt(b)
<1>2. p \in Int /\ -(Half * Half) <= p /\ p <= Half * Half
  BY <1>1, SizeFacts, ProductBound
<1>3. Half * Half >= 1 /\ Half * Size = 2 * (Half * Half)
  BY SizeFacts
<1>. HIDE DEF p
<1>4. -(Half * Size) <= p /\ p < Half * Size
  BY <1>2, <1>3, SizeFacts
<1>5. High(p) \in Regs /\ p - SInt(High(p)) * Size \in Regs
  BY <1>2, <1>4, SignedHigh
<1>. QED  BY <1>5 DEF mulh, p

\* MULHSU returns the high word of the product of a signed and an unsigned operand.
LEMMA MulhsuExact ==
    ASSUME NEW a \in Regs, NEW b \in Regs
    PROVE  mulhsu(a, b) \in Regs /\ SInt(a) * b - SInt(mulhsu(a, b)) * Size \in Regs
<1>1. /\ SInt(a) \in Int /\ -Half <= SInt(a) /\ SInt(a) < Half
      /\ Size - 1 \in Nat /\ b \in Int /\ -(Size - 1) <= b /\ b <= Size - 1
  BY SIntRange, SizeFacts DEF Regs
<1>. DEFINE p == SInt(a) * b
<1>2. p \in Int /\ -(Half * (Size - 1)) <= p /\ p <= Half * (Size - 1)
  BY <1>1, SizeFacts, ProductBound
<1>3. Half * (Size - 1) = Half * Size - Half
  BY SizeFacts
<1>. HIDE DEF p
<1>4. -(Half * Size) <= p /\ p < Half * Size
  BY <1>2, <1>3, SizeFacts
<1>5. High(p) \in Regs /\ p - SInt(High(p)) * Size \in Regs
  BY <1>2, <1>4, SignedHigh
<1>. QED  BY <1>5 DEF mulhsu, p

\* MULHU returns the high word of the unsigned product.
LEMMA MulhuExact ==
    ASSUME NEW a \in Regs, NEW b \in Regs
    PROVE  mulhu(a, b) \in Regs /\ a * b - mulhu(a, b) * Size \in Regs
<1>. DEFINE p == a * b
            h == p \div Size
<1>1. a \in Nat /\ b \in Nat /\ a < Size /\ b < Size
  BY SizeFacts DEF Regs
<1>2. p \in Int /\ 0 <= p /\ p < Size * Size
  <2>1. a * b >= 0 /\ a * b <= a * Size
    BY <1>1, SizeFacts
  <2>2. a * Size < Size * Size
    BY <1>1, SizeFacts
  <2>. QED  BY <2>1, <2>2, <1>1, SizeFacts
<1>. HIDE DEF p
<1>3. h \in Int /\ p % Size \in 0 .. Size - 1 /\ p = Size * h + (p % Size)
  BY <1>2, SizeFacts, DivMod
<1>. HIDE DEF h
<1>4. h >= 0
  <2>1. SUFFICES ASSUME h <= -1 PROVE FALSE
    BY <1>3
  <2>2. Size * h <= Size * (-1)
    BY <2>1, <1>3, SizeFacts
  <2>. QED  BY <2>2, <1>2, <1>3, SizeFacts
<1>5. h < Size
  <2>1. SUFFICES ASSUME h >= Size PROVE FALSE
    BY <1>3, SizeFacts
  <2>2. Size * h >= Size * Size
    BY <2>1, <1>3, SizeFacts
  <2>. QED  BY <2>2, <1>2, <1>3, SizeFacts
<1>6. h \in Regs
  BY <1>3, <1>4, <1>5, SizeFacts DEF Regs
<1>7. mulhu(a, b) = h
  BY <1>6, SmallUInt DEF mulhu, High, h, p
<1>8. p - h * Size = p % Size
  BY <1>2, <1>3, SizeFacts
<1>9. p - h * Size \in Regs
  BY <1>3, <1>8 DEF Regs
<1>. QED  BY <1>6, <1>7, <1>9 DEF p
-----------------------------------------------------------------------------
(* Quotients and remainders.                                                *)

\* The unsigned division of the host.
LEMMA NatDivision ==
    ASSUME NEW x \in Nat, NEW y \in Nat \ {0}
    PROVE  /\ x \div y \in Nat /\ x \div y <= x
           /\ x % y \in Nat /\ x % y < y
           /\ x = (x \div y) * y + (x % y)
           /\ y >= 2 /\ x >= 1 => x \div y < x
<1>. DEFINE q == x \div y
            r == x % y
<1>1. q \in Int /\ r \in 0 .. y - 1 /\ x = y * q + r
  BY DivMod
<1>. HIDE DEF q, r
<1>2. q >= 0
  <2>1. SUFFICES ASSUME q <= -1 PROVE FALSE
    BY <1>1
  <2>2. y * q <= y * (-1)
    BY <2>1, <1>1
  <2>. QED  BY <2>2, <1>1
<1>3. y * q >= q
  BY <1>1, <1>2
<1>4. y >= 2 /\ q >= 1 => y * q > q
  BY <1>1
<1>5. r \in Nat /\ r < y /\ y * q = q * y
  BY <1>1
<1>6. q <= x /\ (y >= 2 /\ x >= 1 => q < x)
  BY <1>1, <1>2, <1>3, <1>4, <1>5
<1>. QED  BY <1>1, <1>2, <1>5, <1>6 DEF q, r

\* DIVU and REMU are Euclidean division when the divisor is not zero.
LEMMA DivuExact ==
    ASSUME NEW a \in Regs, NEW b \in Regs, b # 0
    PROVE  /\ divu(a, b) \in Regs /\ remu(a, b) \in Regs
           /\ a = divu(a, b) * b + remu(a, b)
           /\ AbsVal(remu(a, b)) < AbsVal(b)
           /\ remu(a, b) * a >= 0
<1>1. a \in Nat /\ b \in Nat \ {0} /\ a < Size /\ b < Size
  BY SizeFacts DEF Regs
<1>2. /\ divu(a, b) \in Nat /\ divu(a, b) <= a
      /\ remu(a, b) \in Nat /\ remu(a, b) < b
      /\ a = divu(a, b) * b + remu(a, b)
  BY <1>1, NatDivision DEF divu, remu
<1>3. remu(a, b) * a >= 0
  BY <1>1, <1>2
<1>. QED  BY <1>1, <1>2, <1>3, SizeFacts DEF Regs, AbsVal

\* The signed division of the host where it is defined: quotient and remainder fit
\* into a register and round towards zero.
LEMMA HostDivision ==
    ASSUME NEW x \in Int, NEW y \in Int, -Half <= x, x < Half, -Half <= y, y < Half, y # 0,
           ~(x = MIN /\ y = -1)
    PROVE  \E q, r \in Int :
               /\ HostDiv(x, y) = UInt(q) /\ -Half <= q /\ q < Half
               /\ HostRem(x, y) = UInt(r) /\ -Half <= r /\ r < Half
               /\ x = q * y + r /\ AbsVal(r) < AbsVal(y) /\ r * x >= 0
<1>. DEFINE X == AbsVal(x)
            Y == AbsVal(y)
            Q == X \div Y
            R == X % Y
            s == SignOf(x)
            t == SignOf(y)
<1>1. /\ X \in Nat /\ X <= Half /\ Y \in Nat \ {0} /\ Y <= Half
      /\ s \in {-1, 1} /\ t \in {-1, 1} /\ x = s * X /\ y = t * Y
      /\ s = 1 => X < Half
      /\ (s = -1 /\ X = Half) => x = MIN
      /\ (t = -1 /\ Y = 1) => y = -1
  BY SizeFacts DEF AbsVal, SignOf, MIN
<1>. HIDE DEF X, Y, s, t
<1>2. /\ Q \in Nat /\ Q <= X /\ R \in Nat /\ R < Y /\ X = Q * Y + R
      /\ Y >= 2 /\ X >= 1 => Q < X
  BY <1>1, NatDivision
<1>3. /\ HostDiv(x, y) = UInt(s * t * Q)
      /\ HostRem(x, y) = UInt(s * R)
  BY DEF HostDiv, HostRem, X, Y, s, t
<1>. HIDE DEF Q, R
<1>. DEFINE q == s * t * Q
            r == s * R
<1>4. /\ q \in Int /\ r \in Int
      /\ q = Q \/ q = -Q
      /\ r = R \/ r = -R
  BY <1>1, <1>2
<1>5. -Half <= q /\ q < Half
  <2>1. Q <= Half
    BY <1>1, <1>2, SizeFacts
  <2>2. SUFFICES ASSUME Q = Half, q = Q PROVE FALSE
    BY <2>1, <1>2, <1>4, SizeFacts
  <2>3. X = Half /\ Y = 1
    BY <2>1, <2>2, <1>1, <1>2, SizeFacts
  <2>4. s = -1
    BY <2>3, <1>1
  <2>5. t = -1
    BY <2>2, <2>4, <1>1, <1>2, SizeFacts
  <2>. QED  BY <2>3, <2>4, <2>5, <1>1
<1>6. -Half <= r /\ r < Half
  BY <1>1, <1>2, <1>4, SizeFacts
<1>7. x = q * y + r
  <2>1. s * t * Q * (t * Y) = s * (Q * Y)
    BY <1>1, <1>2
  <2>2. s * (Q * Y + R) = s * (Q * Y) + s * R
    BY <1>1, <1>2
  <2>3. q * y = s * (Q * Y)
    BY <2>1, <1>1
  <2>. QED  BY <2>2, <2>3, <1>1, <1>2
<1>8. AbsVal(r) = R
  BY <1>2, <1>4 DEF AbsVal
<1>9. r * x >= 0
  <2>1. (s * R) * (s * X) = R * X
    BY <1>1, <1>2
  <2>2. R * X >= 0
    BY <1>1, <1>2
  <2>. QED  BY <2>1, <2>2, <1>1
<1>10. AbsVal(r) < AbsVal(y)
  BY <1>2, <1>8 DEF Y
<1>. QED  BY <1>3, <1>4, <1>5, <1>6, <1>7, <1>9, <1>10

\* DIV and REM truncate towards zero, outside division by zero and MIN / -1.
LEMMA DivRemExact ==
    ASSUME NEW a \in Regs, NEW b \in Regs, b # 0, ~(SInt(a) = MIN /\ SInt(b) = -1)
    PROVE  /\ div(a, b) \in Regs /\ rem(a, b) \in Regs
           /\ SInt(a) = SInt(div(a, b)) * SInt(b) + SInt(rem(a, b))
           /\ AbsVal(SInt(rem(a, b))) < AbsVal(SInt(b))
           /\ SInt(rem(a, b)) * SInt(a) >= 0
<1>1. /\ SInt(a) \in Int /\ -Half <= SInt(a) /\ SInt(a) < Half
      /\ SInt(b) \in Int /\ -Half <= SInt(b) /\ SInt(b) < Half /\ SInt(b) # 0
  BY SIntRange
<1>2. PICK q, r \in Int :
               /\ HostDiv(SInt(a), SInt(b)) = UInt(q) /\ -Half <= q /\ q < Half
               /\ HostRem(SInt(a), SInt(b)) = UInt(r) /\ -Half <= r /\ r < Half
               /\ SInt(a) = q * SInt(b) + r
               /\ AbsVal(r) < AbsVal(SInt(b)) /\ r * SInt(a) >= 0
  BY <1>1, HostDivision
<1>3. div(a, b) = UInt(q) /\ rem(a, b) = UInt(r)
  BY <1>1, <1>2 DEF div, rem
<1>4. UInt(q) \in Regs /\ SInt(UInt(q)) = q /\ UInt(r) \in Regs /\ SInt(UInt(r)) = r
  BY <1>2, RoundTrip
<1>. QED  BY <1>2, <1>3, <1>4

\* The operands for which the host's division is not asked.
LEMMA DivRemSpecial ==
    ASSUME NEW a \in Regs, NEW b \in Regs
    PROVE  /\ b = 0 => /\ div(a, b) = Size - 1 /\ Size - 1 \in Regs /\ SInt(Size - 1) = -1
                       /\ divu(a, b) = Size - 1
                       /\ rem(a, b) = a /\ remu(a, b) = a
           /\ (SInt(a) = MIN /\ SInt(b) = -1) =>
                  /\ div(a, b) \in Regs /\ SInt(div(a, b)) = MIN
                  /\ rem(a, b) = 0 /\ 0 \in Regs /\ SInt(0) = 0
<1>1. SInt(b) = 0 <=> b = 0
  BY SIntRange
<1>2. Size - 1 \in Regs /\ SInt(Size - 1) = -1 /\ 0 \in Regs /\ SInt(0) = 0
  BY SizeFacts DEF Regs, SInt
<1>3. MIN \in Int /\ -Half <= MIN /\ MIN < Half
  BY SizeFacts DEF MIN
<1>4. UInt(MIN) \in Regs /\ SInt(UInt(MIN)) = MIN
  BY <1>3, RoundTrip
<1>. QED  BY <1>1, <1>2, <1>4 DEF div, rem, divu, remu
-----------------------------------------------------------------------------
(* The specification: the word of a turn, what it was decoded to, and the   *)
(* operands of an M instruction.                                            *)

MulDiv == {"MUL", "MULH", "MULHSU", "MULHU", "DIV", "DIVU", "REM", "REMU"}

\* The funct3 table of the M extension names only its eight instructions.
LEMMA MulDivNames == {t[2] : t \in MulDivTypes} \subseteq MulDiv
  BY DEF MulDivTypes, Table, MulDiv

\* d and result between two turns and within one.
IsaInv ==
    /\ raw \in ShortWords \cup LongWords
    /\ fetched => d = decode(raw)
    /\ ~fetched => raw = {} /\ d.type = "ILLEGAL" /\ result = None
    /\ result # None =>
           \E a, b \in Regs : result = <<a, b, Value(d.type, a, b)>> /\ d.type \in MulDiv

\* The inductive invariant below the four theorems holds in every behaviour.
LEMMA IsaInvariant == Spec => []IsaInv
<1>1. Init => IsaInv
  <2>1. {} \in ShortWords
    BY DEF ShortWords
  <2>. QED  BY <2>1 DEF Init, IsaInv, Blank
<1>2. IsaInv /\ [Next]_vars => IsaInv'
  <2>. SUFFICES ASSUME IsaInv, [Next]_vars PROVE IsaInv'
    OBVIOUS
  <2>1. CASE Fetch
    BY <2>1 DEF Fetch, IsaInv
  <2>2. CASE Execute
    BY <2>2, MulDivNames DEF Execute, IsaInv, MulDiv
  <2>3. CASE EndTurn
    BY <2>3 DEF EndTurn, IsaInv, Blank, ShortWords
  <2>4. CASE UNCHANGED vars
    BY <2>4 DEF IsaInv, vars
  <2>. QED  BY <2>1, <2>2, <2>3, <2>4 DEF Next
<1>. QED  BY <1>1, <1>2, PTL DEF Spec

\* The results of rv32m.cpp, put together.
LEMMA ResultExact ==
    ASSUME IsaInv
    PROVE  MulDivExact
<1>. SUFFICES ASSUME result # None PROVE MulDivExact
  BY DEF MulDivExact
<1>1. PICK a, b \in Regs : result = <<a, b, Value(d.type, a, b)>> /\ d.type \in MulDiv
  BY DEF IsaInv
<1>. DEFINE v == Value(d.type, a, b)
<1>2. result[1] = a /\ result[2] = b /\ result[3] = v
  BY <1>1
<1>3. CASE d.type = "MUL"
  <2>1. v = mul(a, b)
    BY <1>3 DEF Value
  <2>. QED  BY <1>2, <1>3, <2>1, MulExact DEF MulDivExact
<1>4. CASE d.type = "MULH"
  <2>1. v = mulh(a, b)
    BY <1>4 DEF Value
  <2>. QED  BY <1>2, <1>4, <2>1, MulhExact DEF MulDivExact
<1>5. CASE d.type = "MULHSU"
  <2>1. v = mulhsu(a, b)
    BY <1>5 DEF Value
  <2>. QED  BY <1>2, <1>5, <2>1, MulhsuExact DEF MulDivExact
<1>6. CASE d.type = "MULHU"
  <2>1. v = mulhu(a, b)
    BY <1>6 DEF Value
  <2>. QED  BY <1>2, <1>6, <2>1, MulhuExact DEF MulDivExact
<1>7. CASE d.type = "DIV"
  <2>1. v = div(a, b)
    BY <1>7 DEF Value
  <2>2. CASE b = 0
    BY <1>2, <1>7, <2>1, <2>2, DivRemSpecial DEF MulDivExact
  <2>3. CASE b # 0 /\ SInt(a) = MIN /\ SInt(b) = -1
    BY <1>2, <1>7, <2>1, <2>3, DivRemSpecial DEF MulDivExact
  <2>4. CASE b # 0 /\ ~(SInt(a) = MIN /\ SInt(b) = -1)
    BY <1>2, <1>7, <2>1, <2>4, DivRemExact DEF MulDivExact
  <2>. QED  BY <2>2, <2>3, <2>4
<1>8. CASE d.type = "DIVU"
  <2>1. v = divu(a, b)
    BY <1>8 DEF Value
  <2>2. CASE b = 0
    BY <1>2, <1>8, <2>1, <2>2, DivRemSpecial DEF MulDivExact
  <2>3. CASE b # 0
    BY <1>2, <1>8, <2>1, <2>3, DivuExact DEF MulDivExact
  <2>. QED  BY <2>2, <2>3
<1>9. CASE d.type = "REM"
  <2>1. v = rem(a, b)
    BY <1>9 DEF Value
  <2>2. CASE b = 0
    BY <1>2, <1>9, <2>1, <2>2, DivRemSpecial DEF MulDivExact
  <2>3. CASE b # 0 /\ SInt(a) = MIN /\ SInt(b) = -1
    <3>1. v \in Regs /\ SInt(v) = 0
      BY <2>1, <2>3, DivRemSpecial
    <3>2. /\ Half \in -Size .. Size
          /\ SInt(a) = Half * SInt(b) + SInt(v)
          /\ AbsVal(SInt(v)) < AbsVal(SInt(b))
          /\ SInt(v) * SInt(a) >= 0
      BY <2>3, <3>1, SizeFacts DEF MIN, AbsVal
    <3>. QED  BY <1>2, <1>9, <2>3, <3>1, <3>2 DEF MulDivExact
  <2>4. CASE b # 0 /\ ~(SInt(a) = MIN /\ SInt(b) = -1)
    <3>. DEFINE q == SInt(div(a, b))
    <3>1. /\ v \in Regs /\ SInt(a) = q * SInt(b) + SInt(v)
          /\ AbsVal(SInt(v)) < AbsVal(SInt(b)) /\ SInt(v) * SInt(a) >= 0
      BY <2>1, <2>4, DivRemExact
    <3>2. q \in -Size .. Size
      BY <2>4, DivRemExact, SIntRange, SizeFacts
    <3>. QED  BY <1>2, <1>9, <2>4, <3>1, <3>2 DEF MulDivExact
  <2>. QED  BY <2>2, <2>3, <2>4
<1>10. CASE d.type = "REMU"
  <2>1. v = remu(a, b)
    BY <1>10 DEF Value
  <2>2. CASE b = 0
    BY <1>2, <1>10, <2>1, <2>2, DivRemSpecial DEF MulDivExact
  <2>3. CASE b # 0
    BY <1>2, <1>10, <2>1, <2>3, DivuExact DEF MulDivExact
  <2>. QED  BY <2>2, <2>3
<1>. QED  BY <1>1, <1>3, <1>4, <1>5, <1>6, <1>7, <1>8, <1>9, <1>10 DEF MulDiv

\* mul(), mulh(), mulhsu(), mulhu(), div(), divu(), rem() and remu() of rv32m.cpp are
\* exact for every weight of the sign bit, 2^31 included, and every pair of operands,
\* and none of them reaches a division that the host does not define.
THEOREM IsaMulDivExact == Spec => []MulDivExact
  BY IsaInvariant, ResultExact, PTL
-----------------------------------------------------------------------------
(* Numbers as sets of bits.                                                 *)

Weight == <<1, 2, 4, 8, 16, 32, 64, 128, 256, 512, 1024, 2048>>

\* The powers of two up to 2^11 are the weights the table lists.
LEMMA Powers ==
    ASSUME NEW b \in 0 .. 11
    PROVE  2^b = Weight[b + 1]
<1>1. CASE b = 0
  <2>1. 2^0 = 1
    OBVIOUS
  <2>2. 2^b = 2^0
    BY <1>1
  <2>. QED  BY <2>1, <2>2, <1>1 DEF Weight
<1>2. CASE b = 1
  <2>1. 2^1 = 2
    OBVIOUS
  <2>2. 2^b = 2^1
    BY <1>2
  <2>. QED  BY <2>1, <2>2, <1>2 DEF Weight
<1>3. CASE b = 2
  <2>1. 2^2 = 4
    OBVIOUS
  <2>2. 2^b = 2^2
    BY <1>3
  <2>. QED  BY <2>1, <2>2, <1>3 DEF Weight
<1>4. CASE b = 3
  <2>1. 2^3 = 8
    OBVIOUS
  <2>2. 2^b = 2^3
    BY <1>4
  <2>. QED  BY <2>1, <2>2, <1>4 DEF Weight
<1>5. CASE b = 4
  <2>1. 2^4 = 16
    OBVIOUS
  <2>2. 2^b = 2^4
    BY <1>5
  <2>. QED  BY <2>1, <2>2, <1>5 DEF Weight
<1>6. CASE b = 5
  <2>1. 2^5 = 32
    OBVIOUS
  <2>2. 2^b = 2^5
    BY <1>6
  <2>. QED  BY <2>1, <2>2, <1>6 DEF Weight
<1>7. CASE b = 6
  <2>1. 2^6 = 64
    OBVIOUS
  <2>2. 2^b = 2^6
    BY <1>7
  <2>. QED  BY <2>1, <2>2, <1>7 DEF Weight
<1>8. CASE b = 7
  <2>1. 2^7 = 128
    OBVIOUS
  <2>2. 2^b = 2^7
    BY <1>8
  <2>. QED  BY <2>1, <2>2, <1>8 DEF Weight
<1>9. CASE b = 8
  <2>1. 2^8 = 256
    OBVIOUS
  <2>2. 2^b = 2^8
    BY <1>9
  <2>. QED  BY <2>1, <2>2, <1>9 DEF Weight
<1>10. CASE b = 9
  <2>1. 2^9 = 512
    OBVIOUS
  <2>2. 2^b = 2^9
    BY <1>10
  <2>. QED  BY <2>1, <2>2, <1>10 DEF Weight
<1>11. CASE b = 10
  <2>1. 2^10 = 1024
    OBVIOUS
  <2>2. 2^b = 2^10
    BY <1>11
  <2>. QED  BY <2>1, <2>2, <1>11 DEF Weight
<1>12. CASE b = 11
  <2>1. 2^11 = 2048
    OBVIOUS
  <2>2. 2^b = 2^11
    BY <1>12
  <2>. QED  BY <2>1, <2>2, <1>12 DEF Weight
<1>. QED  BY <1>1, <1>2, <1>3, <1>4, <1>5, <1>6, <1>7, <1>8, <1>9, <1>10, <1>11, <1>12

\* Word(k) is the set of the bits 0 .. 11 that are set in k.
LEMMA WordBits ==
    ASSUME NEW k \in Nat
    PROVE  Word(k) = {b \in 0 .. 11 : (k \div Weight[b + 1]) % 2 = 1}
  BY Powers DEF Word

\* The eight 3-bit codes as sets of bits.
LEMMA Codes3 ==
    /\ Word(0) = {} /\ Word(1) = {0} /\ Word(2) = {1} /\ Word(3) = {0, 1}
    /\ Word(4) = {2} /\ Word(5) = {0, 2} /\ Word(6) = {1, 2} /\ Word(7) = {0, 1, 2}
<1>1. Word(0) = {}
  BY WordBits DEF Weight
<1>2. Word(1) = {0}
  BY WordBits DEF Weight
<1>3. Word(2) = {1}
  BY WordBits DEF Weight
<1>4. Word(3) = {0, 1}
  BY WordBits DEF Weight
<1>5. Word(4) = {2}
  BY WordBits DEF Weight
<1>6. Word(5) = {0, 2}
  BY WordBits DEF Weight
<1>7. Word(6) = {1, 2}
  BY WordBits DEF Weight
<1>8. Word(7) = {0, 1, 2}
  BY WordBits DEF Weight
<1>. QED  BY <1>1, <1>2, <1>3, <1>4, <1>5, <1>6, <1>7, <1>8

\* The opcodes of rv32_defs.h as sets of bits.
LEMMA OpcodeBits ==
    /\ OP_LUI = {0, 1, 2, 4, 5}
    /\ OP_AUIPC = {0, 1, 2, 4}
    /\ OP_JAL = {0, 1, 2, 3, 5, 6}
    /\ OP_JALR = {0, 1, 2, 5, 6}
    /\ OP_BRANCH = {0, 1, 5, 6}
    /\ OP_LOAD = {0, 1}
    /\ OP_STORE = {0, 1, 5}
    /\ OP_IMM = {0, 1, 4}
    /\ OP_REG = {0, 1, 4, 5}
    /\ OP_FENCE = {0, 1, 2, 3}
    /\ OP_SYSTEM = {0, 1, 4, 5, 6}
    /\ OP_AMO = {0, 1, 2, 3, 5}
<1>1. OP_LUI = {0, 1, 2, 4, 5}
  BY WordBits DEF Weight, OP_LUI
<1>2. OP_AUIPC = {0, 1, 2, 4}
  BY WordBits DEF Weight, OP_AUIPC
<1>3. OP_JAL = {0, 1, 2, 3, 5, 6}
  BY WordBits DEF Weight, OP_JAL
<1>4. OP_JALR = {0, 1, 2, 5, 6}
  BY WordBits DEF Weight, OP_JALR
<1>5. OP_BRANCH = {0, 1, 5, 6}
  BY WordBits DEF Weight, OP_BRANCH
<1>6. OP_LOAD = {0, 1}
  BY WordBits DEF Weight, OP_LOAD
<1>7. OP_STORE = {0, 1, 5}
  BY WordBits DEF Weight, OP_STORE
<1>8. OP_IMM = {0, 1, 4}
  BY WordBits DEF Weight, OP_IMM
<1>9. OP_REG = {0, 1, 4, 5}
  BY WordBits DEF Weight, OP_REG
<1>10. OP_FENCE = {0, 1, 2, 3}
  BY WordBits DEF Weight, OP_FENCE
<1>11. OP_SYSTEM = {0, 1, 4, 5, 6}
  BY WordBits DEF Weight, OP_SYSTEM
<1>12. OP_AMO = {0, 1, 2, 3, 5}
  BY WordBits DEF Weight, OP_AMO
<1>. QED  BY <1>1, <1>2, <1>3, <1>4, <1>5, <1>6, <1>7, <1>8, <1>9, <1>10, <1>11, <1>12

\* The opcodes that decode32 tells apart are different numbers of seven bits.
LEMMA OpcodesDiffer ==
    /\ \A op \in Opcodes : op \in SUBSET (0 .. 6) /\ {0, 1} \subseteq op
    /\ OP_LUI \notin {OP_AUIPC, OP_JAL, OP_JALR, OP_BRANCH, OP_LOAD, OP_STORE, OP_IMM, OP_REG,
            OP_FENCE, OP_SYSTEM, OP_AMO}
    /\ OP_AUIPC \notin {OP_JAL, OP_JALR, OP_BRANCH, OP_LOAD, OP_STORE, OP_IMM, OP_REG, OP_FENCE,
            OP_SYSTEM, OP_AMO}
    /\ OP_JAL \notin {OP_JALR, OP_BRANCH, OP_LOAD, OP_STORE, OP_IMM, OP_REG, OP_FENCE,
            OP_SYSTEM, OP_AMO}
    /\ OP_JALR \notin {OP_BRANCH, OP_LOAD, OP_STORE, OP_IMM, OP_REG, OP_FENCE, OP_SYSTEM, OP_AMO}
    /\ OP_BRANCH \notin {OP_LOAD, OP_STORE, OP_IMM, OP_REG, OP_FENCE, OP_SYSTEM, OP_AMO}
    /\ OP_LOAD \notin {OP_STORE, OP_IMM, OP_REG, OP_FENCE, OP_SYSTEM, OP_AMO}
    /\ OP_STORE \notin {OP_IMM, OP_REG, OP_FENCE, OP_SYSTEM, OP_AMO}
    /\ OP_IMM \notin {OP_REG, OP_FENCE, OP_SYSTEM, OP_AMO}
    /\ OP_REG \notin {OP_FENCE, OP_SYSTEM, OP_AMO}
    /\ OP_FENCE \notin {OP_SYSTEM, OP_AMO}
    /\ OP_SYSTEM \notin {OP_AMO}
<1>1. \A op \in Opcodes : op \in SUBSET (0 .. 6) /\ {0, 1} \subseteq op
  BY OpcodeBits DEF Opcodes
<1>2. OP_LUI \notin {OP_AUIPC, OP_JAL, OP_JALR, OP_BRANCH, OP_LOAD, OP_STORE, OP_IMM, OP_REG,
          OP_FENCE, OP_SYSTEM, OP_AMO}
  BY OpcodeBits
<1>3. OP_AUIPC \notin {OP_JAL, OP_JALR, OP_BRANCH, OP_LOAD, OP_STORE, OP_IMM, OP_REG, OP_FENCE,
          OP_SYSTEM, OP_AMO}
  BY OpcodeBits
<1>4. OP_JAL \notin {OP_JALR, OP_BRANCH, OP_LOAD, OP_STORE, OP_IMM, OP_REG, OP_FENCE, OP_SYSTEM,
          OP_AMO}
  BY OpcodeBits
<1>5. OP_JALR \notin {OP_BRANCH, OP_LOAD, OP_STORE, OP_IMM, OP_REG, OP_FENCE, OP_SYSTEM, OP_AMO}
  BY OpcodeBits
<1>6. OP_BRANCH \notin {OP_LOAD, OP_STORE, OP_IMM, OP_REG, OP_FENCE, OP_SYSTEM, OP_AMO}
  BY OpcodeBits
<1>7. OP_LOAD \notin {OP_STORE, OP_IMM, OP_REG, OP_FENCE, OP_SYSTEM, OP_AMO}
  BY OpcodeBits
<1>8. OP_STORE \notin {OP_IMM, OP_REG, OP_FENCE, OP_SYSTEM, OP_AMO}
  BY OpcodeBits
<1>9. OP_IMM \notin {OP_REG, OP_FENCE, OP_SYSTEM, OP_AMO}
  BY OpcodeBits
<1>10. OP_REG \notin {OP_FENCE, OP_SYSTEM, OP_AMO}
  BY OpcodeBits
<1>11. OP_FENCE \notin {OP_SYSTEM, OP_AMO}
  BY OpcodeBits
<1>12. OP_SYSTEM \notin {OP_AMO}
  BY OpcodeBits
<1>. QED  BY <1>1, <1>2, <1>3, <1>4, <1>5, <1>6, <1>7, <1>8, <1>9, <1>10, <1>11, <1>12

\* A logical right shift, bit by bit.
LEMMA ShrIn ==
    ASSUME NEW w \in SUBSET Bits, NEW n \in Nat
    PROVE  Shr(w, n) = {x \in Bits : x + n \in w}
<1>1. \A x \in Shr(w, n) : x \in Bits /\ x + n \in w
  BY DEF Shr, Bits
<1>2. ASSUME NEW x \in Bits, x + n \in w PROVE x \in Shr(w, n)
  <2>1. x + n \in {y \in w : y >= n} /\ x = (x + n) - n
    BY <1>2 DEF Bits
  <2>. QED  BY <2>1 DEF Shr
<1>. QED  BY <1>1, <1>2

\* A left shift, bit by bit; what leaves the word is lost.
LEMMA ShlIn ==
    ASSUME NEW w \in SUBSET Bits, NEW n \in Nat
    PROVE  Shl(w, n) = {x \in Bits : x - n \in w}
<1>1. \A x \in Shl(w, n) : x \in Bits /\ x - n \in w
  BY DEF Shl, Bits
<1>2. ASSUME NEW x \in Bits, x - n \in w PROVE x \in Shl(w, n)
  <2>1. x = (x - n) + n
    BY DEF Bits
  <2>. QED  BY <2>1, <1>2 DEF Shl
<1>. QED  BY <1>1, <1>2

\* An arithmetic right shift fills with the sign bit.
LEMMA AsrIn ==
    ASSUME NEW w \in SUBSET Bits, NEW n \in 0 .. 31
    PROVE  Asr(w, n) = {x \in Bits : x + n \in w \/ (31 \in w /\ x >= 32 - n)}
  BY ShrIn DEF Asr, Bits

\* Sign extension from bit s, bit by bit.
LEMMA SextIn ==
    ASSUME NEW w \in SUBSET Bits, NEW s \in Bits
    PROVE  Sext(w, s) = {x \in Bits : x \in w \/ (s \in w /\ x > s)}
<1>1. \A x : x \in s + 1 .. 31 <=> x \in Bits /\ x > s
  BY DEF Bits
<1>2. CASE s \in w
  BY <1>1, <1>2 DEF Sext
<1>3. CASE s \notin w
  BY <1>3 DEF Sext
<1>. QED  BY <1>2, <1>3
-----------------------------------------------------------------------------
(* The fields of a word, and the word of given fields.                      *)

\* Which bits of the word each field accessor returns.
LEMMA FieldsIn ==
    ASSUME NEW w \in SUBSET Bits
    PROVE  /\ opcode(w) = {x \in 0 .. 6 : x \in w}
           /\ rd(w)     = {x \in 0 .. 4 : x + 7 \in w}
           /\ funct3(w) = {x \in 0 .. 2 : x + 12 \in w}
           /\ rs1(w)    = {x \in 0 .. 4 : x + 15 \in w}
           /\ rs2(w)    = {x \in 0 .. 4 : x + 20 \in w}
           /\ funct7(w) = {x \in 0 .. 6 : x + 25 \in w}
           /\ funct5(w) = {x \in 0 .. 4 : x + 27 \in w}
           /\ funct12(w) = {x \in 0 .. 11 : x + 20 \in w}
<1>1. opcode(w) = {x \in 0 .. 6 : x \in w}
  BY DEF opcode, Bits
<1>2. rd(w) = {x \in 0 .. 4 : x + 7 \in w}
  BY ShrIn DEF rd, Bits
<1>3. funct3(w) = {x \in 0 .. 2 : x + 12 \in w}
  BY ShrIn DEF funct3, Bits
<1>4. rs1(w) = {x \in 0 .. 4 : x + 15 \in w}
  BY ShrIn DEF rs1, Bits
<1>5. rs2(w) = {x \in 0 .. 4 : x + 20 \in w}
  BY ShrIn DEF rs2, Bits
<1>6. /\ funct7(w) = {x \in 0 .. 6 : x + 25 \in w}
      /\ funct5(w) = {x \in 0 .. 4 : x + 27 \in w}
      /\ funct12(w) = {x \in 0 .. 11 : x + 20 \in w}
  BY ShrIn DEF funct7, funct5, funct12, Bits
<1>. QED  BY <1>1, <1>2, <1>3, <1>4, <1>5, <1>6

\* Which bit of the word each bit of the five immediates is.
LEMMA ImmediatesIn ==
    ASSUME NEW w \in SUBSET Bits
    PROVE  /\ imm_i(w) = {x \in Bits : IF x <= 11 THEN x + 20 \in w ELSE 31 \in w}
           /\ imm_s(w) = {x \in Bits : \/ x \in 0 .. 4 /\ x + 7 \in w
                                       \/ x \in 5 .. 11 /\ x + 20 \in w
                                       \/ x >= 12 /\ 31 \in w}
           /\ imm_b(w) = {x \in Bits : \/ x \in 1 .. 4 /\ x + 7 \in w
                                       \/ x \in 5 .. 10 /\ x + 20 \in w
                                       \/ x = 11 /\ 7 \in w
                                       \/ x >= 12 /\ 31 \in w}
           /\ imm_u(w) = {x \in Bits : x >= 12 /\ x \in w}
           /\ imm_j(w) = {x \in Bits : \/ x \in 1 .. 10 /\ x + 20 \in w
                                       \/ x = 11 /\ 20 \in w
                                       \/ x \in 12 .. 19 /\ x \in w
                                       \/ x >= 20 /\ 31 \in w}
<1>1. imm_i(w) = {x \in Bits : IF x <= 11 THEN x + 20 \in w ELSE 31 \in w}
  <2>1. imm_i(w) = {x \in Bits : x + 20 \in w \/ (31 \in w /\ x >= 12)}
    BY AsrIn DEF imm_i
  <2>2. \A x \in Bits : x + 20 \in w => x <= 11
    BY DEF Bits
  <2>. QED  BY <2>1, <2>2 DEF Bits
<1>2. imm_s(w) = {x \in Bits : \/ x \in 0 .. 4 /\ x + 7 \in w
                               \/ x \in 5 .. 11 /\ x + 20 \in w
                               \/ x >= 12 /\ 31 \in w}
  <2>1. Asr(w \cap 25 .. 31, 20) = {x \in Bits : \/ x \in 5 .. 11 /\ x + 20 \in w
                                                 \/ x >= 12 /\ 31 \in w}
    BY AsrIn DEF Bits
  <2>2. Shr(w, 7) \cap 0 .. 4 = {x \in Bits : x \in 0 .. 4 /\ x + 7 \in w}
    BY ShrIn DEF Bits
  <2>. QED  BY <2>1, <2>2 DEF imm_s
<1>3. imm_b(w) = {x \in Bits : \/ x \in 1 .. 4 /\ x + 7 \in w
                               \/ x \in 5 .. 10 /\ x + 20 \in w
                               \/ x = 11 /\ 7 \in w
                               \/ x >= 12 /\ 31 \in w}
  <2>1. Asr(w \cap {31}, 19) = {x \in Bits : 31 \in w /\ x >= 12}
    BY AsrIn DEF Bits
  <2>2. Shl(w \cap {7}, 4) = {x \in Bits : 7 \in w /\ x = 11}
    BY ShlIn DEF Bits
  <2>3. Shr(w, 20) \cap 5 .. 10 = {x \in Bits : x \in 5 .. 10 /\ x + 20 \in w}
    BY ShrIn
  <2>4. Shr(w, 7) \cap 1 .. 4 = {x \in Bits : x \in 1 .. 4 /\ x + 7 \in w}
    BY ShrIn
  <2>. QED  BY <2>1, <2>2, <2>3, <2>4 DEF imm_b
<1>4. imm_u(w) = {x \in Bits : x >= 12 /\ x \in w}
  BY DEF imm_u, Bits
<1>5. imm_j(w) = {x \in Bits : \/ x \in 1 .. 10 /\ x + 20 \in w
                               \/ x = 11 /\ 20 \in w
                               \/ x \in 12 .. 19 /\ x \in w
                               \/ x >= 20 /\ 31 \in w}
  <2>1. Asr(w \cap {31}, 11) = {x \in Bits : 31 \in w /\ x >= 20}
    BY AsrIn DEF Bits
  <2>2. Shr(w, 9) \cap {11} = {x \in Bits : 20 \in w /\ x = 11}
    BY ShrIn DEF Bits
  <2>3. Shr(w, 20) \cap 1 .. 10 = {x \in Bits : x \in 1 .. 10 /\ x + 20 \in w}
    BY ShrIn
  <2>4. w \cap 12 .. 19 = {x \in Bits : x \in 12 .. 19 /\ x \in w}
    OBVIOUS
  <2>. QED  BY <2>1, <2>2, <2>3, <2>4 DEF imm_j
<1>. QED  BY <1>1, <1>2, <1>3, <1>4, <1>5

\* The operands of the words that are put together.
Words  == SUBSET Bits
Regs5  == SUBSET (0 .. 4)
Funct7 == SUBSET (0 .. 6)
Funct3 == 0 .. 7

\* The word that expand_compressed puts together from fields: a middle field of more
\* than five bits runs into the upper one.
LEMMA FieldsWord ==
    ASSUME NEW hi \in Funct7, NEW mid \in Words, NEW r1 \in Regs5,
           NEW f3 \in Funct3, NEW lo \in Regs5, NEW op \in Opcodes
    PROVE  LET V == Fields(hi, mid, r1, f3, lo, op) IN
           /\ V \in Words /\ V # {}
           /\ opcode(V) = op /\ rd(V) = lo /\ funct3(V) = Word(f3) /\ rs1(V) = r1
           /\ rs2(V) = mid \cap 0 .. 4
           /\ funct7(V) = hi \cup {x \in 0 .. 6 : x + 5 \in mid}
           /\ hi = {} => imm_i(V) = {x \in Bits : IF x <= 11 THEN x \in mid ELSE 11 \in mid}
<1>. DEFINE V == Fields(hi, mid, r1, f3, lo, op)
<1>. USE DEF Funct7, Words, Regs5, Funct3
<1>. DEFINE c == Word(f3)
<1>1. c \in SUBSET (0 .. 2)
  BY Codes3
<1>2. op \in SUBSET (0 .. 6) /\ 0 \in op
  BY OpcodesDiffer
<1>. HIDE DEF c
<1>3. V = {x \in Bits : \/ x - 25 \in hi \/ x - 20 \in mid \/ x - 15 \in r1
                        \/ x - 12 \in c \/ x - 7 \in lo \/ x \in op}
  <2>1. /\ hi \in SUBSET Bits /\ r1 \in SUBSET Bits /\ c \in SUBSET Bits /\ lo \in SUBSET Bits
        /\ op \in SUBSET Bits
    BY <1>1, <1>2 DEF Bits
  <2>2. V = Shl(hi, 25) \cup Shl(mid, 20) \cup Shl(r1, 15) \cup Shl(c, 12) \cup Shl(lo, 7) \cup op
    BY DEF Fields, c, V
  <2>3. /\ Shl(hi, 25) = {x \in Bits : x - 25 \in hi}
        /\ Shl(mid, 20) = {x \in Bits : x - 20 \in mid}
        /\ Shl(r1, 15) = {x \in Bits : x - 15 \in r1}
        /\ Shl(c, 12) = {x \in Bits : x - 12 \in c}
        /\ Shl(lo, 7) = {x \in Bits : x - 7 \in lo}
    BY <2>1, ShlIn
  <2>. QED  BY <2>1, <2>2, <2>3
<1>. HIDE DEF V
<1>4. V \in SUBSET Bits /\ 0 \in V
  BY <1>2, <1>3 DEF Bits
<1>5. \A x \in 0 .. 6 : x \in V <=> x \in op
  BY <1>1, <1>2, <1>3 DEF Bits
<1>6. \A x \in 0 .. 4 : x + 7 \in V <=> x \in lo
  BY <1>1, <1>2, <1>3 DEF Bits
<1>7. \A x \in 0 .. 2 : x + 12 \in V <=> x \in c
  BY <1>1, <1>2, <1>3 DEF Bits
<1>8. \A x \in 0 .. 4 : x + 15 \in V <=> x \in r1
  BY <1>1, <1>2, <1>3 DEF Bits
<1>9. \A x \in 0 .. 11 : x + 20 \in V <=> (x \in mid \/ x - 5 \in hi)
  BY <1>1, <1>2, <1>3 DEF Bits
<1>0. /\ opcode(V) = {x \in 0 .. 6 : x \in V}
      /\ rd(V)     = {x \in 0 .. 4 : x + 7 \in V}
      /\ funct3(V) = {x \in 0 .. 2 : x + 12 \in V}
      /\ rs1(V)    = {x \in 0 .. 4 : x + 15 \in V}
      /\ funct7(V) = {x \in 0 .. 6 : x + 25 \in V}
  BY <1>4, FieldsIn
<1>10. opcode(V) = op
  BY <1>0, <1>2, <1>5
<1>11. rd(V) = lo
  BY <1>0, <1>6
<1>12. funct3(V) = c
  BY <1>0, <1>1, <1>7
<1>13. rs1(V) = r1
  BY <1>0, <1>8
<1>14. rs2(V) = mid \cap 0 .. 4
  BY <1>4, <1>9, FieldsIn DEF Bits
<1>15. funct7(V) = hi \cup {x \in 0 .. 6 : x + 5 \in mid}
  <2>1. \A x \in 0 .. 6 : x + 25 \in V <=> (x + 5 \in mid \/ x \in hi)
    <3>. SUFFICES ASSUME NEW x \in 0 .. 6 PROVE x + 25 \in V <=> (x + 5 \in mid \/ x \in hi)
      OBVIOUS
    <3>1. x + 5 \in 0 .. 11 /\ (x + 5) + 20 = x + 25 /\ (x + 5) - 5 = x
      OBVIOUS
    <3>. QED  BY <3>1, <1>9
  <2>. QED  BY <1>0, <2>1
<1>16. hi = {} => imm_i(V) = {x \in Bits : IF x <= 11 THEN x \in mid ELSE 11 \in mid}
  <2>1. imm_i(V) = {x \in Bits : IF x <= 11 THEN x + 20 \in V ELSE 31 \in V}
    BY <1>4, ImmediatesIn
  <2>2. hi = {} => \A x \in 0 .. 11 : x + 20 \in V <=> x \in mid
    BY <1>9
  <2>3. hi = {} => (31 \in V <=> 11 \in mid)
    BY <2>2
  <2>. QED  BY <2>1, <2>2, <2>3 DEF Bits
<1>. QED  BY <1>4, <1>10, <1>11, <1>12, <1>13, <1>14, <1>15, <1>16 DEF c, V
-----------------------------------------------------------------------------
(* decode32() on the words that expand_compressed puts together.            *)

\* The outer switch of decode32(): one format or helper for each opcode.
LEMMA DecodeByOpcode ==
    ASSUME NEW w
    PROVE  /\ opcode(w) = OP_LUI    => decode32(w) = DestImm(w, "LUI", imm_u(w))
           /\ opcode(w) = OP_AUIPC  => decode32(w) = DestImm(w, "AUIPC", imm_u(w))
           /\ opcode(w) = OP_JAL    => decode32(w) = DestImm(w, "JAL", imm_j(w))
           /\ opcode(w) = OP_JALR   => decode32(w) = FormatI(w, "JALR", imm_i(w))
           /\ opcode(w) = OP_BRANCH =>
                  decode32(w) = FormatSB(w, Pick(BranchTypes, funct3(w)), imm_b(w))
           /\ opcode(w) = OP_LOAD   =>
                  decode32(w) = FormatI(w, Pick(LoadTypes, funct3(w)), imm_i(w))
           /\ opcode(w) = OP_STORE  =>
                  decode32(w) = FormatSB(w, Pick(StoreTypes, funct3(w)), imm_s(w))
           /\ opcode(w) = OP_IMM    => decode32(w) = DecodeImm(w)
           /\ opcode(w) = OP_REG    => decode32(w) = DecodeReg(w)
           /\ opcode(w) = OP_AMO    => decode32(w) = DecodeAmo(w)
           /\ opcode(w) = OP_FENCE  =>
                  decode32(w) = [Blank EXCEPT !.type =
                                     IF funct3(w) = {0} THEN "FENCEI" ELSE "FENCE"]
           /\ opcode(w) = OP_SYSTEM => decode32(w) = DecodeSystem(w)
           /\ opcode(w) \notin Opcodes => decode32(w) = Blank
  BY OpcodesDiffer DEF decode32, Opcodes

\* The funct3 codes of ADDI and ANDI.
LEMMA PickImm == Pick(ImmTypes, {}) = "ADDI" /\ Pick(ImmTypes, {0, 1, 2}) = "ANDI"
<1>1. ImmTypes = {<<{}, "ADDI">>, <<{1}, "SLTI">>, <<{0, 1}, "SLTIU">>, <<{2}, "XORI">>,
                  <<{1, 2}, "ORI">>, <<{0, 1, 2}, "ANDI">>}
  BY Codes3, SMTT(30) DEF ImmTypes, Table
<1>2. Pick(ImmTypes, {}) = "ADDI"
  <2>1. /\ <<{}, "ADDI">> \in ImmTypes
        /\ \A t \in ImmTypes : t[1] = {} => t[2] = "ADDI"
    BY <1>1
  <2>. QED  BY <2>1 DEF Pick
<1>3. Pick(ImmTypes, {0, 1, 2}) = "ANDI"
  <2>1. /\ <<{0, 1, 2}, "ANDI">> \in ImmTypes
        /\ \A t \in ImmTypes : t[1] = {0, 1, 2} => t[2] = "ANDI"
    BY <1>1
  <2>. QED  BY <2>1 DEF Pick
<1>. QED  BY <1>2, <1>3

\* The funct3 codes of BEQ and BNE.
LEMMA PickBranch == Pick(BranchTypes, {}) = "BEQ" /\ Pick(BranchTypes, {0}) = "BNE"
<1>1. BranchTypes = {<<{}, "BEQ">>, <<{0}, "BNE">>, <<{2}, "BLT">>, <<{0, 2}, "BGE">>,
                     <<{1, 2}, "BLTU">>, <<{0, 1, 2}, "BGEU">>}
  BY Codes3, SMTT(30) DEF BranchTypes, Table
<1>2. Pick(BranchTypes, {}) = "BEQ"
  <2>1. /\ <<{}, "BEQ">> \in BranchTypes
        /\ \A t \in BranchTypes : t[1] = {} => t[2] = "BEQ"
    BY <1>1
  <2>. QED  BY <2>1 DEF Pick
<1>3. Pick(BranchTypes, {0}) = "BNE"
  <2>1. /\ <<{0}, "BNE">> \in BranchTypes
        /\ \A t \in BranchTypes : t[1] = {0} => t[2] = "BNE"
    BY <1>1
  <2>. QED  BY <2>1 DEF Pick
<1>. QED  BY <1>2, <1>3

\* The funct3 codes of LW and SW.
LEMMA PickMem == Pick(LoadTypes, {1}) = "LW" /\ Pick(StoreTypes, {1}) = "SW"
<1>1. /\ LoadTypes = {<<{}, "LB">>, <<{0}, "LH">>, <<{1}, "LW">>, <<{2}, "LBU">>, <<{0, 2},
             "LHU">>}
      /\ StoreTypes = {<<{}, "SB">>, <<{0}, "SH">>, <<{1}, "SW">>}
  BY Codes3, SMTT(30) DEF LoadTypes, StoreTypes, Table
<1>2. Pick(LoadTypes, {1}) = "LW"
  <2>1. /\ <<{1}, "LW">> \in LoadTypes
        /\ \A t \in LoadTypes : t[1] = {1} => t[2] = "LW"
    BY <1>1
  <2>. QED  BY <2>1 DEF Pick
<1>3. Pick(StoreTypes, {1}) = "SW"
  <2>1. /\ <<{1}, "SW">> \in StoreTypes
        /\ \A t \in StoreTypes : t[1] = {1} => t[2] = "SW"
    BY <1>1
  <2>. QED  BY <2>1 DEF Pick
<1>. QED  BY <1>2, <1>3

\* The funct3 codes of the register operations that compressed words expand to.
LEMMA PickReg ==
    /\ Pick(RegTypes, {}) = "ADD" /\ Pick(RegTypes, {2}) = "XOR"
    /\ Pick(RegTypes, {1, 2}) = "OR" /\ Pick(RegTypes, {0, 1, 2}) = "AND"
    /\ Pick(AltTypes, {}) = "SUB"
<1>1. RegTypes = {<<{}, "ADD">>, <<{0}, "SLL">>, <<{1}, "SLT">>, <<{0, 1}, "SLTU">>,
                  <<{2}, "XOR">>, <<{0, 2}, "SRL">>, <<{1, 2}, "OR">>, <<{0, 1, 2}, "AND">>}
  BY Codes3, SMTT(30) DEF RegTypes, Table
<1>7. AltTypes = {<<{}, "SUB">>, <<{0, 2}, "SRA">>}
  BY Codes3, SMTT(30) DEF AltTypes, Table
<1>2. Pick(RegTypes, {}) = "ADD"
  <2>1. /\ <<{}, "ADD">> \in RegTypes
        /\ \A t \in RegTypes : t[1] = {} => t[2] = "ADD"
    BY <1>1
  <2>. QED  BY <2>1 DEF Pick
<1>3. Pick(RegTypes, {2}) = "XOR"
  <2>1. /\ <<{2}, "XOR">> \in RegTypes
        /\ \A t \in RegTypes : t[1] = {2} => t[2] = "XOR"
    BY <1>1
  <2>. QED  BY <2>1 DEF Pick
<1>4. Pick(RegTypes, {1, 2}) = "OR"
  <2>1. /\ <<{1, 2}, "OR">> \in RegTypes
        /\ \A t \in RegTypes : t[1] = {1, 2} => t[2] = "OR"
    BY <1>1
  <2>. QED  BY <2>1 DEF Pick
<1>5. Pick(RegTypes, {0, 1, 2}) = "AND"
  <2>1. /\ <<{0, 1, 2}, "AND">> \in RegTypes
        /\ \A t \in RegTypes : t[1] = {0, 1, 2} => t[2] = "AND"
    BY <1>1
  <2>. QED  BY <2>1 DEF Pick
<1>6. Pick(AltTypes, {}) = "SUB"
  <2>1. /\ <<{}, "SUB">> \in AltTypes
        /\ \A t \in AltTypes : t[1] = {} => t[2] = "SUB"
    BY <1>7
  <2>. QED  BY <2>1 DEF Pick
<1>. QED  BY <1>2, <1>3, <1>4, <1>5, <1>6

\* The funct12 code of EBREAK.
LEMMA PickEbreak == Pick(PrivTypes, {0}) = "EBREAK"
<1>1. /\ Word(\h000) = {} /\ Word(\h001) = {0} /\ Word(\h002) = {1}
  BY Codes3
<1>2. Word(\h302) = {1, 8, 9}
  BY WordBits DEF Weight
<1>3. Word(\h102) = {1, 8}
  BY WordBits DEF Weight
<1>4. Word(\h105) = {0, 2, 8}
  BY WordBits DEF Weight
<1>5. PrivTypes = {<<{}, "ECALL">>, <<{0}, "EBREAK">>, <<{1, 8, 9}, "MRET">>, <<{1, 8}, "SRET">>,
                   <<{1}, "URET">>, <<{0, 2, 8}, "WFI">>}
  BY <1>1, <1>2, <1>3, <1>4, SMTT(30) DEF PrivTypes, Table
<1>6. Pick(PrivTypes, {0}) = "EBREAK"
  <2>1. /\ <<{0}, "EBREAK">> \in PrivTypes
        /\ \A t \in PrivTypes : t[1] = {0} => t[2] = "EBREAK"
    BY <1>5
  <2>. QED  BY <2>1 DEF Pick
<1>. QED  BY <1>6
-----------------------------------------------------------------------------
(* The instruction of every kind of expanded word.                          *)

\* The instruction i has this type and these operands.
Is(i, type, dest, src1, src2, imm) ==
    /\ DOMAIN i = {"type", "rd", "rs1", "rs2", "imm", "csr", "compressed"}
    /\ i.type = type /\ i.rd = dest /\ i.rs1 = src1 /\ i.rs2 = src2 /\ i.imm = imm

\* The fields each instruction format sets, the others being left blank.
LEMMA Formats ==
    ASSUME NEW w, NEW type, NEW imm
    PROVE  /\ Is(DestImm(w, type, imm), type, rd(w), {}, {}, imm)
           /\ Is(FormatI(w, type, imm), type, rd(w), rs1(w), {}, imm)
           /\ Is(FormatSB(w, type, imm), type, {}, rs1(w), rs2(w), imm)
           /\ Is(FormatR(w, type), type, rd(w), rs1(w), rs2(w), {})
           /\ Is([Blank EXCEPT !.type = type], type, {}, {}, {}, {})
           /\ Is(Blank, "ILLEGAL", {}, {}, {}, {})
<1>1. Is(DestImm(w, type, imm), type, rd(w), {}, {}, imm)
  BY DEF Is, DestImm, Blank
<1>2. Is(FormatI(w, type, imm), type, rd(w), rs1(w), {}, imm)
  BY DEF Is, DestImm, FormatI, Blank
<1>3. Is(FormatSB(w, type, imm), type, {}, rs1(w), rs2(w), imm)
  BY DEF Is, FormatSB, Blank
<1>4. Is(FormatR(w, type), type, rd(w), rs1(w), rs2(w), {})
  BY DEF Is, FormatR, Blank
<1>5. Is([Blank EXCEPT !.type = type], type, {}, {}, {}, {})
  BY DEF Is, Blank
<1>6. Is(Blank, "ILLEGAL", {}, {}, {}, {})
  BY DEF Is, Blank
<1>. QED  BY <1>1, <1>2, <1>3, <1>4, <1>5, <1>6

\* An immediate whose bits from s on are copies of its sign bit.
Extends(imm, s) == imm \in Words /\ \A x \in s .. 31 : x \in imm <=> s \in imm

\* The fields of an assembled I-type word are the ones it was assembled from.
LEMMA ImmWordFields ==
    ASSUME NEW imm, Extends(imm, 11), NEW r1 \in Regs5, NEW f3 \in Funct3,
           NEW r \in Regs5, NEW op \in Opcodes
    PROVE  LET V == ImmWord(imm, r1, f3, r, op) IN
           /\ V \in Words /\ V # {}
           /\ opcode(V) = op /\ rd(V) = r /\ funct3(V) = Word(f3) /\ rs1(V) = r1
           /\ imm_i(V) = imm
<1>. DEFINE V == ImmWord(imm, r1, f3, r, op)
<1>1. imm \in Words /\ {} \in Funct7 /\ V = Fields({}, imm, r1, f3, r, op)
  BY DEF Extends, ImmWord, Funct7
<1>2. /\ V \in Words /\ V # {}
      /\ opcode(V) = op /\ rd(V) = r /\ funct3(V) = Word(f3) /\ rs1(V) = r1
      /\ imm_i(V) = {x \in Bits : IF x <= 11 THEN x \in imm ELSE 11 \in imm}
  BY <1>1, FieldsWord
<1>3. \A x \in Bits : (IF x <= 11 THEN x \in imm ELSE 11 \in imm) <=> x \in imm
  BY DEF Extends, Bits
<1>. QED  BY <1>1, <1>2, <1>3 DEF Words

\* An assembled ADDI or ANDI decodes as itself.
LEMMA AluImmWord ==
    ASSUME NEW imm, Extends(imm, 11), NEW r1 \in Regs5, NEW r \in Regs5
    PROVE  /\ ImmWord(imm, r1, 0, r, OP_IMM) # {}
           /\ ImmWord(imm, r1, 7, r, OP_IMM) # {}
           /\ Is(decode32(ImmWord(imm, r1, 0, r, OP_IMM)), "ADDI", r, r1, {}, imm)
           /\ Is(decode32(ImmWord(imm, r1, 7, r, OP_IMM)), "ANDI", r, r1, {}, imm)
<1>0. OP_IMM \in Opcodes /\ 0 \in Funct3 /\ 7 \in Funct3
  BY DEF Opcodes, Funct3
<1>1. ASSUME NEW V, V = ImmWord(imm, r1, 0, r, OP_IMM)
      PROVE  V # {} /\ Is(decode32(V), "ADDI", r, r1, {}, imm)
  <2>1. /\ V # {} /\ opcode(V) = OP_IMM /\ rd(V) = r /\ funct3(V) = Word(0) /\ rs1(V) = r1
        /\ imm_i(V) = imm
    BY <1>0, <1>1, ImmWordFields
  <2>2. decode32(V) = DecodeImm(V) /\ funct3(V) = {}
    BY <2>1, DecodeByOpcode, Codes3
  <2>3. DecodeImm(V) = FormatI(V, "ADDI", imm)
    BY <2>1, <2>2, PickImm DEF DecodeImm
  <2>. QED  BY <2>1, <2>2, <2>3, Formats
<1>2. ASSUME NEW V, V = ImmWord(imm, r1, 7, r, OP_IMM)
      PROVE  V # {} /\ Is(decode32(V), "ANDI", r, r1, {}, imm)
  <2>1. /\ V # {} /\ opcode(V) = OP_IMM /\ rd(V) = r /\ funct3(V) = Word(7) /\ rs1(V) = r1
        /\ imm_i(V) = imm
    BY <1>0, <1>2, ImmWordFields
  <2>2. decode32(V) = DecodeImm(V) /\ funct3(V) = {0, 1, 2}
    BY <2>1, DecodeByOpcode, Codes3
  <2>3. DecodeImm(V) = FormatI(V, "ANDI", imm)
    BY <2>1, <2>2, PickImm DEF DecodeImm
  <2>. QED  BY <2>1, <2>2, <2>3, Formats
<1>. QED  BY <1>1, <1>2

\* An assembled LW decodes as itself.
LEMMA LoadWord ==
    ASSUME NEW imm, Extends(imm, 11), NEW r1 \in Regs5, NEW r \in Regs5
    PROVE  /\ ImmWord(imm, r1, 2, r, OP_LOAD) # {}
           /\ Is(decode32(ImmWord(imm, r1, 2, r, OP_LOAD)), "LW", r, r1, {}, imm)
<1>0. OP_LOAD \in Opcodes /\ 2 \in Funct3
  BY DEF Opcodes, Funct3
<1>1. ASSUME NEW V, V = ImmWord(imm, r1, 2, r, OP_LOAD)
      PROVE  V # {} /\ Is(decode32(V), "LW", r, r1, {}, imm)
  <2>1. /\ V # {} /\ opcode(V) = OP_LOAD /\ rd(V) = r /\ funct3(V) = {1} /\ rs1(V) = r1
        /\ imm_i(V) = imm
    BY <1>0, <1>1, ImmWordFields, Codes3
  <2>2. decode32(V) = FormatI(V, "LW", imm)
    BY <2>1, DecodeByOpcode, PickMem
  <2>. QED  BY <2>1, <2>2, Formats
<1>. QED  BY <1>1

\* An assembled JALR decodes as itself.
LEMMA JalrWord ==
    ASSUME NEW r1 \in Regs5, NEW r \in Regs5
    PROVE  /\ ImmWord({}, r1, 0, r, OP_JALR) # {}
           /\ Is(decode32(ImmWord({}, r1, 0, r, OP_JALR)), "JALR", r, r1, {}, {})
<1>0. OP_JALR \in Opcodes /\ 0 \in Funct3 /\ Extends({}, 11)
  BY DEF Opcodes, Extends, Words, Funct3
<1>1. ASSUME NEW V, V = ImmWord({}, r1, 0, r, OP_JALR)
      PROVE  V # {} /\ Is(decode32(V), "JALR", r, r1, {}, {})
  <2>1. /\ V # {} /\ opcode(V) = OP_JALR /\ rd(V) = r /\ rs1(V) = r1 /\ imm_i(V) = {}
    BY <1>0, <1>1, ImmWordFields
  <2>2. decode32(V) = FormatI(V, "JALR", {})
    BY <2>1, DecodeByOpcode
  <2>. QED  BY <2>1, <2>2, Formats
<1>. QED  BY <1>1

\* The assembled EBREAK decodes as itself.
LEMMA EbreakWord ==
    /\ ImmWord({0}, {}, 0, {}, OP_SYSTEM) # {}
    /\ Is(decode32(ImmWord({0}, {}, 0, {}, OP_SYSTEM)), "EBREAK", {}, {}, {}, {})
<1>0. /\ OP_SYSTEM \in Opcodes /\ 0 \in Funct3 /\ Extends({0}, 11)
      /\ {} \in Regs5 /\ {} \in Funct7 /\ {0} \in Words
  BY DEF Opcodes, Extends, Bits, Regs5, Funct7, Funct3, Words
<1>1. ASSUME NEW V, V = ImmWord({0}, {}, 0, {}, OP_SYSTEM)
      PROVE  V # {} /\ Is(decode32(V), "EBREAK", {}, {}, {}, {})
  <2>1. /\ V \in Words /\ V # {} /\ opcode(V) = OP_SYSTEM /\ funct3(V) = {} /\ imm_i(V) = {0}
    BY <1>0, <1>1, ImmWordFields, Codes3
  <2>2. funct7(V) = {}
    <3>1. V = Fields({}, {0}, {}, 0, {}, OP_SYSTEM)
      BY <1>1 DEF ImmWord
    <3>2. funct7(V) = {} \cup {x \in 0 .. 6 : x + 5 \in {0}}
      BY <1>0, <3>1, FieldsWord
    <3>. QED  BY <3>2
  <2>3. funct12(V) = {0}
    <3>1. /\ funct12(V) = {x \in 0 .. 11 : x + 20 \in V}
          /\ imm_i(V) = {x \in Bits : IF x <= 11 THEN x + 20 \in V ELSE 31 \in V}
      BY <2>1, FieldsIn, ImmediatesIn DEF Words
    <3>2. \A x \in 0 .. 11 : x \in imm_i(V) <=> x + 20 \in V
      BY <3>1 DEF Bits
    <3>. QED  BY <2>1, <3>1, <3>2
  <2>4. F7_SFENCE_VMA # {}
    BY DEF F7_SFENCE_VMA
  <2>5. DecodeSystem(V) = [Blank EXCEPT !.type = "EBREAK"]
    BY <2>1, <2>2, <2>3, <2>4, PickEbreak DEF DecodeSystem
  <2>6. Is(DecodeSystem(V), "EBREAK", {}, {}, {}, {})
    BY <2>5, Formats
  <2>. QED  BY <2>1, <2>6, DecodeByOpcode
<1>. QED  BY <1>1

\* C.SLLI, C.SRLI and C.SRAI: bit 5 of the amount makes the expanded word illegal.
LEMMA ShiftWord ==
    ASSUME NEW imm \in SUBSET (0 .. 5), NEW r \in Regs5
    PROVE  /\ Fields(F7_NORMAL, imm, r, 1, r, OP_IMM) # {}
           /\ Fields(F7_NORMAL, imm, r, 5, r, OP_IMM) # {}
           /\ Fields(F7_ALT, imm, r, 5, r, OP_IMM) # {}
           /\ IF 5 \in imm
              THEN /\ decode32(Fields(F7_NORMAL, imm, r, 1, r, OP_IMM)).type = "ILLEGAL"
                   /\ decode32(Fields(F7_NORMAL, imm, r, 5, r, OP_IMM)).type = "ILLEGAL"
                   /\ decode32(Fields(F7_ALT, imm, r, 5, r, OP_IMM)).type = "ILLEGAL"
              ELSE /\ Is(decode32(Fields(F7_NORMAL, imm, r, 1, r, OP_IMM)), "SLLI", r, r, {}, imm)
                   /\ Is(decode32(Fields(F7_NORMAL, imm, r, 5, r, OP_IMM)), "SRLI", r, r, {}, imm)
                   /\ Is(decode32(Fields(F7_ALT, imm, r, 5, r, OP_IMM)), "SRAI", r, r, {}, imm)
<1>0. /\ OP_IMM \in Opcodes /\ 1 \in Funct3 /\ 5 \in Funct3 /\ imm \in Words
      /\ {} \in Funct7 /\ {5} \in Funct7
  BY DEF Opcodes, Bits, Regs5, Funct7, Funct3, Words
<1>1. {x \in 0 .. 6 : x + 5 \in imm} = IF 5 \in imm THEN {0} ELSE {}
  OBVIOUS
<1>2. ASSUME 5 \notin imm PROVE imm \cap 0 .. 4 = imm
  <2>1. \A x \in imm : x \in 0 .. 5 /\ x # 5
    BY <1>2
  <2>2. \A x \in imm : x \in 0 .. 4
    BY <2>1
  <2>. QED  BY <2>2
<1>3. ASSUME NEW V, V = Fields(F7_NORMAL, imm, r, 1, r, OP_IMM)
      PROVE  /\ V # {}
             /\ 5 \in imm => decode32(V).type = "ILLEGAL"
             /\ 5 \notin imm => Is(decode32(V), "SLLI", r, r, {}, imm)
  <2>1. /\ V # {} /\ opcode(V) = OP_IMM /\ rd(V) = r /\ funct3(V) = {0} /\ rs1(V) = r
        /\ rs2(V) = imm \cap 0 .. 4
        /\ funct7(V) = {} \cup {x \in 0 .. 6 : x + 5 \in imm}
    BY <1>0, <1>3, FieldsWord, Codes3 DEF F7_NORMAL
  <2>2. decode32(V) = DecodeShift(V)
    BY <2>1, DecodeByOpcode DEF DecodeImm
  <2>3. CASE 5 \in imm
    <3>1. funct7(V) = {0}
      BY <2>1, <2>3, <1>1
    <3>2. DecodeShift(V) = FormatI(V, "ILLEGAL", rs2(V))
      BY <2>1, <3>1 DEF DecodeShift, F7_NORMAL, F7_ALT
    <3>. QED  BY <2>1, <2>2, <2>3, <3>2, Formats DEF Is
  <2>4. CASE 5 \notin imm
    <3>1. funct7(V) = {} /\ rs2(V) = imm
      BY <2>1, <2>4, <1>1, <1>2
    <3>2. DecodeShift(V) = FormatI(V, "SLLI", imm)
      BY <2>1, <3>1 DEF DecodeShift, F7_NORMAL, F7_ALT
    <3>3. Is(DecodeShift(V), "SLLI", rd(V), rs1(V), {}, imm)
      BY <3>2, Formats
    <3>. QED  BY <2>1, <2>2, <2>4, <3>3
  <2>. QED  BY <2>1, <2>3, <2>4
<1>4. ASSUME NEW V, V = Fields(F7_NORMAL, imm, r, 5, r, OP_IMM)
      PROVE  /\ V # {}
             /\ 5 \in imm => decode32(V).type = "ILLEGAL"
             /\ 5 \notin imm => Is(decode32(V), "SRLI", r, r, {}, imm)
  <2>1. /\ V # {} /\ opcode(V) = OP_IMM /\ rd(V) = r /\ funct3(V) = {0, 2} /\ rs1(V) = r
        /\ rs2(V) = imm \cap 0 .. 4
        /\ funct7(V) = {} \cup {x \in 0 .. 6 : x + 5 \in imm}
    BY <1>0, <1>4, FieldsWord, Codes3 DEF F7_NORMAL
  <2>2. decode32(V) = DecodeShift(V)
    BY <2>1, DecodeByOpcode DEF DecodeImm
  <2>3. CASE 5 \in imm
    <3>1. funct7(V) = {0}
      BY <2>1, <2>3, <1>1
    <3>2. DecodeShift(V) = FormatI(V, "ILLEGAL", rs2(V))
      BY <2>1, <3>1 DEF DecodeShift, F7_NORMAL, F7_ALT
    <3>. QED  BY <2>1, <2>2, <2>3, <3>2, Formats DEF Is
  <2>4. CASE 5 \notin imm
    <3>1. funct7(V) = {} /\ rs2(V) = imm
      BY <2>1, <2>4, <1>1, <1>2
    <3>2. DecodeShift(V) = FormatI(V, "SRLI", imm)
      BY <2>1, <3>1 DEF DecodeShift, F7_NORMAL, F7_ALT
    <3>3. Is(DecodeShift(V), "SRLI", rd(V), rs1(V), {}, imm)
      BY <3>2, Formats
    <3>. QED  BY <2>1, <2>2, <2>4, <3>3
  <2>. QED  BY <2>1, <2>3, <2>4
<1>5. ASSUME NEW V, V = Fields(F7_ALT, imm, r, 5, r, OP_IMM)
      PROVE  /\ V # {}
             /\ 5 \in imm => decode32(V).type = "ILLEGAL"
             /\ 5 \notin imm => Is(decode32(V), "SRAI", r, r, {}, imm)
  <2>1. /\ V # {} /\ opcode(V) = OP_IMM /\ rd(V) = r /\ funct3(V) = {0, 2} /\ rs1(V) = r
        /\ rs2(V) = imm \cap 0 .. 4
        /\ funct7(V) = {5} \cup {x \in 0 .. 6 : x + 5 \in imm}
    BY <1>0, <1>5, FieldsWord, Codes3 DEF F7_ALT
  <2>2. decode32(V) = DecodeShift(V)
    BY <2>1, DecodeByOpcode DEF DecodeImm
  <2>3. CASE 5 \in imm
    <3>1. funct7(V) = {0, 5}
      BY <2>1, <2>3, <1>1
    <3>2. DecodeShift(V) = FormatI(V, "ILLEGAL", rs2(V))
      BY <2>1, <3>1 DEF DecodeShift, F7_NORMAL, F7_ALT
    <3>. QED  BY <2>1, <2>2, <2>3, <3>2, Formats DEF Is
  <2>4. CASE 5 \notin imm
    <3>1. funct7(V) = {5} /\ rs2(V) = imm
      BY <2>1, <2>4, <1>1, <1>2
    <3>2. DecodeShift(V) = FormatI(V, "SRAI", imm)
      BY <2>1, <3>1 DEF DecodeShift, F7_NORMAL, F7_ALT
    <3>3. Is(DecodeShift(V), "SRAI", rd(V), rs1(V), {}, imm)
      BY <3>2, Formats
    <3>. QED  BY <2>1, <2>2, <2>4, <3>3
  <2>. QED  BY <2>1, <2>3, <2>4
<1>. QED  BY <1>3, <1>4, <1>5

\* A register number has its bits in 0 .. 4.
LEMMA RegisterBits ==
    ASSUME NEW r \in Regs5
    PROVE  r \cap 0 .. 4 = r /\ {x \in 0 .. 6 : x + 5 \in r} = {}
<1>1. \A x \in r : x \in 0 .. 4
  BY DEF Regs5
<1>2. r \cap 0 .. 4 = r
  BY <1>1
<1>3. \A x \in 0 .. 6 : x + 5 \notin r
  BY <1>1
<1>. QED  BY <1>2, <1>3

\* Assembled ADD, SUB, XOR, OR and AND decode as themselves.
LEMMA RegWordIs ==
    ASSUME NEW r2 \in Regs5, NEW r1 \in Regs5, NEW r \in Regs5
    PROVE  /\ \A f3 \in Funct3 : RegWord(F7_NORMAL, r2, r1, f3, r) # {}
           /\ RegWord(F7_ALT, r2, r1, 0, r) # {}
           /\ Is(decode32(RegWord(F7_NORMAL, r2, r1, 0, r)), "ADD", r, r1, r2, {})
           /\ Is(decode32(RegWord(F7_NORMAL, r2, r1, 4, r)), "XOR", r, r1, r2, {})
           /\ Is(decode32(RegWord(F7_NORMAL, r2, r1, 6, r)), "OR", r, r1, r2, {})
           /\ Is(decode32(RegWord(F7_NORMAL, r2, r1, 7, r)), "AND", r, r1, r2, {})
           /\ Is(decode32(RegWord(F7_ALT, r2, r1, 0, r)), "SUB", r, r1, r2, {})
<1>0. /\ OP_REG \in Opcodes /\ {0, 4, 6, 7} \subseteq Funct3 /\ r2 \in Words
      /\ F7_NORMAL \in Funct7 /\ F7_ALT \in Funct7
  BY DEF Opcodes, Funct3, Funct7, Regs5, Words, Bits, F7_NORMAL, F7_ALT
<1>1. r2 \cap 0 .. 4 = r2 /\ {x \in 0 .. 6 : x + 5 \in r2} = {}
  BY RegisterBits
<1>2. ASSUME NEW f7 \in {F7_NORMAL, F7_ALT}, NEW f3 \in Funct3
      PROVE  LET V == RegWord(f7, r2, r1, f3, r) IN
             /\ V # {} /\ opcode(V) = OP_REG /\ rd(V) = r /\ funct3(V) = Word(f3)
             /\ rs1(V) = r1 /\ rs2(V) = r2 /\ funct7(V) = f7
  <2>1. RegWord(f7, r2, r1, f3, r) = Fields(f7, r2, r1, f3, r, OP_REG)
    BY DEF RegWord
  <2>. DEFINE V == RegWord(f7, r2, r1, f3, r)
  <2>2. /\ V # {} /\ opcode(V) = OP_REG /\ rd(V) = r /\ funct3(V) = Word(f3)
        /\ rs1(V) = r1 /\ rs2(V) = r2 \cap 0 .. 4
        /\ funct7(V) = f7 \cup {x \in 0 .. 6 : x + 5 \in r2}
    BY <1>0, <2>1, FieldsWord, SMTT(30)
  <2>. HIDE DEF V
  <2>3. funct7(V) = f7 \cup {}
    BY <2>2, <1>1
  <2>. QED  BY <2>2, <2>3, <1>1 DEF V
<1>3. ASSUME NEW V, opcode(V) = OP_REG, rd(V) = r, rs1(V) = r1, rs2(V) = r2
      PROVE  /\ funct7(V) = {} => Is(decode32(V), Pick(RegTypes, funct3(V)), r, r1, r2, {})
             /\ funct7(V) = {5} => Is(decode32(V), Pick(AltTypes, funct3(V)), r, r1, r2, {})
  <2>1. decode32(V) = DecodeReg(V)
    BY <1>3, DecodeByOpcode
  <2>2. funct7(V) = {} => decode32(V) = FormatR(V, Pick(RegTypes, funct3(V)))
    BY <2>1 DEF DecodeReg, F7_MULDIV, F7_NORMAL, F7_ALT
  <2>3. funct7(V) = {5} => decode32(V) = FormatR(V, Pick(AltTypes, funct3(V)))
    BY <2>1 DEF DecodeReg, F7_MULDIV, F7_NORMAL, F7_ALT
  <2>. QED  BY <1>3, <2>2, <2>3, Formats
<1>4. \A f3 \in Funct3 : RegWord(F7_NORMAL, r2, r1, f3, r) # {}
  BY <1>2
<1>5. Is(decode32(RegWord(F7_NORMAL, r2, r1, 0, r)), "ADD", r, r1, r2, {})
  <2>. DEFINE V == RegWord(F7_NORMAL, r2, r1, 0, r)
  <2>1. opcode(V) = OP_REG /\ rd(V) = r /\ funct3(V) = {} /\ rs1(V) = r1 /\ rs2(V) = r2 /\
            funct7(V) = {}
    BY <1>0, <1>2, Codes3 DEF F7_NORMAL
  <2>. HIDE DEF V
  <2>2. Is(decode32(V), "ADD", r, r1, r2, {})
    BY <1>3, <2>1, PickReg
  <2>. QED  BY <2>2 DEF V
<1>6. Is(decode32(RegWord(F7_NORMAL, r2, r1, 4, r)), "XOR", r, r1, r2, {})
  <2>. DEFINE V == RegWord(F7_NORMAL, r2, r1, 4, r)
  <2>1. opcode(V) = OP_REG /\ rd(V) = r /\ funct3(V) = {2} /\ rs1(V) = r1 /\ rs2(V) = r2 /\
            funct7(V) = {}
    BY <1>0, <1>2, Codes3 DEF F7_NORMAL
  <2>. HIDE DEF V
  <2>2. Is(decode32(V), "XOR", r, r1, r2, {})
    BY <1>3, <2>1, PickReg
  <2>. QED  BY <2>2 DEF V
<1>7. Is(decode32(RegWord(F7_NORMAL, r2, r1, 6, r)), "OR", r, r1, r2, {})
  <2>. DEFINE V == RegWord(F7_NORMAL, r2, r1, 6, r)
  <2>1. opcode(V) = OP_REG /\ rd(V) = r /\ funct3(V) = {1, 2} /\ rs1(V) = r1 /\ rs2(V) = r2 /\
            funct7(V) = {}
    BY <1>0, <1>2, Codes3 DEF F7_NORMAL
  <2>. HIDE DEF V
  <2>2. Is(decode32(V), "OR", r, r1, r2, {})
    BY <1>3, <2>1, PickReg
  <2>. QED  BY <2>2 DEF V
<1>8. Is(decode32(RegWord(F7_NORMAL, r2, r1, 7, r)), "AND", r, r1, r2, {})
  <2>. DEFINE V == RegWord(F7_NORMAL, r2, r1, 7, r)
  <2>1. opcode(V) = OP_REG /\ rd(V) = r /\ funct3(V) = {0, 1, 2} /\ rs1(V) = r1 /\
            rs2(V) = r2 /\ funct7(V) = {}
    BY <1>0, <1>2, Codes3 DEF F7_NORMAL
  <2>. HIDE DEF V
  <2>2. Is(decode32(V), "AND", r, r1, r2, {})
    BY <1>3, <2>1, PickReg
  <2>. QED  BY <2>2 DEF V
<1>9. /\ RegWord(F7_ALT, r2, r1, 0, r) # {}
      /\ Is(decode32(RegWord(F7_ALT, r2, r1, 0, r)), "SUB", r, r1, r2, {})
  <2>. DEFINE V == RegWord(F7_ALT, r2, r1, 0, r)
  <2>1. /\ V # {}
        /\ opcode(V) = OP_REG /\ rd(V) = r /\ funct3(V) = {} /\ rs1(V) = r1 /\ rs2(V) = r2 /\
                funct7(V) = {5}
    BY <1>0, <1>2, Codes3 DEF F7_ALT
  <2>. HIDE DEF V
  <2>2. Is(decode32(V), "SUB", r, r1, r2, {})
    BY <1>3, <2>1, PickReg
  <2>. QED  BY <2>1, <2>2 DEF V
<1>. QED  BY <1>4, <1>5, <1>6, <1>7, <1>8, <1>9

\* The scattered immediates: what decode32 gathers is what expand_compressed scattered.
LEMMA StoreWordIs ==
    ASSUME NEW off \in SUBSET (0 .. 10), NEW r2 \in Regs5, NEW r1 \in Regs5
    PROVE  StoreWord(off, r2, r1) # {} /\ Is(decode32(StoreWord(off, r2, r1)), "SW", {}, r1, r2,
               off)
<1>. DEFINE hi == Shr(off, 5) \cap 0 .. 6
            lo == off \cap 0 .. 4
            V == Fields(hi, r2, r1, 2, lo, OP_STORE)
<1>1. /\ hi = {x \in 0 .. 6 : x + 5 \in off} /\ lo = {x \in 0 .. 4 : x \in off}
  BY ShrIn DEF Bits
<1>2. hi \in Funct7 /\ r2 \in Words /\ 2 \in Funct3 /\ lo \in Regs5 /\ OP_STORE \in Opcodes
  BY DEF Funct7, Funct3, Words, Regs5, Opcodes, Bits
<1>. HIDE DEF hi, lo
<1>3. /\ V \in Words /\ V # {} /\ opcode(V) = OP_STORE /\ funct3(V) = {1} /\ rs1(V) = r1
      /\ rd(V) = lo /\ rs2(V) = r2 \cap 0 .. 4
      /\ funct7(V) = hi \cup {x \in 0 .. 6 : x + 5 \in r2}
  BY <1>2, FieldsWord, Codes3
<1>4. r2 \cap 0 .. 4 = r2 /\ {x \in 0 .. 6 : x + 5 \in r2} = {}
  BY RegisterBits
<1>. HIDE DEF V
<1>5. /\ rd(V) = {x \in 0 .. 4 : x + 7 \in V}
      /\ funct7(V) = {x \in 0 .. 6 : x + 25 \in V}
      /\ imm_s(V) = {x \in Bits : \/ x \in 0 .. 4 /\ x + 7 \in V
                                  \/ x \in 5 .. 11 /\ x + 20 \in V
                                  \/ x >= 12 /\ 31 \in V}
  BY <1>3, FieldsIn, ImmediatesIn DEF Words
<1>6. \A x \in 0 .. 4 : x + 7 \in V <=> x \in off
  BY <1>1, <1>3, <1>5
<1>7. \A x \in 0 .. 6 : x + 25 \in V <=> x + 5 \in off
  BY <1>1, <1>3, <1>4, <1>5
<1>8. \A x \in 5 .. 11 : x + 20 \in V <=> x \in off
  <2>. SUFFICES ASSUME NEW x \in 5 .. 11 PROVE x + 20 \in V <=> x \in off
    OBVIOUS
  <2>1. x - 5 \in 0 .. 6 /\ (x - 5) + 25 = x + 20 /\ (x - 5) + 5 = x
    OBVIOUS
  <2>. QED  BY <2>1, <1>7
<1>9. 31 \notin V
  BY <1>8
<1>10. imm_s(V) = off
  <2>1. \A x \in 0 .. 4 : x \in imm_s(V) <=> x \in off
    BY <1>5, <1>6 DEF Bits
  <2>2. \A x \in 5 .. 11 : x \in imm_s(V) <=> x \in off
    BY <1>5, <1>8 DEF Bits
  <2>3. \A x \in 12 .. 31 : x \notin imm_s(V) /\ x \notin off
    BY <1>5, <1>9 DEF Bits
  <2>4. \A x \in Bits : x \in 0 .. 4 \/ x \in 5 .. 11 \/ x \in 12 .. 31
    BY DEF Bits
  <2>5. \A x \in Bits : x \in imm_s(V) <=> x \in off
    BY <2>1, <2>2, <2>3, <2>4
  <2>6. off \in SUBSET Bits /\ imm_s(V) \in SUBSET Bits
    BY <1>5 DEF Bits
  <2>. QED  BY <2>5, <2>6
<1>11. Is(decode32(V), "SW", {}, r1, r2, off)
  <2>1. decode32(V) = FormatSB(V, "SW", off)
    BY <1>3, <1>10, DecodeByOpcode, PickMem
  <2>2. Is(FormatSB(V, "SW", off), "SW", {}, rs1(V), rs2(V), off)
    BY Formats
  <2>. QED  BY <1>3, <1>4, <2>1, <2>2
<1>. QED  BY <1>3, <1>11 DEF StoreWord, V, hi, lo

\* An assembled BEQ or BNE decodes as itself, for every even 13-bit offset.
LEMMA BranchWordIs ==
    ASSUME NEW off, Extends(off, 12), 0 \notin off, NEW r1 \in Regs5
    PROVE  /\ BranchWord(off, r1, 0) # {} /\ BranchWord(off, r1, 1) # {}
           /\ Is(decode32(BranchWord(off, r1, 0)), "BEQ", {}, r1, {}, off)
           /\ Is(decode32(BranchWord(off, r1, 1)), "BNE", {}, r1, {}, off)
<1>. DEFINE hi == Shl(Shr(off, 12) \cap {0}, 6) \cup (Shr(off, 5) \cap 0 .. 5)
            lo == Shl(Shr(off, 1) \cap 0 .. 3, 1) \cup (Shr(off, 11) \cap {0})
<1>0. off \in SUBSET Bits
  BY DEF Extends, Words
<1>1. hi = {x \in 0 .. 6 : (x \in 0 .. 5 /\ x + 5 \in off) \/ (x = 6 /\ 12 \in off)}
  <2>1. Shr(off, 12) \cap {0} = {x \in {0} : 12 \in off}
    BY <1>0, ShrIn DEF Bits
  <2>2. Shl({x \in {0} : 12 \in off}, 6) = {x \in 0 .. 6 : x = 6 /\ 12 \in off}
    BY ShlIn DEF Bits
  <2>3. Shr(off, 5) \cap 0 .. 5 = {x \in 0 .. 6 : x \in 0 .. 5 /\ x + 5 \in off}
    BY <1>0, ShrIn DEF Bits
  <2>. QED  BY <2>1, <2>2, <2>3
<1>2. lo = {x \in 0 .. 4 : (x \in 1 .. 4 /\ x \in off) \/ (x = 0 /\ 11 \in off)}
  <2>1. Shr(off, 1) \cap 0 .. 3 = {x \in 0 .. 3 : x + 1 \in off}
    BY <1>0, ShrIn DEF Bits
  <2>2. Shl({x \in 0 .. 3 : x + 1 \in off}, 1) = {x \in 0 .. 4 : x \in 1 .. 4 /\ x \in off}
    <3>1. {x \in 0 .. 3 : x + 1 \in off} \in SUBSET Bits
      BY DEF Bits
    <3>2. Shl({x \in 0 .. 3 : x + 1 \in off}, 1)
            = {x \in Bits : x - 1 \in {y \in 0 .. 3 : y + 1 \in off}}
      BY <3>1, ShlIn
    <3>3. \A x \in Bits : x - 1 \in {y \in 0 .. 3 : y + 1 \in off} <=> x \in 1 .. 4 /\ x \in off
      BY DEF Bits
    <3>. QED  BY <3>2, <3>3 DEF Bits
  <2>3. Shr(off, 11) \cap {0} = {x \in 0 .. 4 : x = 0 /\ 11 \in off}
    BY <1>0, ShrIn DEF Bits
  <2>. QED  BY <2>1, <2>2, <2>3
<1>3. /\ hi \in Funct7 /\ {} \in Words /\ {0, 1} \subseteq Funct3 /\ lo \in Regs5
      /\ OP_BRANCH \in Opcodes
  BY <1>1, <1>2 DEF Funct7, Funct3, Words, Regs5, Opcodes
<1>. HIDE DEF hi, lo
<1>4. ASSUME NEW f3 \in {0, 1}
      PROVE  /\ BranchWord(off, r1, f3) # {}
             /\ Is(decode32(BranchWord(off, r1, f3)), Pick(BranchTypes, Word(f3)), {}, r1, {},
                     off)
  <2>. DEFINE V == Fields(hi, {}, r1, f3, lo, OP_BRANCH)
  <2>1. /\ V \in Words /\ V # {} /\ opcode(V) = OP_BRANCH /\ funct3(V) = Word(f3) /\ rs1(V) = r1
        /\ rd(V) = lo /\ rs2(V) = {} \cap 0 .. 4
        /\ funct7(V) = hi \cup {x \in 0 .. 6 : x + 5 \in {}}
    BY <1>3, FieldsWord
  <2>2. V = BranchWord(off, r1, f3)
    BY DEF BranchWord, hi, lo
  <2>. HIDE DEF V
  <2>3. /\ rd(V) = {x \in 0 .. 4 : x + 7 \in V}
        /\ funct7(V) = {x \in 0 .. 6 : x + 25 \in V}
        /\ imm_b(V) = {x \in Bits : \/ x \in 1 .. 4 /\ x + 7 \in V
                                    \/ x \in 5 .. 10 /\ x + 20 \in V
                                    \/ x = 11 /\ 7 \in V
                                    \/ x >= 12 /\ 31 \in V}
    BY <2>1, FieldsIn, ImmediatesIn DEF Words
  <2>4. rd(V) = lo /\ funct7(V) = hi /\ rs2(V) = {}
    BY <2>1
  <2>5. \A x \in 1 .. 4 : x + 7 \in V <=> x \in off
    BY <1>2, <2>3, <2>4
  <2>6. 7 \in V <=> 11 \in off
    <3>1. 0 \in rd(V) <=> 0 + 7 \in V
      BY <2>3
    <3>. QED  BY <1>2, <2>4, <3>1
  <2>7. \A x \in 5 .. 10 : x + 20 \in V <=> x \in off
    <3>. SUFFICES ASSUME NEW x \in 5 .. 10 PROVE x + 20 \in V <=> x \in off
      OBVIOUS
    <3>1. x - 5 \in 0 .. 5 /\ (x - 5) + 25 = x + 20 /\ (x - 5) + 5 = x
      OBVIOUS
    <3>2. x - 5 \in funct7(V) <=> (x - 5) + 25 \in V
      BY <2>3, <3>1
    <3>3. x - 5 \in hi <=> (x - 5) + 5 \in off
      BY <1>1, <3>1
    <3>. QED  BY <2>4, <3>1, <3>2, <3>3
  <2>8. 31 \in V <=> 12 \in off
    <3>1. 6 \in funct7(V) <=> 6 + 25 \in V
      BY <2>3
    <3>. QED  BY <1>1, <2>4, <3>1
  <2>9. \A x \in 12 .. 31 : x \in off <=> 12 \in off
    BY DEF Extends
  <2>10. imm_b(V) = off
    <3>1. 0 \notin imm_b(V) /\ (11 \in imm_b(V) <=> 11 \in off)
      BY <2>3, <2>6 DEF Bits
    <3>2. \A x \in 1 .. 4 : x \in imm_b(V) <=> x \in off
      BY <2>3, <2>5 DEF Bits
    <3>3. \A x \in 5 .. 10 : x \in imm_b(V) <=> x \in off
      BY <2>3, <2>7 DEF Bits
    <3>4. \A x \in 12 .. 31 : x \in imm_b(V) <=> x \in off
      BY <2>3, <2>8, <2>9 DEF Bits
    <3>5. \A x \in Bits : x = 0 \/ x = 11 \/ x \in 1 .. 4 \/ x \in 5 .. 10 \/ x \in 12 .. 31
      BY DEF Bits
    <3>6. \A x \in Bits : x \in imm_b(V) <=> x \in off
      BY <3>1, <3>2, <3>3, <3>4, <3>5
    <3>7. imm_b(V) \in SUBSET Bits
      BY <2>3
    <3>. QED  BY <1>0, <3>6, <3>7
  <2>11. decode32(V) = FormatSB(V, Pick(BranchTypes, Word(f3)), off)
    BY <2>1, <2>10, DecodeByOpcode
  <2>12. Is(decode32(V), Pick(BranchTypes, Word(f3)), {}, rs1(V), rs2(V), off)
    BY <2>11, Formats
  <2>. QED  BY <2>1, <2>2, <2>4, <2>12
<1>5. Is(decode32(BranchWord(off, r1, 0)), "BEQ", {}, r1, {}, off)
  BY <1>4, Codes3, PickBranch
<1>6. Is(decode32(BranchWord(off, r1, 1)), "BNE", {}, r1, {}, off)
  BY <1>4, Codes3, PickBranch
<1>. QED  BY <1>4, <1>5, <1>6

\* An assembled JAL decodes as itself, for every even 21-bit offset.
LEMMA JalWordIs ==
    ASSUME NEW off, Extends(off, 20), 0 \notin off, NEW r \in Regs5
    PROVE  JalWord(off, r) # {} /\ Is(decode32(JalWord(off, r)), "JAL", r, {}, {}, off)
<1>. DEFINE V == JalWord(off, r)
<1>0. off \in SUBSET Bits /\ r \in SUBSET (0 .. 4)
  BY DEF Extends, Words, Regs5
<1>1. Shl(Shr(off, 20) \cap {0}, 31) = {x \in Bits : x = 31 /\ 20 \in off}
  <2>1. Shr(off, 20) \cap {0} = {x \in {0} : 20 \in off}
    BY <1>0, ShrIn DEF Bits
  <2>2. Shl({x \in {0} : 20 \in off}, 31) = {x \in Bits : x = 31 /\ 20 \in off}
    BY ShlIn DEF Bits
  <2>. QED  BY <2>1, <2>2
<1>2. Shl(Shr(off, 1) \cap 0 .. 9, 21) = {x \in Bits : x \in 21 .. 30 /\ x - 20 \in off}
  <2>1. Shr(off, 1) \cap 0 .. 9 = {x \in 0 .. 9 : x + 1 \in off}
    BY <1>0, ShrIn DEF Bits
  <2>2. {x \in 0 .. 9 : x + 1 \in off} \in SUBSET Bits
    BY DEF Bits
  <2>3. Shl({x \in 0 .. 9 : x + 1 \in off}, 21)
          = {x \in Bits : x - 21 \in {y \in 0 .. 9 : y + 1 \in off}}
    BY <2>2, ShlIn
  <2>4. ASSUME NEW x \in Bits
        PROVE  x - 21 \in {y \in 0 .. 9 : y + 1 \in off} <=> x \in 21 .. 30 /\ x - 20 \in off
    <3>1. (x - 21) + 1 = x - 20 /\ (x - 21 \in 0 .. 9 <=> x \in 21 .. 30)
      BY DEF Bits
    <3>. QED  BY <3>1
  <2>. QED  BY <2>1, <2>3, <2>4
<1>3. Shl(Shr(off, 11) \cap {0}, 20) = {x \in Bits : x = 20 /\ 11 \in off}
  <2>1. Shr(off, 11) \cap {0} = {x \in {0} : 11 \in off}
    BY <1>0, ShrIn DEF Bits
  <2>2. Shl({x \in {0} : 11 \in off}, 20) = {x \in Bits : x = 20 /\ 11 \in off}
    BY ShlIn DEF Bits
  <2>. QED  BY <2>1, <2>2
<1>4. Shl(Shr(off, 12) \cap 0 .. 7, 12) = {x \in Bits : x \in 12 .. 19 /\ x \in off}
  <2>1. Shr(off, 12) \cap 0 .. 7 = {x \in 0 .. 7 : x + 12 \in off}
    BY <1>0, ShrIn DEF Bits
  <2>2. {x \in 0 .. 7 : x + 12 \in off} \in SUBSET Bits
    BY DEF Bits
  <2>3. Shl({x \in 0 .. 7 : x + 12 \in off}, 12)
          = {x \in Bits : x - 12 \in {y \in 0 .. 7 : y + 12 \in off}}
    BY <2>2, ShlIn
  <2>4. ASSUME NEW x \in Bits
        PROVE  x - 12 \in {y \in 0 .. 7 : y + 12 \in off} <=> x \in 12 .. 19 /\ x \in off
    <3>1. (x - 12) + 12 = x /\ (x - 12 \in 0 .. 7 <=> x \in 12 .. 19)
      BY DEF Bits
    <3>. QED  BY <3>1
  <2>. QED  BY <2>1, <2>3, <2>4
<1>5. Shl(r, 7) = {x \in Bits : x \in 7 .. 11 /\ x - 7 \in r}
  <2>1. r \in SUBSET Bits
    BY <1>0 DEF Bits
  <2>2. Shl(r, 7) = {x \in Bits : x - 7 \in r}
    BY <2>1, ShlIn
  <2>3. \A x \in Bits : x - 7 \in r => x \in 7 .. 11
    BY <1>0 DEF Bits
  <2>. QED  BY <2>2, <2>3
<1>6. OP_JAL \in SUBSET (0 .. 6) /\ 0 \in OP_JAL
  BY OpcodesDiffer DEF Opcodes
<1>7. V = {x \in Bits : \/ x = 31 /\ 20 \in off
                        \/ x \in 21 .. 30 /\ x - 20 \in off
                        \/ x = 20 /\ 11 \in off
                        \/ x \in 12 .. 19 /\ x \in off
                        \/ x \in 7 .. 11 /\ x - 7 \in r
                        \/ x \in OP_JAL}
  <2>0. \A x \in OP_JAL : x \in Bits
    BY <1>6 DEF Bits
  <2>1. OP_JAL = {x \in Bits : x \in OP_JAL}
    BY <2>0
  <2>. QED  BY <1>1, <1>2, <1>3, <1>4, <1>5, <2>1 DEF JalWord
<1>. HIDE DEF V
<1>8. V \in SUBSET Bits /\ 0 \in V
  BY <1>6, <1>7 DEF Bits
<1>9. /\ opcode(V) = {x \in 0 .. 6 : x \in V}
      /\ rd(V) = {x \in 0 .. 4 : x + 7 \in V}
      /\ imm_j(V) = {x \in Bits : \/ x \in 1 .. 10 /\ x + 20 \in V
                                  \/ x = 11 /\ 20 \in V
                                  \/ x \in 12 .. 19 /\ x \in V
                                  \/ x >= 20 /\ 31 \in V}
  BY <1>8, FieldsIn, ImmediatesIn
<1>10. opcode(V) = OP_JAL
  <2>1. \A x \in 0 .. 6 : x \in V <=> x \in OP_JAL
    BY <1>7 DEF Bits
  <2>. QED  BY <1>6, <1>9, <2>1
<1>11. rd(V) = r
  <2>1. ASSUME NEW x \in 0 .. 4 PROVE x + 7 \in V <=> x \in r
    <3>1. x + 7 \in Bits /\ x + 7 \in 7 .. 11 /\ (x + 7) - 7 = x /\ x + 7 \notin 0 .. 6
      BY DEF Bits
    <3>. QED  BY <1>6, <1>7, <3>1
  <2>. QED  BY <1>0, <1>9, <2>1
<1>12. imm_j(V) = off
  <2>1. ASSUME NEW x \in 1 .. 10 PROVE x \in imm_j(V) <=> x \in off
    <3>1. x + 20 \in Bits /\ x + 20 \in 21 .. 30 /\ (x + 20) - 20 = x /\ x + 20 \notin 0 .. 6
      BY DEF Bits
    <3>2. x + 20 \in V <=> x \in off
      BY <1>6, <1>7, <3>1
    <3>. QED  BY <1>9, <3>2 DEF Bits
  <2>2. 11 \in imm_j(V) <=> 11 \in off
    <3>1. 20 \in V <=> 11 \in off
      BY <1>6, <1>7 DEF Bits
    <3>. QED  BY <1>9, <3>1 DEF Bits
  <2>3. ASSUME NEW x \in 12 .. 19 PROVE x \in imm_j(V) <=> x \in off
    <3>1. x \in V <=> x \in off
      BY <1>6, <1>7 DEF Bits
    <3>. QED  BY <1>9, <3>1 DEF Bits
  <2>4. ASSUME NEW x \in 20 .. 31 PROVE x \in imm_j(V) <=> x \in off
    <3>1. 31 \in V <=> 20 \in off
      BY <1>6, <1>7 DEF Bits
    <3>2. x \in off <=> 20 \in off
      BY DEF Extends
    <3>. QED  BY <1>9, <3>1, <3>2 DEF Bits
  <2>5. 0 \notin imm_j(V)
    BY <1>9
  <2>6. \A x \in Bits : x = 0 \/ x = 11 \/ x \in 1 .. 10 \/ x \in 12 .. 19 \/ x \in 20 .. 31
    BY DEF Bits
  <2>7. \A x \in Bits : x \in imm_j(V) <=> x \in off
    BY <2>1, <2>2, <2>3, <2>4, <2>5, <2>6
  <2>8. imm_j(V) \in SUBSET Bits
    BY <1>9
  <2>. QED  BY <1>0, <2>7, <2>8
<1>13. decode32(V) = DestImm(V, "JAL", off)
  BY <1>10, <1>12, DecodeByOpcode
<1>14. Is(decode32(V), "JAL", rd(V), {}, {}, off)
  BY <1>13, Formats
<1>15. V # {} /\ Is(decode32(V), "JAL", r, {}, {}, off)
  BY <1>8, <1>11, <1>14
<1>. QED  BY <1>15 DEF V

\* An assembled LUI decodes as itself.
LEMMA LuiWordIs ==
    ASSUME NEW up \in Words, NEW r \in Regs5
    PROVE  LET V == Shl(up, 12) \cup Shl(r, 7) \cup OP_LUI IN
           V # {} /\ Is(decode32(V), "LUI", r, {}, {}, Shl(up, 12))
<1>. DEFINE V == Shl(up, 12) \cup Shl(r, 7) \cup OP_LUI
<1>0. up \in SUBSET Bits /\ r \in SUBSET (0 .. 4) /\ r \in SUBSET Bits
  BY DEF Words, Regs5, Bits
<1>1. Shl(up, 12) = {x \in Bits : x >= 12 /\ x - 12 \in up}
  <2>1. Shl(up, 12) = {x \in Bits : x - 12 \in up}
    BY <1>0, ShlIn
  <2>2. \A x \in Bits : x - 12 \in up => x >= 12
    BY <1>0 DEF Bits
  <2>. QED  BY <2>1, <2>2
<1>2. Shl(r, 7) = {x \in Bits : x \in 7 .. 11 /\ x - 7 \in r}
  <2>1. Shl(r, 7) = {x \in Bits : x - 7 \in r}
    BY <1>0, ShlIn
  <2>2. \A x \in Bits : x - 7 \in r => x \in 7 .. 11
    BY <1>0 DEF Bits
  <2>. QED  BY <2>1, <2>2
<1>3. OP_LUI \in SUBSET (0 .. 6) /\ 0 \in OP_LUI
  BY OpcodesDiffer DEF Opcodes
<1>4. \A x \in Bits : x \in V <=> \/ x >= 12 /\ x - 12 \in up
                                  \/ x \in 7 .. 11 /\ x - 7 \in r
                                  \/ x \in OP_LUI
  BY <1>1, <1>2
<1>5. V \in SUBSET Bits /\ 0 \in V
  <2>1. \A x \in OP_LUI : x \in Bits
    BY <1>3 DEF Bits
  <2>2. Shl(up, 12) \subseteq Bits /\ Shl(r, 7) \subseteq Bits
    BY <1>1, <1>2
  <2>. QED  BY <1>3, <2>1, <2>2
<1>. HIDE DEF V
<1>6. /\ opcode(V) = {x \in 0 .. 6 : x \in V}
      /\ rd(V) = {x \in 0 .. 4 : x + 7 \in V}
      /\ imm_u(V) = {x \in Bits : x >= 12 /\ x \in V}
  BY <1>5, FieldsIn, ImmediatesIn
<1>7. opcode(V) = OP_LUI
  <2>1. \A x \in 0 .. 6 : x \in V <=> x \in OP_LUI
    BY <1>4 DEF Bits
  <2>. QED  BY <1>3, <1>6, <2>1
<1>8. rd(V) = r
  <2>1. ASSUME NEW x \in 0 .. 4 PROVE x + 7 \in V <=> x \in r
    <3>1. x + 7 \in Bits /\ x + 7 \in 7 .. 11 /\ (x + 7) - 7 = x /\ x + 7 \notin 0 .. 6
      BY DEF Bits
    <3>. QED  BY <1>3, <1>4, <3>1
  <2>. QED  BY <1>0, <1>6, <2>1
<1>9. imm_u(V) = Shl(up, 12)
  <2>1. ASSUME NEW x \in Bits, x >= 12 PROVE x \in V <=> x - 12 \in up
    <3>1. x \notin 7 .. 11 /\ x \notin 0 .. 6
      BY <2>1 DEF Bits
    <3>. QED  BY <1>3, <1>4, <2>1, <3>1
  <2>. QED  BY <1>1, <1>6, <2>1
<1>10. decode32(V) = DestImm(V, "LUI", Shl(up, 12))
  BY <1>7, <1>9, DecodeByOpcode
<1>11. Is(decode32(V), "LUI", rd(V), {}, {}, Shl(up, 12))
  BY <1>10, Formats
<1>12. V # {} /\ Is(decode32(V), "LUI", r, {}, {}, Shl(up, 12))
  BY <1>5, <1>8, <1>11
<1>. QED  BY <1>12 DEF V
-----------------------------------------------------------------------------
(* The immediates of the 16-bit formats, as decode.cpp puts them together   *)
(* with shifts and masks and as the manual's tables list their bits.        *)

Halves == SUBSET (0 .. 15)

\* The shifts of a 16-bit word, bit by bit.
LEMMA HalfShifts ==
    ASSUME NEW ci \in Halves, NEW n \in 0 .. 15
    PROVE  /\ ci \in SUBSET Bits
           /\ Shr(ci, n) = {x \in Bits : x + n \in ci}
           /\ Shl(ci, n) = {x \in Bits : x - n \in ci}
<1>1. ci \in SUBSET Bits
  BY DEF Halves, Bits
<1>. QED  BY <1>1, ShrIn, ShlIn

\* The reference's sign extension is the code's.
LEMMA SignedIsSext ==
    ASSUME NEW w \in SUBSET Bits, NEW s \in Bits
    PROVE  Signed(w, s) = Sext(w, s)
<1>1. CASE s \in w
  <2>1. s .. 31 = {s} \cup (s + 1 .. 31)
    BY DEF Bits
  <2>. QED  BY <1>1, <2>1 DEF Signed, Sext
<1>2. CASE s \notin w
  BY <1>2 DEF Signed, Sext
<1>. QED  BY <1>1, <1>2

\* A sign-extended value is sign-extended from every higher bit too, and keeps its parity.
LEMMA SextExtends ==
    ASSUME NEW s \in 0 .. 20, NEW w \in SUBSET (0 .. s), NEW k \in s .. 20
    PROVE  Extends(Sext(w, s), k) /\ (0 \notin w => 0 \notin Sext(w, s))
<1>1. w \in SUBSET Bits /\ s \in Bits
  BY DEF Bits
<1>2. Sext(w, s) = {x \in Bits : x \in w \/ (s \in w /\ x > s)}
  BY <1>1, SextIn
<1>3. \A x \in k .. 31 : x \in Sext(w, s) <=> s \in w
  BY <1>2 DEF Bits
<1>4. Sext(w, s) \in SUBSET Bits
  BY <1>2
<1>. QED  BY <1>2, <1>3, <1>4 DEF Extends, Words

\* A value below bit 11 is its own sign extension.
LEMMA ShortExtends ==
    ASSUME NEW w \in SUBSET (0 .. 10)
    PROVE  Extends(w, 11)
<1>1. \A x \in 11 .. 31 : x \notin w
  OBVIOUS
<1>. QED  BY <1>1 DEF Extends, Words, Bits

BitsCI(ci) ==
    {x \in 0 .. 5 : \/ x = 5 /\ 12 \in ci
                    \/ x = 4 /\ 6 \in ci
                    \/ x = 3 /\ 5 \in ci
                    \/ x = 2 /\ 4 \in ci
                    \/ x = 1 /\ 3 \in ci
                    \/ x = 0 /\ 2 \in ci}
\* The code's shifts and the reference's bit list agree on the CI immediate.
LEMMA GatherCI ==
    ASSUME NEW ci \in Halves
    PROVE  /\ Imm6(ci) = BitsCI(ci)
           /\ ImmCI(ci) = BitsCI(ci)
<1>1. Shr(ci, 7) \cap {5} = {x \in 0 .. 5 : (x = 5 /\ 12 \in ci)}
  BY HalfShifts DEF Bits
<1>2. Shr(ci, 2) \cap 0 .. 4 = {x \in 0 .. 5 : (x = 4 /\ 6 \in ci) \/ (x = 3 /\ 5 \in ci) \/
          (x = 2 /\ 4 \in ci) \/ (x = 1 /\ 3 \in ci) \/ (x = 0 /\ 2 \in ci)}
  BY HalfShifts DEF Bits
<1>3. At(ci, 12, <<5>>) = {x \in 0 .. 5 : \/ x = 5 /\ 12 \in ci}
  BY DEF At
<1>4. At(ci, 6, <<4, 3, 2, 1, 0>>)
        = {x \in 0 .. 5 : \/ x = 4 /\ 6 \in ci
                          \/ x = 3 /\ 5 \in ci
                          \/ x = 2 /\ 4 \in ci
                          \/ x = 1 /\ 3 \in ci
                          \/ x = 0 /\ 2 \in ci}
  BY DEF At
<1>5. (Shr(ci, 7) \cap {5}) \cup (Shr(ci, 2) \cap 0 .. 4)
         = BitsCI(ci)
  BY <1>1, <1>2 DEF BitsCI
<1>6. At(ci, 12, <<5>>) \cup At(ci, 6, <<4, 3, 2, 1, 0>>) = BitsCI(ci)
  BY <1>3, <1>4 DEF BitsCI
<1>. QED  BY <1>5, <1>6 DEF Imm6, ImmCI

BitsCL(ci) ==
    {x \in 0 .. 6 : \/ x = 5 /\ 12 \in ci
                    \/ x = 4 /\ 11 \in ci
                    \/ x = 3 /\ 10 \in ci
                    \/ x = 2 /\ 6 \in ci
                    \/ x = 6 /\ 5 \in ci}
\* They agree on the offset of C.LW and C.SW.
LEMMA GatherCL ==
    ASSUME NEW ci \in Halves
    PROVE  /\ OffLw(ci) = BitsCL(ci)
           /\ ImmCL(ci) = BitsCL(ci)
<1>1. Shr(ci, 7) \cap 3 .. 5 = {x \in 0 .. 6 : (x = 5 /\ 12 \in ci) \/ (x = 4 /\ 11 \in ci) \/
          (x = 3 /\ 10 \in ci)}
  BY HalfShifts DEF Bits
<1>2. Shr(ci, 4) \cap {2} = {x \in 0 .. 6 : (x = 2 /\ 6 \in ci)}
  BY HalfShifts DEF Bits
<1>3. Shl(ci, 1) \cap {6} = {x \in 0 .. 6 : (x = 6 /\ 5 \in ci)}
  BY HalfShifts DEF Bits
<1>4. At(ci, 12, <<5, 4, 3>>) = {x \in 0 .. 6 : \/ x = 5 /\ 12 \in ci
                                                \/ x = 4 /\ 11 \in ci
                                                \/ x = 3 /\ 10 \in ci}
  BY DEF At
<1>5. At(ci, 6, <<2, 6>>) = {x \in 0 .. 6 : \/ x = 2 /\ 6 \in ci
                                            \/ x = 6 /\ 5 \in ci}
  BY DEF At
<1>6. (Shr(ci, 7) \cap 3 .. 5) \cup (Shr(ci, 4) \cap {2}) \cup (Shl(ci, 1) \cap {6})
         = BitsCL(ci)
  BY <1>1, <1>2, <1>3 DEF BitsCL
<1>7. At(ci, 12, <<5, 4, 3>>) \cup At(ci, 6, <<2, 6>>) = BitsCL(ci)
  BY <1>4, <1>5 DEF BitsCL
<1>. QED  BY <1>6, <1>7 DEF OffLw, ImmCL

BitsCIW(ci) ==
    {x \in 0 .. 9 : \/ x = 5 /\ 12 \in ci
                    \/ x = 4 /\ 11 \in ci
                    \/ x = 9 /\ 10 \in ci
                    \/ x = 8 /\ 9 \in ci
                    \/ x = 7 /\ 8 \in ci
                    \/ x = 6 /\ 7 \in ci
                    \/ x = 2 /\ 6 \in ci
                    \/ x = 3 /\ 5 \in ci}
\* They agree on the immediate of C.ADDI4SPN.
LEMMA GatherCIW ==
    ASSUME NEW ci \in Halves
    PROVE  /\ (Shr(ci, 1) \cap 6 .. 9) \cup (Shr(ci, 7) \cap 4 .. 5)
                  \cup (Shr(ci, 2) \cap {3}) \cup (Shr(ci, 4) \cap {2})
                  = BitsCIW(ci)
           /\ ImmCIW(ci) = BitsCIW(ci)
<1>1. Shr(ci, 1) \cap 6 .. 9 = {x \in 0 .. 9 : (x = 9 /\ 10 \in ci) \/ (x = 8 /\ 9 \in ci) \/
          (x = 7 /\ 8 \in ci) \/ (x = 6 /\ 7 \in ci)}
  BY HalfShifts DEF Bits
<1>2. Shr(ci, 7) \cap 4 .. 5 = {x \in 0 .. 9 : (x = 5 /\ 12 \in ci) \/ (x = 4 /\ 11 \in ci)}
  BY HalfShifts DEF Bits
<1>3. Shr(ci, 2) \cap {3} = {x \in 0 .. 9 : (x = 3 /\ 5 \in ci)}
  BY HalfShifts DEF Bits
<1>4. Shr(ci, 4) \cap {2} = {x \in 0 .. 9 : (x = 2 /\ 6 \in ci)}
  BY HalfShifts DEF Bits
<1>5. At(ci, 12, <<5, 4, 9, 8, 7, 6, 2, 3>>)
        = {x \in 0 .. 9 : \/ x = 5 /\ 12 \in ci
                          \/ x = 4 /\ 11 \in ci
                          \/ x = 9 /\ 10 \in ci
                          \/ x = 8 /\ 9 \in ci
                          \/ x = 7 /\ 8 \in ci
                          \/ x = 6 /\ 7 \in ci
                          \/ x = 2 /\ 6 \in ci
                          \/ x = 3 /\ 5 \in ci}
  BY DEF At
<1>6. (Shr(ci, 1) \cap 6 .. 9) \cup (Shr(ci, 7) \cap 4 .. 5)
                  \cup (Shr(ci, 2) \cap {3}) \cup (Shr(ci, 4) \cap {2})
         = BitsCIW(ci)
  BY <1>1, <1>2, <1>3, <1>4 DEF BitsCIW
<1>7. At(ci, 12, <<5, 4, 9, 8, 7, 6, 2, 3>>) = BitsCIW(ci)
  BY <1>5 DEF BitsCIW
<1>. QED  BY <1>6, <1>7 DEF ImmCIW

BitsCJ(ci) ==
    {x \in 0 .. 11 : \/ x = 11 /\ 12 \in ci
                     \/ x = 4 /\ 11 \in ci
                     \/ x = 9 /\ 10 \in ci
                     \/ x = 8 /\ 9 \in ci
                     \/ x = 10 /\ 8 \in ci
                     \/ x = 6 /\ 7 \in ci
                     \/ x = 7 /\ 6 \in ci
                     \/ x = 3 /\ 5 \in ci
                     \/ x = 2 /\ 4 \in ci
                     \/ x = 1 /\ 3 \in ci
                     \/ x = 5 /\ 2 \in ci}
\* They agree on the offset of C.J and C.JAL.
LEMMA GatherCJ ==
    ASSUME NEW ci \in Halves
    PROVE  /\ OffJ(ci) = Sext(BitsCJ(ci), 11)
           /\ ImmCJ(ci) = Sext(BitsCJ(ci), 11)
<1>1. Shr(ci, 1) \cap {11} = {x \in 0 .. 11 : (x = 11 /\ 12 \in ci)}
  BY HalfShifts DEF Bits
<1>2. Shr(ci, 7) \cap {4} = {x \in 0 .. 11 : (x = 4 /\ 11 \in ci)}
  BY HalfShifts DEF Bits
<1>3. Shr(ci, 1) \cap 8 .. 9 = {x \in 0 .. 11 : (x = 9 /\ 10 \in ci) \/ (x = 8 /\ 9 \in ci)}
  BY HalfShifts DEF Bits
<1>4. Shl(ci, 2) \cap {10} = {x \in 0 .. 11 : (x = 10 /\ 8 \in ci)}
  BY HalfShifts DEF Bits
<1>5. Shr(ci, 1) \cap {6} = {x \in 0 .. 11 : (x = 6 /\ 7 \in ci)}
  BY HalfShifts DEF Bits
<1>6. Shl(ci, 1) \cap {7} = {x \in 0 .. 11 : (x = 7 /\ 6 \in ci)}
  BY HalfShifts DEF Bits
<1>7. Shr(ci, 2) \cap 1 .. 3 = {x \in 0 .. 11 : (x = 3 /\ 5 \in ci) \/ (x = 2 /\ 4 \in ci) \/
          (x = 1 /\ 3 \in ci)}
  BY HalfShifts DEF Bits
<1>8. Shl(ci, 3) \cap {5} = {x \in 0 .. 11 : (x = 5 /\ 2 \in ci)}
  BY HalfShifts DEF Bits
<1>9. At(ci, 12, <<11, 4, 9, 8, 10, 6, 7, 3, 2, 1, 5>>)
        = {x \in 0 .. 11 : \/ x = 11 /\ 12 \in ci
                           \/ x = 4 /\ 11 \in ci
                           \/ x = 9 /\ 10 \in ci
                           \/ x = 8 /\ 9 \in ci
                           \/ x = 10 /\ 8 \in ci
                           \/ x = 6 /\ 7 \in ci
                           \/ x = 7 /\ 6 \in ci
                           \/ x = 3 /\ 5 \in ci
                           \/ x = 2 /\ 4 \in ci
                           \/ x = 1 /\ 3 \in ci
                           \/ x = 5 /\ 2 \in ci}
  BY DEF At
<1>10. (Shr(ci, 1) \cap {11}) \cup (Shr(ci, 7) \cap {4}) \cup (Shr(ci, 1) \cap 8 .. 9)
                  \cup (Shl(ci, 2) \cap {10}) \cup (Shr(ci, 1) \cap {6}) \cup (Shl(ci,
                          1) \cap {7})
                  \cup (Shr(ci, 2) \cap 1 .. 3) \cup (Shl(ci, 3) \cap {5})
         = BitsCJ(ci)
  BY <1>1, <1>2, <1>3, <1>4, <1>5, <1>6, <1>7, <1>8 DEF BitsCJ
<1>11. At(ci, 12, <<11, 4, 9, 8, 10, 6, 7, 3, 2, 1, 5>>) = BitsCJ(ci)
  BY <1>9 DEF BitsCJ
<1>12. BitsCJ(ci) \in SUBSET Bits /\ 11 \in Bits
  BY DEF BitsCJ, Bits
<1>13. ImmCJ(ci) = Sext(BitsCJ(ci), 11)
  BY <1>11, <1>12, SignedIsSext DEF ImmCJ
<1>. QED  BY <1>10, <1>13 DEF OffJ

BitsCB(ci) ==
    {x \in 0 .. 8 : \/ x = 8 /\ 12 \in ci
                    \/ x = 4 /\ 11 \in ci
                    \/ x = 3 /\ 10 \in ci
                    \/ x = 7 /\ 6 \in ci
                    \/ x = 6 /\ 5 \in ci
                    \/ x = 2 /\ 4 \in ci
                    \/ x = 1 /\ 3 \in ci
                    \/ x = 5 /\ 2 \in ci}
\* They agree on the offset of C.BEQZ and C.BNEZ.
LEMMA GatherCB ==
    ASSUME NEW ci \in Halves
    PROVE  /\ OffB(ci) = Sext(BitsCB(ci), 8)
           /\ ImmCB(ci) = Sext(BitsCB(ci), 8)
<1>1. Shr(ci, 4) \cap {8} = {x \in 0 .. 8 : (x = 8 /\ 12 \in ci)}
  BY HalfShifts DEF Bits
<1>2. Shr(ci, 7) \cap 3 .. 4 = {x \in 0 .. 8 : (x = 4 /\ 11 \in ci) \/ (x = 3 /\ 10 \in ci)}
  BY HalfShifts DEF Bits
<1>3. Shl(ci, 1) \cap 6 .. 7 = {x \in 0 .. 8 : (x = 7 /\ 6 \in ci) \/ (x = 6 /\ 5 \in ci)}
  BY HalfShifts DEF Bits
<1>4. Shr(ci, 2) \cap 1 .. 2 = {x \in 0 .. 8 : (x = 2 /\ 4 \in ci) \/ (x = 1 /\ 3 \in ci)}
  BY HalfShifts DEF Bits
<1>5. Shl(ci, 3) \cap {5} = {x \in 0 .. 8 : (x = 5 /\ 2 \in ci)}
  BY HalfShifts DEF Bits
<1>6. At(ci, 12, <<8, 4, 3>>) = {x \in 0 .. 8 : \/ x = 8 /\ 12 \in ci
                                                \/ x = 4 /\ 11 \in ci
                                                \/ x = 3 /\ 10 \in ci}
  BY DEF At
<1>7. At(ci, 6, <<7, 6, 2, 1, 5>>)
        = {x \in 0 .. 8 : \/ x = 7 /\ 6 \in ci
                          \/ x = 6 /\ 5 \in ci
                          \/ x = 2 /\ 4 \in ci
                          \/ x = 1 /\ 3 \in ci
                          \/ x = 5 /\ 2 \in ci}
  BY DEF At
<1>8. (Shr(ci, 4) \cap {8}) \cup (Shr(ci, 7) \cap 3 .. 4) \cup (Shl(ci, 1) \cap 6 .. 7)
                  \cup (Shr(ci, 2) \cap 1 .. 2) \cup (Shl(ci, 3) \cap {5})
         = BitsCB(ci)
  BY <1>1, <1>2, <1>3, <1>4, <1>5 DEF BitsCB
<1>9. At(ci, 12, <<8, 4, 3>>) \cup At(ci, 6, <<7, 6, 2, 1, 5>>) = BitsCB(ci)
  BY <1>6, <1>7 DEF BitsCB
<1>10. BitsCB(ci) \in SUBSET Bits /\ 8 \in Bits
  BY DEF BitsCB, Bits
<1>11. ImmCB(ci) = Sext(BitsCB(ci), 8)
  BY <1>9, <1>10, SignedIsSext DEF ImmCB
<1>. QED  BY <1>8, <1>11 DEF OffB

Bits16sp(ci) ==
    {x \in 0 .. 9 : \/ x = 9 /\ 12 \in ci
                    \/ x = 4 /\ 6 \in ci
                    \/ x = 6 /\ 5 \in ci
                    \/ x = 8 /\ 4 \in ci
                    \/ x = 7 /\ 3 \in ci
                    \/ x = 5 /\ 2 \in ci}
\* They agree on the immediate of C.ADDI16SP.
LEMMA Gather16sp ==
    ASSUME NEW ci \in Halves
    PROVE  /\ (Shr(ci, 3) \cap {9}) \cup (Shr(ci, 2) \cap {4}) \cup (Shl(ci, 1) \cap {6})
                  \cup (Shl(ci, 4) \cap 7 .. 8) \cup (Shl(ci, 3) \cap {5})
                  = Bits16sp(ci)
           /\ Imm16sp(ci) = Sext(Bits16sp(ci), 9)
<1>1. Shr(ci, 3) \cap {9} = {x \in 0 .. 9 : (x = 9 /\ 12 \in ci)}
  BY HalfShifts DEF Bits
<1>2. Shr(ci, 2) \cap {4} = {x \in 0 .. 9 : (x = 4 /\ 6 \in ci)}
  BY HalfShifts DEF Bits
<1>3. Shl(ci, 1) \cap {6} = {x \in 0 .. 9 : (x = 6 /\ 5 \in ci)}
  BY HalfShifts DEF Bits
<1>4. Shl(ci, 4) \cap 7 .. 8 = {x \in 0 .. 9 : (x = 8 /\ 4 \in ci) \/ (x = 7 /\ 3 \in ci)}
  BY HalfShifts DEF Bits
<1>5. Shl(ci, 3) \cap {5} = {x \in 0 .. 9 : (x = 5 /\ 2 \in ci)}
  BY HalfShifts DEF Bits
<1>6. At(ci, 12, <<9>>) = {x \in 0 .. 9 : \/ x = 9 /\ 12 \in ci}
  BY DEF At
<1>7. At(ci, 6, <<4, 6, 8, 7, 5>>)
        = {x \in 0 .. 9 : \/ x = 4 /\ 6 \in ci
                          \/ x = 6 /\ 5 \in ci
                          \/ x = 8 /\ 4 \in ci
                          \/ x = 7 /\ 3 \in ci
                          \/ x = 5 /\ 2 \in ci}
  BY DEF At
<1>8. (Shr(ci, 3) \cap {9}) \cup (Shr(ci, 2) \cap {4}) \cup (Shl(ci, 1) \cap {6})
                  \cup (Shl(ci, 4) \cap 7 .. 8) \cup (Shl(ci, 3) \cap {5})
         = Bits16sp(ci)
  BY <1>1, <1>2, <1>3, <1>4, <1>5 DEF Bits16sp
<1>9. At(ci, 12, <<9>>) \cup At(ci, 6, <<4, 6, 8, 7, 5>>) = Bits16sp(ci)
  BY <1>6, <1>7 DEF Bits16sp
<1>10. Bits16sp(ci) \in SUBSET Bits /\ 9 \in Bits
  BY DEF Bits16sp, Bits
<1>11. Imm16sp(ci) = Sext(Bits16sp(ci), 9)
  BY <1>9, <1>10, SignedIsSext DEF Imm16sp
<1>. QED  BY <1>8, <1>11

BitsLwsp(ci) ==
    {x \in 0 .. 7 : \/ x = 5 /\ 12 \in ci
                    \/ x = 4 /\ 6 \in ci
                    \/ x = 3 /\ 5 \in ci
                    \/ x = 2 /\ 4 \in ci
                    \/ x = 7 /\ 3 \in ci
                    \/ x = 6 /\ 2 \in ci}
\* They agree on the offset of C.LWSP.
LEMMA GatherLwsp ==
    ASSUME NEW ci \in Halves
    PROVE  /\ (Shr(ci, 7) \cap {5}) \cup (Shr(ci, 2) \cap 2 .. 4) \cup (Shl(ci, 4) \cap 6 .. 7)
                  = BitsLwsp(ci)
           /\ ImmLwsp(ci) = BitsLwsp(ci)
<1>1. Shr(ci, 7) \cap {5} = {x \in 0 .. 7 : (x = 5 /\ 12 \in ci)}
  BY HalfShifts DEF Bits
<1>2. Shr(ci, 2) \cap 2 .. 4 = {x \in 0 .. 7 : (x = 4 /\ 6 \in ci) \/ (x = 3 /\ 5 \in ci) \/
          (x = 2 /\ 4 \in ci)}
  BY HalfShifts DEF Bits
<1>3. Shl(ci, 4) \cap 6 .. 7 = {x \in 0 .. 7 : (x = 7 /\ 3 \in ci) \/ (x = 6 /\ 2 \in ci)}
  BY HalfShifts DEF Bits
<1>4. At(ci, 12, <<5>>) = {x \in 0 .. 7 : \/ x = 5 /\ 12 \in ci}
  BY DEF At
<1>5. At(ci, 6, <<4, 3, 2, 7, 6>>)
        = {x \in 0 .. 7 : \/ x = 4 /\ 6 \in ci
                          \/ x = 3 /\ 5 \in ci
                          \/ x = 2 /\ 4 \in ci
                          \/ x = 7 /\ 3 \in ci
                          \/ x = 6 /\ 2 \in ci}
  BY DEF At
<1>6. (Shr(ci, 7) \cap {5}) \cup (Shr(ci, 2) \cap 2 .. 4) \cup (Shl(ci, 4) \cap 6 .. 7)
         = BitsLwsp(ci)
  BY <1>1, <1>2, <1>3 DEF BitsLwsp
<1>7. At(ci, 12, <<5>>) \cup At(ci, 6, <<4, 3, 2, 7, 6>>) = BitsLwsp(ci)
  BY <1>4, <1>5 DEF BitsLwsp
<1>. QED  BY <1>6, <1>7 DEF ImmLwsp

BitsSwsp(ci) ==
    {x \in 0 .. 7 : \/ x = 5 /\ 12 \in ci
                    \/ x = 4 /\ 11 \in ci
                    \/ x = 3 /\ 10 \in ci
                    \/ x = 2 /\ 9 \in ci
                    \/ x = 7 /\ 8 \in ci
                    \/ x = 6 /\ 7 \in ci}
\* They agree on the offset of C.SWSP.
LEMMA GatherSwsp ==
    ASSUME NEW ci \in Halves
    PROVE  /\ (Shr(ci, 7) \cap 2 .. 5) \cup (Shr(ci, 1) \cap 6 .. 7)
                  = BitsSwsp(ci)
           /\ ImmSwsp(ci) = BitsSwsp(ci)
<1>1. Shr(ci, 7) \cap 2 .. 5 = {x \in 0 .. 7 : (x = 5 /\ 12 \in ci) \/ (x = 4 /\ 11 \in ci) \/
          (x = 3 /\ 10 \in ci) \/ (x = 2 /\ 9 \in ci)}
  BY HalfShifts DEF Bits
<1>2. Shr(ci, 1) \cap 6 .. 7 = {x \in 0 .. 7 : (x = 7 /\ 8 \in ci) \/ (x = 6 /\ 7 \in ci)}
  BY HalfShifts DEF Bits
<1>3. At(ci, 12, <<5, 4, 3, 2, 7, 6>>)
        = {x \in 0 .. 7 : \/ x = 5 /\ 12 \in ci
                          \/ x = 4 /\ 11 \in ci
                          \/ x = 3 /\ 10 \in ci
                          \/ x = 2 /\ 9 \in ci
                          \/ x = 7 /\ 8 \in ci
                          \/ x = 6 /\ 7 \in ci}
  BY DEF At
<1>4. (Shr(ci, 7) \cap 2 .. 5) \cup (Shr(ci, 1) \cap 6 .. 7)
         = BitsSwsp(ci)
  BY <1>1, <1>2 DEF BitsSwsp
<1>5. At(ci, 12, <<5, 4, 3, 2, 7, 6>>) = BitsSwsp(ci)
  BY <1>3 DEF BitsSwsp
<1>. QED  BY <1>4, <1>5 DEF ImmSwsp

\* They agree on the register and function fields of a 16-bit word.
LEMMA HalfFields ==
    ASSUME NEW ci \in Halves
    PROVE  /\ Full(ci, 7) = Slice(ci, 11, 7) /\ Full(ci, 7) \in Regs5
           /\ Full(ci, 2) = Slice(ci, 6, 2) /\ Full(ci, 2) \in Regs5
           /\ Prime(ci, 7) = Popular(ci, 7) /\ Prime(ci, 7) \in Regs5
           /\ Prime(ci, 2) = Popular(ci, 2) /\ Prime(ci, 2) \in Regs5
           /\ Shr(ci, 13) \cap 0 .. 2 = Slice(ci, 15, 13)
           /\ Shr(ci, 10) \cap 0 .. 1 = Slice(ci, 11, 10)
           /\ Shr(ci, 5) \cap 0 .. 1 = Slice(ci, 6, 5)
<1>1. ASSUME NEW lo \in 0 .. 13, NEW k \in 0 .. 4
      PROVE  Shr(ci, lo) \cap 0 .. k = Slice(ci, lo + k, lo)
  <2>1. Shr(ci, lo) = {x \in Bits : x + lo \in ci}
    BY HalfShifts
  <2>2. ASSUME NEW x \in 0 .. k, x + lo \in ci PROVE x \in Slice(ci, lo + k, lo)
    <3>1. x + lo \in ci \cap (lo .. lo + k) /\ x = (x + lo) - lo
      BY <2>2
    <3>. QED  BY <3>1 DEF Slice
  <2>3. \A x \in Slice(ci, lo + k, lo) : x \in 0 .. k /\ x + lo \in ci
    BY DEF Slice
  <2>. QED  BY <2>1, <2>2, <2>3 DEF Bits
<1>2. Full(ci, 7) = Slice(ci, 11, 7) /\ Full(ci, 2) = Slice(ci, 6, 2)
  BY <1>1 DEF Full
<1>3. Full(ci, 7) \in Regs5 /\ Full(ci, 2) \in Regs5
  BY DEF Full, Regs5
<1>4. Prime(ci, 7) = Popular(ci, 7) /\ Prime(ci, 2) = Popular(ci, 2)
  <2>1. Shr(ci, 7) \cap 0 .. 2 = Slice(ci, 9, 7) /\ Shr(ci, 2) \cap 0 .. 2 = Slice(ci, 4, 2)
    BY <1>1
  <2>. QED  BY <2>1 DEF Prime, Popular, creg
<1>5. Prime(ci, 7) \in Regs5 /\ Prime(ci, 2) \in Regs5
  BY DEF Prime, creg, Regs5
<1>6. /\ Shr(ci, 13) \cap 0 .. 2 = Slice(ci, 15, 13)
      /\ Shr(ci, 10) \cap 0 .. 1 = Slice(ci, 11, 10)
      /\ Shr(ci, 5) \cap 0 .. 1 = Slice(ci, 6, 5)
  BY <1>1
<1>. QED  BY <1>2, <1>3, <1>4, <1>5, <1>6

\* What the immediates may be, and where expand_compressed asks whether one is zero.
LEMMA ImmediateTypes ==
    ASSUME NEW ci \in Halves
    PROVE  /\ BitsCI(ci) \in SUBSET (0 .. 5) /\ (5 \in BitsCI(ci) <=> 12 \in ci)
           /\ BitsCL(ci) \in SUBSET (0 .. 10)
           /\ BitsCIW(ci) \in SUBSET (0 .. 10)
           /\ BitsLwsp(ci) \in SUBSET (0 .. 10) /\ BitsSwsp(ci) \in SUBSET (0 .. 10)
           /\ Extends(Sext(BitsCI(ci), 5), 11)
           /\ Sext(BitsCI(ci), 5) \in Words
           /\ Extends(Sext(BitsCJ(ci), 11), 20) /\ 0 \notin Sext(BitsCJ(ci), 11)
           /\ Extends(Sext(BitsCB(ci), 8), 12) /\ 0 \notin Sext(BitsCB(ci), 8)
           /\ Extends(Sext(Bits16sp(ci), 9), 11)
           /\ Sext(Bits16sp(ci), 9) = {} <=> BitsCI(ci) = {}
           /\ Sext(BitsCI(ci), 5) = {} <=> BitsCI(ci) = {}
<1>1. BitsCI(ci) \in SUBSET (0 .. 5) /\ (5 \in BitsCI(ci) <=> 12 \in ci)
  BY DEF BitsCI
<1>2. BitsCL(ci) \in SUBSET (0 .. 10) /\ BitsCIW(ci) \in SUBSET (0 .. 10)
  BY DEF BitsCL, BitsCIW
<1>3. BitsLwsp(ci) \in SUBSET (0 .. 10) /\ BitsSwsp(ci) \in SUBSET (0 .. 10)
  BY DEF BitsLwsp, BitsSwsp
<1>4. Extends(Sext(BitsCI(ci), 5), 11)
  BY <1>1, SextExtends
<1>5. Extends(Sext(BitsCJ(ci), 11), 20) /\ 0 \notin Sext(BitsCJ(ci), 11)
  <2>1. BitsCJ(ci) \in SUBSET (0 .. 11) /\ 0 \notin BitsCJ(ci)
    BY DEF BitsCJ
  <2>. QED  BY <2>1, SextExtends
<1>6. Extends(Sext(BitsCB(ci), 8), 12) /\ 0 \notin Sext(BitsCB(ci), 8)
  <2>1. BitsCB(ci) \in SUBSET (0 .. 8) /\ 0 \notin BitsCB(ci)
    BY DEF BitsCB
  <2>. QED  BY <2>1, SextExtends
<1>7. Bits16sp(ci) \in SUBSET (0 .. 9)
  BY DEF Bits16sp
<1>8. Extends(Sext(Bits16sp(ci), 9), 11)
  BY <1>7, SextExtends
<1>9. /\ Sext(Bits16sp(ci), 9) = {} <=> Bits16sp(ci) = {}
      /\ Sext(BitsCI(ci), 5) = {} <=> BitsCI(ci) = {}
  BY DEF Sext
<1>10. Bits16sp(ci) = {} <=> ci \cap {2, 3, 4, 5, 6, 12} = {}
  BY DEF Bits16sp
<1>11. BitsCI(ci) = {} <=> ci \cap {2, 3, 4, 5, 6, 12} = {}
  BY DEF BitsCI
<1>. QED  BY <1>1, <1>2, <1>3, <1>4, <1>5, <1>6, <1>8, <1>9, <1>10, <1>11 DEF Extends

\* C.LUI's immediate is the CI immediate, sign-extended and moved up by 12.
LEMMA GatherLui ==
    ASSUME NEW ci \in Halves
    PROVE  ImmLui(ci) = Shl(Sext(BitsCI(ci), 5), 12)
<1>. DEFINE L == {x \in 12 .. 17 : x - 12 \in BitsCI(ci)}
<1>1. At(ci, 12, <<17>>) = {x \in 12 .. 17 : x = 17 /\ 12 \in ci}
  BY DEF At
<1>2. At(ci, 6, <<16, 15, 14, 13, 12>>)
        = {x \in 12 .. 17 : \/ x = 16 /\ 6 \in ci
                            \/ x = 15 /\ 5 \in ci
                            \/ x = 14 /\ 4 \in ci
                            \/ x = 13 /\ 3 \in ci
                            \/ x = 12 /\ 2 \in ci}
  BY DEF At
<1>3. L = {x \in 12 .. 17 : \/ x = 17 /\ 12 \in ci
                            \/ x = 16 /\ 6 \in ci
                            \/ x = 15 /\ 5 \in ci
                            \/ x = 14 /\ 4 \in ci
                            \/ x = 13 /\ 3 \in ci
                            \/ x = 12 /\ 2 \in ci}
  BY DEF BitsCI
<1>4. At(ci, 12, <<17>>) \cup At(ci, 6, <<16, 15, 14, 13, 12>>) = L
  BY <1>1, <1>2, <1>3
<1>5. L \in SUBSET Bits /\ 17 \in Bits /\ BitsCI(ci) \in SUBSET (0 .. 5) /\
          BitsCI(ci) \in SUBSET Bits
  BY ImmediateTypes DEF Bits
<1>6. ImmLui(ci) = Sext(L, 17)
  BY <1>4, <1>5, SignedIsSext DEF ImmLui
<1>7. Sext(L, 17) = {x \in Bits : x \in L \/ (17 \in L /\ x > 17)}
  BY <1>5, SextIn
<1>8. Sext(BitsCI(ci), 5) = {x \in Bits : x \in BitsCI(ci) \/ (5 \in BitsCI(ci) /\ x > 5)}
  <2>1. 5 \in Bits
    BY DEF Bits
  <2>. QED  BY <1>5, <2>1, SextIn
<1>9. Shl(Sext(BitsCI(ci), 5), 12) = {x \in Bits : x - 12 \in Sext(BitsCI(ci), 5)}
  <2>1. Sext(BitsCI(ci), 5) \in SUBSET Bits
    BY <1>8
  <2>. QED  BY <2>1, ShlIn
<1>10. 17 \in L <=> 5 \in BitsCI(ci)
  OBVIOUS
<1>11. ASSUME NEW x \in Bits
       PROVE  x \in Sext(L, 17) <=> x - 12 \in Sext(BitsCI(ci), 5)
  <2>1. x \in L <=> x - 12 \in BitsCI(ci)
    BY <1>5 DEF Bits
  <2>2. x > 17 <=> x - 12 > 5
    BY DEF Bits
  <2>3. x - 12 \in Bits <=> x >= 12
    BY DEF Bits
  <2>4. x \in Sext(L, 17) <=> x \in L \/ (17 \in L /\ x > 17)
    BY <1>7
  <2>5. x - 12 \in Sext(BitsCI(ci), 5)
          <=> x - 12 \in Bits /\ (x - 12 \in BitsCI(ci) \/ (5 \in BitsCI(ci) /\ x - 12 > 5))
    BY <1>8
  <2>6. x - 12 \in BitsCI(ci) => x - 12 \in Bits
    BY <1>5
  <2>7. x > 17 => x >= 12
    BY DEF Bits
  <2>. QED  BY <1>10, <2>1, <2>2, <2>3, <2>4, <2>5, <2>6, <2>7
<1>12. Sext(L, 17) \in SUBSET Bits
  BY <1>7
<1>. QED  BY <1>6, <1>9, <1>11, <1>12
-----------------------------------------------------------------------------
(* The three quadrants of the 16-bit instructions.                          *)

\* The expanded word e is there and decodes to the instruction op.
Expands(e, op) == e # {} /\ Is(decode32(e), op.type, op.rd, op.rs1, op.rs2, op.imm)
Rejected(e)    == e = {} \/ decode32(e).type = "ILLEGAL"

\* An expansion that decodes to an operation is an expansion of it.
LEMMA ExpandsOp ==
    ASSUME NEW e, NEW type, NEW dest, NEW src1, NEW src2, NEW imm,
           e # {}, Is(decode32(e), type, dest, src1, src2, imm)
    PROVE  Expands(e, Op(type, dest, src1, src2, imm))
  BY DEF Expands, Op

\* There are eight sets of the bits 0 .. 2.
LEMMA Codes ==
    ASSUME NEW f \in SUBSET (0 .. 2)
    PROVE  f \in {{}, {0}, {1}, {0, 1}, {2}, {0, 2}, {1, 2}, {0, 1, 2}}
<1>1. \A x \in f : x = 0 \/ x = 1 \/ x = 2
  OBVIOUS
<1>2. CASE 0 \in f
  BY <1>1, <1>2
<1>3. CASE 0 \notin f
  BY <1>1, <1>3
<1>. QED  BY <1>2, <1>3

\* Those eight sets differ.
LEMMA CodesDiffer ==
    /\ {} \notin {{0}, {1}, {0, 1}, {2}, {0, 2}, {1, 2}, {0, 1, 2}}
    /\ {0} \notin {{1}, {0, 1}, {2}, {0, 2}, {1, 2}, {0, 1, 2}}
    /\ {1} \notin {{0, 1}, {2}, {0, 2}, {1, 2}, {0, 1, 2}}
    /\ {0, 1} \notin {{2}, {0, 2}, {1, 2}, {0, 1, 2}}
    /\ {2} \notin {{0, 2}, {1, 2}, {0, 1, 2}}
    /\ {0, 2} \notin {{1, 2}, {0, 1, 2}}
    /\ {1, 2} # {0, 1, 2}
  OBVIOUS

\* sp, ra and zero are register numbers.
LEMMA Constants5 == sp \in Regs5 /\ ra \in Regs5 /\ zero \in Regs5 /\ sp = {1} /\ ra = {0} /\
        zero = {}
  BY DEF sp, ra, zero, Regs5

\* Quadrant 0 rejects its reserved words and expands the others to what they mean.
LEMMA Quadrant0Right ==
    ASSUME NEW ci \in Halves, ci \cap 0 .. 1 = {}, NEW f3, f3 = Slice(ci, 15, 13)
    PROVE  IF Reserved(ci) THEN Rejected(Quadrant0(ci, f3))
                           ELSE Expands(Quadrant0(ci, f3), Rvc(ci))
<1>1. Reserved(ci) <=> f3 \notin {{}, {1}, {1, 2}} \/ (f3 = {} /\ ImmCIW(ci) = {})
  BY CodesDiffer DEF Reserved
<1>2. Rvc(ci) = Load0(ci, f3)
  BY CodesDiffer DEF Rvc
<1>3. /\ Prime(ci, 2) = Popular(ci, 2) /\ Prime(ci, 2) \in Regs5
      /\ Prime(ci, 7) = Popular(ci, 7) /\ Prime(ci, 7) \in Regs5
  BY HalfFields
<1>4. OffLw(ci) = BitsCL(ci) /\ ImmCL(ci) = BitsCL(ci) /\ BitsCL(ci) \in SUBSET (0 .. 10)
  BY GatherCL, ImmediateTypes
<1>5. CASE f3 = {}
  <2>1. /\ (Shr(ci, 1) \cap 6 .. 9) \cup (Shr(ci, 7) \cap 4 .. 5)
               \cup (Shr(ci, 2) \cap {3}) \cup (Shr(ci, 4) \cap {2}) = BitsCIW(ci)
        /\ ImmCIW(ci) = BitsCIW(ci) /\ BitsCIW(ci) \in SUBSET (0 .. 10)
    BY GatherCIW, ImmediateTypes
  <2>. DEFINE e == ImmWord(BitsCIW(ci), {1}, 0, Prime(ci, 2), OP_IMM)
  <2>2. Quadrant0(ci, f3) = IF BitsCIW(ci) = {} THEN {} ELSE e
    BY <1>5, <2>1 DEF Quadrant0
  <2>3. Expands(e, Op("ADDI", Prime(ci, 2), {1}, {}, BitsCIW(ci)))
    BY <1>3, <2>1, ShortExtends, AluImmWord, ExpandsOp, Constants5
  <2>4. Load0(ci, f3) = Op("ADDI", Prime(ci, 2), {1}, {}, BitsCIW(ci))
    BY <1>3, <1>5, <2>1, Constants5 DEF Load0
  <2>. QED  BY <1>1, <1>2, <1>5, <2>1, <2>2, <2>3, <2>4, CodesDiffer DEF Rejected
<1>6. CASE f3 = {1}
  <2>1. Quadrant0(ci, f3) = ImmWord(OffLw(ci), Prime(ci, 7), 2, Prime(ci, 2), OP_LOAD)
    BY <1>6, CodesDiffer DEF Quadrant0
  <2>2. Expands(Quadrant0(ci, f3), Op("LW", Prime(ci, 2), Prime(ci, 7), {}, BitsCL(ci)))
    BY <1>3, <1>4, <2>1, ShortExtends, LoadWord, ExpandsOp
  <2>3. Load0(ci, f3) = Op("LW", Prime(ci, 2), Prime(ci, 7), {}, BitsCL(ci))
    BY <1>3, <1>4, <1>6, CodesDiffer, Constants5 DEF Load0
  <2>. QED  BY <1>1, <1>2, <1>6, <2>2, <2>3, CodesDiffer
<1>7. CASE f3 = {1, 2}
  <2>1. Quadrant0(ci, f3) = StoreWord(OffLw(ci), Prime(ci, 2), Prime(ci, 7))
    BY <1>7, CodesDiffer DEF Quadrant0
  <2>2. Expands(Quadrant0(ci, f3), Op("SW", {}, Prime(ci, 7), Prime(ci, 2), BitsCL(ci)))
    BY <1>3, <1>4, <2>1, StoreWordIs, ExpandsOp
  <2>3. Load0(ci, f3) = Op("SW", {}, Prime(ci, 7), Prime(ci, 2), BitsCL(ci))
    BY <1>3, <1>4, <1>7, CodesDiffer, Constants5 DEF Load0
  <2>. QED  BY <1>1, <1>2, <1>7, <2>2, <2>3, CodesDiffer
<1>8. CASE f3 \notin {{}, {1}, {1, 2}}
  <2>1. Quadrant0(ci, f3) = {}
    BY <1>8 DEF Quadrant0
  <2>. QED  BY <1>1, <1>8, <2>1 DEF Rejected
<1>. QED  BY <1>5, <1>6, <1>7, <1>8

\* C.ADDI16SP and C.LUI.
LEMMA LuiRight ==
    ASSUME NEW ci \in Halves
    PROVE  LET r == Slice(ci, 11, 7) IN
           IF BitsCI(ci) = {} THEN LuiOrAddi16sp(ci) = {}
           ELSE Expands(LuiOrAddi16sp(ci), IF r = sp THEN Op("ADDI", sp, sp, zero, Imm16sp(ci))
                                                     ELSE Op("LUI", r, zero, zero, ImmLui(ci)))
<1>. DEFINE r == Full(ci, 7)
            up == Sext(BitsCI(ci), 5)
            s16 == Sext(Bits16sp(ci), 9)
            eLui == Shl(up, 12) \cup Shl(r, 7) \cup OP_LUI
            eSp == ImmWord(s16, {1}, 0, {1}, OP_IMM)
<1>1. /\ Slice(ci, 11, 7) = r /\ r \in Regs5
      /\ Imm6(ci) = BitsCI(ci)
      /\ (Shr(ci, 3) \cap {9}) \cup (Shr(ci, 2) \cap {4}) \cup (Shl(ci, 1) \cap {6})
             \cup (Shl(ci, 4) \cap 7 .. 8) \cup (Shl(ci, 3) \cap {5}) = Bits16sp(ci)
      /\ Imm16sp(ci) = s16 /\ ImmLui(ci) = Shl(up, 12)
  BY HalfFields, GatherCI, Gather16sp, GatherLui
<1>2. LuiOrAddi16sp(ci) = IF r = {1} THEN (IF s16 = {} THEN {} ELSE eSp)
                                     ELSE (IF up = {} THEN {} ELSE eLui)
  BY <1>1 DEF LuiOrAddi16sp
<1>3. /\ s16 = {} <=> BitsCI(ci) = {}
      /\ up = {} <=> BitsCI(ci) = {}
      /\ Extends(s16, 11) /\ up \in Words
  BY ImmediateTypes
<1>. HIDE DEF up, s16, r
<1>4. Expands(eSp, Op("ADDI", {1}, {1}, {}, s16))
  BY <1>3, AluImmWord, ExpandsOp, Constants5
<1>5. Expands(eLui, Op("LUI", r, {}, {}, Shl(up, 12)))
  BY <1>1, <1>3, LuiWordIs, ExpandsOp
<1>. HIDE DEF eSp, eLui
<1>. QED  BY <1>1, <1>2, <1>3, <1>4, <1>5, Constants5

\* The ALU group.
LEMMA AluRight ==
    ASSUME NEW ci \in Halves
    PROVE  IF (11 \notin ci /\ 12 \in ci) \/ {10, 11, 12} \subseteq ci
           THEN Rejected(CompressedAlu(ci))
           ELSE Expands(CompressedAlu(ci), Arith1(ci))
<1>. DEFINE r == Prime(ci, 7)
            r2 == Prime(ci, 2)
            sub == Slice(ci, 11, 10)
            sub2 == Slice(ci, 6, 5)
            imm == BitsCI(ci)
<1>1. /\ r = Popular(ci, 7) /\ r \in Regs5 /\ r2 = Popular(ci, 2) /\ r2 \in Regs5
      /\ Shr(ci, 10) \cap 0 .. 1 = sub /\ Shr(ci, 5) \cap 0 .. 1 = sub2
  BY HalfFields
<1>2. /\ Imm6(ci) = imm /\ ImmCI(ci) = imm /\ imm \in SUBSET (0 .. 5) /\ (5 \in imm <=> 12 \in ci)
      /\ Extends(Sext(imm, 5), 11)
  BY GatherCI, ImmediateTypes
<1>3. Signed(ImmCI(ci), 5) = Sext(imm, 5)
  <2>1. imm \in SUBSET Bits /\ 5 \in Bits
    BY <1>2 DEF Bits
  <2>. QED  BY <1>2, <2>1, SignedIsSext
<1>4. sub = IF 10 \in ci THEN (IF 11 \in ci THEN {0, 1} ELSE {0})
                         ELSE (IF 11 \in ci THEN {1} ELSE {})
  <2>1. Shr(ci, 10) = {x \in Bits : x + 10 \in ci}
    BY HalfShifts
  <2>2. \A x \in 0 .. 1 : x \in sub <=> x + 10 \in ci
    BY <1>1, <2>1 DEF Bits
  <2>3. (0 \in sub <=> 10 \in ci) /\ (1 \in sub <=> 11 \in ci) /\ sub \in SUBSET {0, 1}
    BY <1>1, <2>2
  <2>. QED  BY <2>3
<1>. HIDE DEF r, r2, sub, sub2, imm
<1>5. CASE sub = {}
  <2>0. 10 \notin ci /\ 11 \notin ci
    BY <1>4, <1>5
  <2>1. CompressedAlu(ci) = Fields(F7_NORMAL, imm, r, 5, r, OP_IMM)
    BY <1>1, <1>2, <1>5 DEF CompressedAlu, r
  <2>2. Arith1(ci) = Op("SRLI", r, r, {}, imm)
    BY <1>1, <1>2, <1>5, Constants5 DEF Arith1, sub
  <2>3. CASE 12 \in ci
    BY <1>1, <1>2, <2>0, <2>1, <2>3, ShiftWord DEF Rejected
  <2>4. CASE 12 \notin ci
    BY <1>1, <1>2, <2>0, <2>1, <2>2, <2>4, ShiftWord, ExpandsOp
  <2>. QED  BY <2>3, <2>4
<1>6. CASE sub = {0}
  <2>0. 10 \in ci /\ 11 \notin ci
    BY <1>4, <1>6, CodesDiffer
  <2>1. CompressedAlu(ci) = Fields(F7_ALT, imm, r, 5, r, OP_IMM)
    BY <1>1, <1>2, <1>6, CodesDiffer DEF CompressedAlu, r
  <2>2. Arith1(ci) = Op("SRAI", r, r, {}, imm)
    BY <1>1, <1>2, <1>6, Constants5, CodesDiffer DEF Arith1, sub
  <2>3. CASE 12 \in ci
    BY <1>1, <1>2, <2>0, <2>1, <2>3, ShiftWord DEF Rejected
  <2>4. CASE 12 \notin ci
    BY <1>1, <1>2, <2>0, <2>1, <2>2, <2>4, ShiftWord, ExpandsOp
  <2>. QED  BY <2>3, <2>4
<1>7. CASE sub = {1}
  <2>0. 10 \notin ci /\ 11 \in ci
    BY <1>4, <1>7, CodesDiffer
  <2>1. CompressedAlu(ci) = ImmWord(Sext(imm, 5), r, 7, r, OP_IMM)
    BY <1>1, <1>2, <1>7, CodesDiffer DEF CompressedAlu, r
  <2>2. Arith1(ci) = Op("ANDI", r, r, {}, Sext(imm, 5))
    BY <1>1, <1>3, <1>7, Constants5, CodesDiffer DEF Arith1, sub
  <2>3. Expands(CompressedAlu(ci), Op("ANDI", r, r, {}, Sext(imm, 5)))
    BY <1>1, <1>2, <2>1, AluImmWord, ExpandsOp
  <2>. QED  BY <2>0, <2>2, <2>3
<1>8. CASE sub = {0, 1} /\ 12 \in ci
  <2>1. CompressedAlu(ci) = {}
    BY <1>1, <1>8, CodesDiffer DEF CompressedAlu
  <2>2. {10, 11, 12} \subseteq ci
    BY <1>4, <1>8, CodesDiffer
  <2>. QED  BY <2>1, <2>2 DEF Rejected
<1>9. CASE sub = {0, 1} /\ 12 \notin ci
  <2>0. 10 \in ci /\ 11 \in ci
    BY <1>4, <1>9, CodesDiffer
  <2>1. CompressedAlu(ci) = CASE sub2 = {}  -> RegWord(F7_ALT, r2, r, 0, r)
                              [] sub2 = {0} -> RegWord(F7_NORMAL, r2, r, 4, r)
                              [] sub2 = {1} -> RegWord(F7_NORMAL, r2, r, 6, r)
                              [] OTHER      -> RegWord(F7_NORMAL, r2, r, 7, r)
    BY <1>1, <1>9, CodesDiffer DEF CompressedAlu, r, r2
  <2>2. Arith1(ci) = CASE sub2 = {}  -> Op("SUB", r, r, r2, {})
                       [] sub2 = {0} -> Op("XOR", r, r, r2, {})
                       [] sub2 = {1} -> Op("OR", r, r, r2, {})
                       [] OTHER      -> Op("AND", r, r, r2, {})
    BY <1>1, <1>9, CodesDiffer DEF Arith1, sub, sub2
  <2>3. 0 \in Funct3 /\ 4 \in Funct3 /\ 6 \in Funct3 /\ 7 \in Funct3
    BY DEF Funct3
  <2>4. /\ Expands(RegWord(F7_ALT, r2, r, 0, r), Op("SUB", r, r, r2, {}))
        /\ Expands(RegWord(F7_NORMAL, r2, r, 4, r), Op("XOR", r, r, r2, {}))
        /\ Expands(RegWord(F7_NORMAL, r2, r, 6, r), Op("OR", r, r, r2, {}))
        /\ Expands(RegWord(F7_NORMAL, r2, r, 7, r), Op("AND", r, r, r2, {}))
    BY <1>1, <2>3, RegWordIs, ExpandsOp
  <2>5. Expands(CompressedAlu(ci), Arith1(ci))
    BY <2>1, <2>2, <2>4, CodesDiffer
  <2>. QED  BY <1>9, <2>0, <2>5
<1>. QED  BY <1>4, <1>5, <1>6, <1>7, <1>8, <1>9

\* The same of quadrant 1.
LEMMA Quadrant1Right ==
    ASSUME NEW ci \in Halves, ci \cap 0 .. 1 = {0}, NEW f3, f3 = Slice(ci, 15, 13)
    PROVE  IF Reserved(ci) THEN Rejected(Quadrant1(ci, f3))
                           ELSE Expands(Quadrant1(ci, f3), Rvc(ci))
<1>1. Reserved(ci) <=> \/ f3 = {0, 1} /\ ImmCI(ci) = {}
                       \/ f3 = {2} /\ 11 \notin ci /\ 12 \in ci
                       \/ f3 = {2} /\ {10, 11, 12} \subseteq ci
  BY CodesDiffer DEF Reserved
<1>2. Rvc(ci) = Control1(ci, f3)
  BY CodesDiffer DEF Rvc
<1>3. /\ Full(ci, 7) = Slice(ci, 11, 7) /\ Full(ci, 7) \in Regs5
      /\ Prime(ci, 7) = Popular(ci, 7) /\ Prime(ci, 7) \in Regs5
  BY HalfFields
<1>4. /\ Imm6(ci) = BitsCI(ci) /\ ImmCI(ci) = BitsCI(ci) /\ BitsCI(ci) \in SUBSET (0 .. 5)
      /\ Extends(Sext(BitsCI(ci), 5), 11)
  BY GatherCI, ImmediateTypes
<1>5. Signed(ImmCI(ci), 5) = Sext(BitsCI(ci), 5)
  <2>1. BitsCI(ci) \in SUBSET Bits /\ 5 \in Bits
    BY <1>4 DEF Bits
  <2>. QED  BY <1>4, <2>1, SignedIsSext
<1>6. /\ OffJ(ci) = ImmCJ(ci) /\ Extends(ImmCJ(ci), 20) /\ 0 \notin ImmCJ(ci)
      /\ OffB(ci) = ImmCB(ci) /\ Extends(ImmCB(ci), 12) /\ 0 \notin ImmCB(ci)
  BY GatherCJ, GatherCB, ImmediateTypes
<1>7. f3 \in {{}, {0}, {1}, {0, 1}, {2}, {0, 2}, {1, 2}, {0, 1, 2}}
  <2>1. f3 = Shr(ci, 13) \cap 0 .. 2
    BY HalfFields
  <2>2. f3 \in SUBSET (0 .. 2)
    BY <2>1
  <2>. QED  BY <2>2, Codes
<1>. DEFINE r == Full(ci, 7)
            p == Prime(ci, 7)
            e == Quadrant1(ci, f3)
            imm == Sext(BitsCI(ci), 5)
<1>8. CASE f3 = {}
  <2>1. e = ImmWord(imm, r, 0, r, OP_IMM)
    BY <1>4, <1>8, CodesDiffer DEF Quadrant1
  <2>2. Expands(e, Op("ADDI", r, r, {}, imm))
    BY <1>3, <1>4, <2>1, AluImmWord, ExpandsOp
  <2>3. Control1(ci, f3) = Op("ADDI", r, r, {}, imm)
    BY <1>3, <1>5, <1>8, CodesDiffer, Constants5 DEF Control1
  <2>. QED  BY <1>1, <1>2, <1>8, <2>2, <2>3, CodesDiffer
<1>9. CASE f3 = {0}
  <2>1. e = JalWord(ImmCJ(ci), {0})
    BY <1>6, <1>9, CodesDiffer DEF Quadrant1
  <2>2. Expands(e, Op("JAL", {0}, {}, {}, ImmCJ(ci)))
    BY <1>6, <2>1, JalWordIs, ExpandsOp, Constants5
  <2>3. Control1(ci, f3) = Op("JAL", {0}, {}, {}, ImmCJ(ci))
    BY <1>9, CodesDiffer, Constants5 DEF Control1
  <2>. QED  BY <1>1, <1>2, <1>9, <2>2, <2>3, CodesDiffer
<1>10. CASE f3 = {1}
  <2>1. e = ImmWord(imm, {}, 0, r, OP_IMM)
    BY <1>4, <1>10, CodesDiffer DEF Quadrant1
  <2>2. Expands(e, Op("ADDI", r, {}, {}, imm))
    BY <1>3, <1>4, <2>1, AluImmWord, ExpandsOp, Constants5
  <2>3. Control1(ci, f3) = Op("ADDI", r, {}, {}, imm)
    BY <1>3, <1>5, <1>10, CodesDiffer, Constants5 DEF Control1
  <2>. QED  BY <1>1, <1>2, <1>10, <2>2, <2>3, CodesDiffer
<1>11. CASE f3 = {0, 1}
  <2>1. e = LuiOrAddi16sp(ci)
    BY <1>11, CodesDiffer DEF Quadrant1
  <2>2. Control1(ci, f3) = IF Slice(ci, 11, 7) = sp
                           THEN Op("ADDI", sp, sp, zero, Imm16sp(ci))
                           ELSE Op("LUI", Slice(ci, 11, 7), zero, zero, ImmLui(ci))
    BY <1>11, CodesDiffer DEF Control1
  <2>3. IF BitsCI(ci) = {} THEN e = {} ELSE Expands(e, Control1(ci, f3))
    BY <2>1, <2>2, LuiRight
  <2>. QED  BY <1>1, <1>2, <1>4, <1>11, <2>3, CodesDiffer DEF Rejected
<1>12. CASE f3 = {2}
  <2>1. e = CompressedAlu(ci)
    BY <1>12, CodesDiffer DEF Quadrant1
  <2>2. Control1(ci, f3) = Arith1(ci)
    BY <1>12, CodesDiffer DEF Control1
  <2>. QED  BY <1>1, <1>2, <1>12, <2>1, <2>2, AluRight, CodesDiffer
<1>13. CASE f3 = {0, 2}
  <2>1. e = JalWord(ImmCJ(ci), {})
    BY <1>6, <1>13, CodesDiffer DEF Quadrant1
  <2>2. Expands(e, Op("JAL", {}, {}, {}, ImmCJ(ci)))
    BY <1>6, <2>1, JalWordIs, ExpandsOp, Constants5
  <2>3. Control1(ci, f3) = Op("JAL", {}, {}, {}, ImmCJ(ci))
    BY <1>13, CodesDiffer, Constants5 DEF Control1
  <2>. QED  BY <1>1, <1>2, <1>13, <2>2, <2>3, CodesDiffer
<1>14. CASE f3 = {1, 2}
  <2>1. e = BranchWord(ImmCB(ci), p, 0)
    BY <1>6, <1>14, CodesDiffer DEF Quadrant1
  <2>2. Expands(e, Op("BEQ", {}, p, {}, ImmCB(ci)))
    BY <1>3, <1>6, <2>1, BranchWordIs, ExpandsOp
  <2>3. Control1(ci, f3) = Op("BEQ", {}, p, {}, ImmCB(ci))
    BY <1>3, <1>14, CodesDiffer, Constants5 DEF Control1
  <2>. QED  BY <1>1, <1>2, <1>14, <2>2, <2>3, CodesDiffer
<1>15. CASE f3 = {0, 1, 2}
  <2>1. e = BranchWord(ImmCB(ci), p, 1)
    BY <1>6, <1>15, CodesDiffer DEF Quadrant1
  <2>2. Expands(e, Op("BNE", {}, p, {}, ImmCB(ci)))
    BY <1>3, <1>6, <2>1, BranchWordIs, ExpandsOp
  <2>3. Control1(ci, f3) = Op("BNE", {}, p, {}, ImmCB(ci))
    BY <1>3, <1>15, CodesDiffer, Constants5 DEF Control1
  <2>. QED  BY <1>1, <1>2, <1>15, <2>2, <2>3, CodesDiffer
<1>. QED  BY <1>7, <1>8, <1>9, <1>10, <1>11, <1>12, <1>13, <1>14, <1>15

\* C.JR, C.JALR, C.MV, C.ADD and C.EBREAK: the all-zero operands are the reserved ones.
LEMMA ZeroOperands ==
    ASSUME NEW ci \in Halves
    PROVE  ci \cap 2 .. 12 = {} <=> Full(ci, 7) = {} /\ Full(ci, 2) = {} /\ 12 \notin ci
<1>1. /\ Shr(ci, 7) = {x \in Bits : x + 7 \in ci}
      /\ Shr(ci, 2) = {x \in Bits : x + 2 \in ci}
  BY HalfShifts
<1>2. Full(ci, 7) = {} <=> \A x \in 0 .. 4 : x + 7 \notin ci
  <2>1. Full(ci, 7) = {x \in 0 .. 4 : x + 7 \in ci}
    BY <1>1 DEF Full, Bits
  <2>. QED  BY <2>1
<1>3. Full(ci, 2) = {} <=> \A x \in 0 .. 4 : x + 2 \notin ci
  <2>1. Full(ci, 2) = {x \in 0 .. 4 : x + 2 \in ci}
    BY <1>1 DEF Full, Bits
  <2>. QED  BY <2>1
<1>4. (\A x \in 0 .. 4 : x + 7 \notin ci) <=> \A y \in 7 .. 11 : y \notin ci
  <2>1. \A y \in 7 .. 11 : y - 7 \in 0 .. 4 /\ (y - 7) + 7 = y
    OBVIOUS
  <2>2. \A x \in 0 .. 4 : x + 7 \in 7 .. 11
    OBVIOUS
  <2>. QED  BY <2>1, <2>2
<1>5. (\A x \in 0 .. 4 : x + 2 \notin ci) <=> \A y \in 2 .. 6 : y \notin ci
  <2>1. \A y \in 2 .. 6 : y - 2 \in 0 .. 4 /\ (y - 2) + 2 = y
    OBVIOUS
  <2>2. \A x \in 0 .. 4 : x + 2 \in 2 .. 6
    OBVIOUS
  <2>. QED  BY <2>1, <2>2
<1>6. \A y : y \in 2 .. 12 <=> y \in 7 .. 11 \/ y \in 2 .. 6 \/ y = 12
  OBVIOUS
<1>. QED  BY <1>2, <1>3, <1>4, <1>5, <1>6

\* The same of the C.JR, C.MV, C.EBREAK, C.JALR and C.ADD group of quadrant 2.
LEMMA MoveRight ==
    ASSUME NEW ci \in Halves
    PROVE  IF ci \cap 2 .. 12 = {} THEN JumpOrMove(ci) = {}
                                   ELSE Expands(JumpOrMove(ci), Stack2(ci, {2}))
<1>. DEFINE r == Full(ci, 7)
            s == Full(ci, 2)
<1>1. r = Slice(ci, 11, 7) /\ r \in Regs5 /\ s = Slice(ci, 6, 2) /\ s \in Regs5
  BY HalfFields
<1>2. ci \cap 2 .. 12 = {} <=> r = {} /\ s = {} /\ 12 \notin ci
  BY ZeroOperands
<1>. HIDE DEF r, s
<1>3. CASE s # {}
  <2>. DEFINE a == IF 12 \in ci THEN r ELSE {}
  <2>1. a \in Regs5
    BY <1>1, Constants5
  <2>2. JumpOrMove(ci) = RegWord(F7_NORMAL, s, a, 0, r)
    BY <1>3 DEF JumpOrMove, r, s
  <2>3. Stack2(ci, {2}) = Op("ADD", r, a, s, {})
    BY <1>1, <1>3, Constants5, CodesDiffer DEF Stack2
  <2>4. 0 \in Funct3
    BY DEF Funct3
  <2>. HIDE DEF a
  <2>5. Expands(RegWord(F7_NORMAL, s, a, 0, r), Op("ADD", r, a, s, {}))
    BY <1>1, <2>1, <2>4, RegWordIs, ExpandsOp
  <2>. QED  BY <1>2, <1>3, <2>2, <2>3, <2>5
<1>4. CASE s = {} /\ r # {}
  <2>. DEFINE a == IF 12 \in ci THEN {0} ELSE {}
  <2>1. a \in Regs5
    BY Constants5
  <2>2. JumpOrMove(ci) = ImmWord({}, r, 0, a, OP_JALR)
    BY <1>4 DEF JumpOrMove, r, s
  <2>3. Stack2(ci, {2}) = Op("JALR", a, r, {}, {})
    BY <1>1, <1>4, Constants5, CodesDiffer DEF Stack2
  <2>. HIDE DEF a
  <2>4. Expands(ImmWord({}, r, 0, a, OP_JALR), Op("JALR", a, r, {}, {}))
    BY <1>1, <2>1, JalrWord, ExpandsOp
  <2>. QED  BY <1>2, <1>4, <2>2, <2>3, <2>4
<1>5. CASE s = {} /\ r = {}
  <2>1. JumpOrMove(ci) = IF 12 \in ci THEN ImmWord({0}, {}, 0, {}, OP_SYSTEM) ELSE {}
    BY <1>5 DEF JumpOrMove, r, s
  <2>2. Stack2(ci, {2}) = Op("EBREAK", {}, {}, {}, {})
    BY <1>1, <1>5, Constants5, CodesDiffer DEF Stack2
  <2>3. Expands(ImmWord({0}, {}, 0, {}, OP_SYSTEM), Op("EBREAK", {}, {}, {}, {}))
    BY EbreakWord, ExpandsOp
  <2>. QED  BY <1>2, <1>5, <2>1, <2>2, <2>3
<1>. QED  BY <1>3, <1>4, <1>5

\* The same of quadrant 2.
LEMMA Quadrant2Right ==
    ASSUME NEW ci \in Halves, ci \cap 0 .. 1 = {1}, NEW f3, f3 = Slice(ci, 15, 13)
    PROVE  IF Reserved(ci) THEN Rejected(Quadrant2(ci, f3))
                           ELSE Expands(Quadrant2(ci, f3), Rvc(ci))
<1>1. Reserved(ci) <=> \/ f3 \notin {{}, {1}, {2}, {1, 2}}
                       \/ f3 = {} /\ 12 \in ci
                       \/ f3 = {1} /\ Slice(ci, 11, 7) = {}
                       \/ f3 = {2} /\ ci \cap 2 .. 12 = {}
  BY CodesDiffer, Constants5 DEF Reserved
<1>2. Rvc(ci) = Stack2(ci, f3)
  BY CodesDiffer DEF Rvc
<1>. DEFINE r == Full(ci, 7)
            s == Full(ci, 2)
            e == Quadrant2(ci, f3)
<1>3. r = Slice(ci, 11, 7) /\ r \in Regs5 /\ s = Slice(ci, 6, 2) /\ s \in Regs5
  BY HalfFields
<1>4. CASE f3 = {}
  <2>1. /\ Imm6(ci) = BitsCI(ci) /\ ImmCI(ci) = BitsCI(ci) /\ BitsCI(ci) \in SUBSET (0 .. 5)
        /\ (5 \in BitsCI(ci) <=> 12 \in ci)
    BY GatherCI, ImmediateTypes
  <2>2. e = Fields(F7_NORMAL, BitsCI(ci), r, 1, r, OP_IMM)
    BY <1>4, <2>1 DEF Quadrant2
  <2>3. Stack2(ci, f3) = Op("SLLI", r, r, {}, BitsCI(ci))
    BY <1>3, <1>4, <2>1, Constants5 DEF Stack2
  <2>. HIDE DEF r, e
  <2>4. CASE 12 \in ci
    <3>1. decode32(e).type = "ILLEGAL"
      BY <1>3, <2>1, <2>2, <2>4, ShiftWord
    <3>. QED  BY <1>1, <1>4, <2>4, <3>1 DEF Rejected, e
  <2>5. CASE 12 \notin ci
    <3>1. Expands(e, Op("SLLI", r, r, {}, BitsCI(ci)))
      BY <1>3, <2>1, <2>2, <2>5, ShiftWord, ExpandsOp
    <3>. QED  BY <1>1, <1>2, <1>4, <2>3, <2>5, <3>1, CodesDiffer DEF e
  <2>. QED  BY <2>4, <2>5
<1>5. CASE f3 = {1}
  <2>1. /\ (Shr(ci, 7) \cap {5}) \cup (Shr(ci, 2) \cap 2 .. 4) \cup (Shl(ci, 4) \cap 6 .. 7)
               = BitsLwsp(ci)
        /\ ImmLwsp(ci) = BitsLwsp(ci) /\ BitsLwsp(ci) \in SUBSET (0 .. 10)
    BY GatherLwsp, ImmediateTypes
  <2>2. e = IF r = {} THEN {} ELSE ImmWord(BitsLwsp(ci), {1}, 2, r, OP_LOAD)
    BY <1>5, <2>1, CodesDiffer DEF Quadrant2
  <2>3. Stack2(ci, f3) = Op("LW", r, {1}, {}, BitsLwsp(ci))
    BY <1>3, <1>5, <2>1, Constants5, CodesDiffer DEF Stack2
  <2>. HIDE DEF r, e
  <2>4. Expands(ImmWord(BitsLwsp(ci), {1}, 2, r, OP_LOAD), Op("LW", r, {1}, {}, BitsLwsp(ci)))
    BY <1>3, <2>1, ShortExtends, LoadWord, ExpandsOp, Constants5
  <2>5. Reserved(ci) <=> r = {}
    BY <1>1, <1>3, <1>5, CodesDiffer
  <2>. QED  BY <1>2, <2>2, <2>3, <2>4, <2>5 DEF Rejected, e
<1>6. CASE f3 = {2}
  <2>1. e = JumpOrMove(ci)
    BY <1>6, CodesDiffer DEF Quadrant2
  <2>2. Reserved(ci) <=> ci \cap 2 .. 12 = {}
    BY <1>1, <1>6, CodesDiffer
  <2>. QED  BY <1>2, <1>6, <2>1, <2>2, MoveRight DEF Rejected
<1>7. CASE f3 = {1, 2}
  <2>1. /\ (Shr(ci, 7) \cap 2 .. 5) \cup (Shr(ci, 1) \cap 6 .. 7) = BitsSwsp(ci)
        /\ ImmSwsp(ci) = BitsSwsp(ci) /\ BitsSwsp(ci) \in SUBSET (0 .. 10)
    BY GatherSwsp, ImmediateTypes
  <2>2. e = StoreWord(BitsSwsp(ci), s, {1})
    BY <1>7, <2>1, CodesDiffer DEF Quadrant2
  <2>3. Stack2(ci, f3) = Op("SW", {}, {1}, s, BitsSwsp(ci))
    BY <1>3, <1>7, <2>1, Constants5, CodesDiffer DEF Stack2
  <2>. HIDE DEF s, e
  <2>4. Expands(e, Op("SW", {}, {1}, s, BitsSwsp(ci)))
    BY <1>3, <2>1, <2>2, StoreWordIs, ExpandsOp, Constants5
  <2>5. ~Reserved(ci)
    BY <1>1, <1>7, CodesDiffer
  <2>. QED  BY <1>2, <2>3, <2>4, <2>5 DEF e
<1>8. CASE f3 \notin {{}, {1}, {2}, {1, 2}}
  <2>1. e = {}
    BY <1>8 DEF Quadrant2
  <2>. QED  BY <1>1, <1>8, <2>1 DEF Rejected
<1>. QED  BY <1>4, <1>5, <1>6, <1>7, <1>8
-----------------------------------------------------------------------------
(* Every 16-bit word.                                                       *)

\* The type and the operands of a decoded instruction as a record of RvcTable.
LEMMA OpOfIs ==
    ASSUME NEW i, NEW type, NEW dest, NEW src1, NEW src2, NEW imm,
           Is(i, type, dest, src1, src2, imm)
    PROVE  Op(i.type, i.rd, i.rs1, i.rs2, i.imm) = Op(type, dest, src1, src2, imm)
  BY DEF Is

\* Rvc(ci) is such a record.
OpRecords(r) == r = Op(r.type, r.rd, r.rs1, r.rs2, r.imm)

\* An operation is rebuilt from its fields.
LEMMA OpIsRecord ==
    ASSUME NEW type, NEW dest, NEW src1, NEW src2, NEW imm
    PROVE  OpRecords(Op(type, dest, src1, src2, imm))
  BY DEF OpRecords, Op

\* So is the meaning of every 16-bit word.
LEMMA RvcIsRecord ==
    ASSUME NEW ci \in Halves, ci \cap 0 .. 1 \in {{}, {0}, {1}}
    PROVE  OpRecords(Rvc(ci))
<1>1. ASSUME NEW f3 PROVE OpRecords(Load0(ci, f3))
  BY OpIsRecord DEF Load0
<1>2. OpRecords(Arith1(ci))
  BY OpIsRecord DEF Arith1
<1>3. ASSUME NEW f3 PROVE OpRecords(Control1(ci, f3))
  BY <1>2, OpIsRecord DEF Control1
<1>4. ASSUME NEW f3 PROVE OpRecords(Stack2(ci, f3))
  BY OpIsRecord DEF Stack2
<1>. QED  BY <1>1, <1>3, <1>4, CodesDiffer DEF Rvc

\* expand_compressed() rejects the reserved words and expands the others to what they mean.
LEMMA ExpandRight ==
    ASSUME NEW ci \in Halves, ~({0, 1} \subseteq ci)
    PROVE  IF Reserved(ci) THEN Rejected(expand_compressed(ci))
                           ELSE Expands(expand_compressed(ci), Rvc(ci))
<1>. DEFINE f3 == Shr(ci, 13) \cap 0 .. 2
<1>1. f3 = Slice(ci, 15, 13)
  BY HalfFields
<1>2. ci \cap 0 .. 1 \in {{}, {0}, {1}}
  <2>1. \A x \in ci \cap 0 .. 1 : x = 0 \/ x = 1
    OBVIOUS
  <2>. QED  BY <2>1
<1>3. CASE ci \cap 0 .. 1 = {}
  <2>1. expand_compressed(ci) = Quadrant0(ci, f3)
    BY <1>3 DEF expand_compressed
  <2>. HIDE DEF f3
  <2>. QED  BY <1>1, <1>3, <2>1, Quadrant0Right
<1>4. CASE ci \cap 0 .. 1 = {0}
  <2>1. expand_compressed(ci) = Quadrant1(ci, f3)
    BY <1>4, CodesDiffer DEF expand_compressed
  <2>. HIDE DEF f3
  <2>. QED  BY <1>1, <1>4, <2>1, Quadrant1Right
<1>5. CASE ci \cap 0 .. 1 = {1}
  <2>1. expand_compressed(ci) = Quadrant2(ci, f3)
    BY <1>5, CodesDiffer DEF expand_compressed
  <2>. HIDE DEF f3
  <2>. QED  BY <1>1, <1>5, <2>1, Quadrant2Right
<1>. QED  BY <1>2, <1>3, <1>4, <1>5

\* The domain of what decode32 returns, so that the flag can be set in it.
LEMMA DecodedDomain ==
    ASSUME NEW w
    PROVE  DOMAIN decode32(w) = {"type", "rd", "rs1", "rs2", "imm", "csr", "compressed"}
<1>. DEFINE D == {"type", "rd", "rs1", "rs2", "imm", "csr", "compressed"}
<1>1. \A type, imm : /\ DOMAIN DestImm(w, type, imm) = D
                     /\ DOMAIN FormatI(w, type, imm) = D
                     /\ DOMAIN FormatSB(w, type, imm) = D
                     /\ DOMAIN FormatR(w, type) = D
                     /\ DOMAIN [Blank EXCEPT !.type = type] = D
                     /\ DOMAIN Blank = D
  BY Formats DEF Is
<1>2. DOMAIN DecodeImm(w) = D /\ DOMAIN DecodeReg(w) = D /\ DOMAIN DecodeAmo(w) = D
  BY <1>1 DEF DecodeImm, DecodeShift, DecodeReg, DecodeAmo
<1>3. DOMAIN DecodeSystem(w) = D
  <2>1. DOMAIN [FormatI(w, Pick(CsrTypes, funct3(w)), rs1(w)) EXCEPT !.csr = funct12(w)] = D
    BY <1>1
  <2>2. DOMAIN [Blank EXCEPT !.type = "SFENCE_VMA", !.rs1 = rs1(w), !.rs2 = rs2(w)] = D
    BY DEF Blank
  <2>. QED  BY <1>1, <2>1, <2>2 DEF DecodeSystem
<1>. HIDE DEF D
<1>4. CASE opcode(w) \notin Opcodes
  BY <1>1, <1>4, DecodeByOpcode DEF D
<1>5. CASE opcode(w) \in Opcodes
  BY <1>1, <1>2, <1>3, <1>5, DecodeByOpcode DEF D, Opcodes
<1>. QED  BY <1>4, <1>5

\* Setting the compressed flag leaves the fields of the instruction alone.
LEMMA SetCompressed ==
    ASSUME NEW i, DOMAIN i = {"type", "rd", "rs1", "rs2", "imm", "csr", "compressed"}
    PROVE  LET c == [i EXCEPT !.compressed = TRUE] IN
           /\ c.compressed = TRUE
           /\ c.type = i.type /\ c.rd = i.rd /\ c.rs1 = i.rs1 /\ c.rs2 = i.rs2 /\ c.imm = i.imm
  OBVIOUS

\* The decoder gives every 16-bit word its meaning, or ILLEGAL when it is reserved.
LEMMA ShortMeaning ==
    ASSUME NEW w \in Halves, ~({0, 1} \subseteq w)
    PROVE  /\ decode(w).compressed
           /\ IF Reserved(w) THEN decode(w).type = "ILLEGAL"
              ELSE Op(decode(w).type, decode(w).rd, decode(w).rs1, decode(w).rs2, decode(w).imm)
                       = Rvc(w)
<1>. DEFINE e == expand_compressed(w)
            i == IF e = {} THEN Blank ELSE decode32(e)
            c == decode(w)
<1>1. c = [i EXCEPT !.compressed = TRUE]
  <2>1. w \cap 0 .. 15 = w
    BY DEF Halves
  <2>. QED  BY <2>1 DEF decode
<1>2. DOMAIN i = {"type", "rd", "rs1", "rs2", "imm", "csr", "compressed"}
  BY DecodedDomain DEF Blank
<1>3. /\ c.compressed = TRUE
      /\ c.type = i.type /\ c.rd = i.rd /\ c.rs1 = i.rs1 /\ c.rs2 = i.rs2 /\ c.imm = i.imm
  <2>. HIDE DEF i, c
  <2>. QED  BY <1>1, <1>2, SetCompressed
<1>4. CASE Reserved(w)
  <2>1. i.type = "ILLEGAL"
    BY <1>4, ExpandRight DEF Rejected, Blank
  <2>. QED  BY <1>3, <1>4, <2>1
<1>5. CASE ~Reserved(w)
  <2>. DEFINE op == Rvc(w)
  <2>1. e # {} /\ Is(decode32(e), op.type, op.rd, op.rs1, op.rs2, op.imm)
    BY <1>5, ExpandRight DEF Expands
  <2>2. op = Op(op.type, op.rd, op.rs1, op.rs2, op.imm)
    <3>1. w \cap 0 .. 1 \in {{}, {0}, {1}}
      <4>1. \A x \in w \cap 0 .. 1 : x = 0 \/ x = 1
        OBVIOUS
      <4>. QED  BY <4>1
    <3>. QED  BY <3>1, RvcIsRecord DEF OpRecords
  <2>3. i = decode32(e)
    BY <2>1
  <2>. HIDE DEF op, i, c, e
  <2>4. Op(i.type, i.rd, i.rs1, i.rs2, i.imm) = Op(op.type, op.rd, op.rs1, op.rs2, op.imm)
    BY <2>1, <2>3, OpOfIs
  <2>5. Op(c.type, c.rd, c.rs1, c.rs2, c.imm) = op
    BY <1>3, <2>2, <2>4
  <2>. QED  BY <1>3, <1>5, <2>5 DEF c, op
<1>. QED  BY <1>4, <1>5

\* The sampled 32-bit words are words with both low bits set.
LEMMA LongWordsLong ==
    ASSUME NEW w \in LongWords
    PROVE  w \in Words /\ {0, 1} \subseteq w
<1>1. CASE w \in Samples
  BY <1>1, SamplesAssumption DEF Words
<1>2. CASE w \notin Samples
  <2>1. PICK op \in Opcodes, f3 \in F3Words, b1, b2 \in OtherBits : w = op \cup f3 \cup {b1, b2}
    BY <1>2 DEF LongWords
  <2>2. op \in SUBSET (0 .. 6) /\ {0, 1} \subseteq op
    BY OpcodesDiffer
  <2>. QED  BY <2>1, <2>2 DEF F3Words, OtherBits, Words, Bits
<1>. QED  BY <1>1, <1>2

\* A word with both low bits set has been decoded by decode32.
LEMMA LongDecoded ==
    ASSUME IsaInv, {0, 1} \subseteq raw
    PROVE  raw \in Words /\ d = decode32(raw)
<1>1. fetched /\ raw \notin ShortWords
  BY DEF IsaInv, ShortWords
<1>. QED  BY <1>1, LongWordsLong DEF IsaInv, decode

\* expand_compressed and decode32 together give every one of the 16-bit words, the word
\* of zeros included, the meaning that the manual's tables give it.
THEOREM IsaRvcMeaning == Spec => []RvcMeaning
<1>1. IsaInv => RvcMeaning
  <2>. SUFFICES ASSUME IsaInv, fetched, ~({0, 1} \subseteq raw)
                PROVE  RvcMeaning
    BY DEF RvcMeaning
  <2>1. raw \in Halves
    BY LongWordsLong DEF IsaInv, ShortWords, Halves
  <2>2. d = decode(raw)
    BY DEF IsaInv
  <2>. QED  BY <2>1, <2>2, ShortMeaning DEF RvcMeaning
<1>. QED  BY <1>1, IsaInvariant, PTL
-----------------------------------------------------------------------------
(* decode32() loses no bit: the instruction determines the word, except for *)
(* the bits that it does not use.                                           *)

BranchNames == {"BEQ", "BNE", "BLT", "BGE", "BLTU", "BGEU"}
LoadNames   == {"LB", "LH", "LW", "LBU", "LHU"}
StoreNames  == {"SB", "SH", "SW"}
ImmNames    == {"ADDI", "SLTI", "SLTIU", "XORI", "ORI", "ANDI"}
ShiftNames  == {"SLLI", "SRLI", "SRAI"}
RegNames    == {"ADD", "SLL", "SLT", "SLTU", "XOR", "SRL", "OR", "AND"}
AltNames    == {"SUB", "SRA"}
AmoNames    == {"LR_W", "SC_W", "AMOSWAP_W", "AMOADD_W", "AMOXOR_W", "AMOAND_W", "AMOOR_W",
                "AMOMIN_W", "AMOMAX_W", "AMOMINU_W", "AMOMAXU_W"}
FenceNames  == {"FENCE", "FENCEI"}
PrivNames   == {"ECALL", "EBREAK", "MRET", "SRET", "URET", "WFI"}
CsrNames    == {"CSRRW", "CSRRS", "CSRRC", "CSRRWI", "CSRRSI", "CSRRCI"}

\* The rows of a table have these names, and no two of them the same one.
NamedBy(table, names) ==
    /\ \A t \in table : t[2] \in names
    /\ \A s, t \in table : s[2] = t[2] => s[1] = t[1]

\* The branch table uses only the branch names, and each of them for one code.
LEMMA BranchNamed == NamedBy(BranchTypes, BranchNames)
  BY DEF NamedBy, Table, BranchTypes, BranchNames
\* The same of the load table.
LEMMA LoadNamed == NamedBy(LoadTypes, LoadNames)
  BY DEF NamedBy, Table, LoadTypes, LoadNames
\* The same of the store table.
LEMMA StoreNamed == NamedBy(StoreTypes, StoreNames)
  BY DEF NamedBy, Table, StoreTypes, StoreNames
\* The same of the table of operations with an immediate.
LEMMA ImmNamed == NamedBy(ImmTypes, ImmNames)
  BY DEF NamedBy, Table, ImmTypes, ImmNames
\* The same of the M extension.
LEMMA MulDivNamed == NamedBy(MulDivTypes, MulDiv)
  BY DEF NamedBy, Table, MulDivTypes, MulDiv
\* The same of the register operations with funct7 = 0.
LEMMA RegNamed == NamedBy(RegTypes, RegNames)
  BY DEF NamedBy, Table, RegTypes, RegNames
\* The same of SUB and SRA.
LEMMA AltNamed == NamedBy(AltTypes, AltNames)
  BY DEF NamedBy, Table, AltTypes, AltNames
\* The same of the atomic operations.
LEMMA AmoNamed == NamedBy(AmoTypes, AmoNames)
  BY DEF NamedBy, Table, AmoTypes, AmoNames
\* The same of the privileged instructions.
LEMMA PrivNamed == NamedBy(PrivTypes, PrivNames)
  BY DEF NamedBy, Table, PrivTypes, PrivNames
\* The same of the CSR instructions.
LEMMA CsrNamed == NamedBy(CsrTypes, CsrNames)
  BY DEF NamedBy, Table, CsrTypes, CsrNames

\* A legal pick is a row of the table, and it is picked by one code only.
LEMMA PickLegal ==
    ASSUME NEW table, NEW names, NamedBy(table, names), NEW c, Pick(table, c) # "ILLEGAL"
    PROVE  /\ Pick(table, c) \in names
           /\ Pick(table, c) \in {t[2] : t \in table}
           /\ \A e : Pick(table, e) = Pick(table, c) => e = c
<1>1. ASSUME NEW e, Pick(table, e) # "ILLEGAL"
      PROVE  \E t \in table : t[1] = e /\ t[2] = Pick(table, e)
  BY <1>1 DEF Pick
<1>2. PICK t \in table : t[1] = c /\ t[2] = Pick(table, c)
  BY <1>1
<1>3. ASSUME NEW e, Pick(table, e) = Pick(table, c)
      PROVE  e = c
  <2>1. PICK s \in table : s[1] = e /\ s[2] = Pick(table, e)
    BY <1>1, <1>3
  <2>. QED  BY <1>2, <1>3, <2>1 DEF NamedBy
<1>. QED  BY <1>2, <1>3 DEF NamedBy

\* v and w have the same bits in s.
Agree(v, w, s) == \A x \in s : x \in v <=> x \in w

\* The bits of w from lo on, k + 1 of them.
Field(w, lo, k) == {x \in 0 .. k : x + lo \in w}

\* Two words with the same field agree on its bits.
LEMMA FieldAgree ==
    ASSUME NEW v, NEW w, NEW lo \in Nat, NEW k \in Nat, Field(v, lo, k) = Field(w, lo, k)
    PROVE  Agree(v, w, lo .. lo + k)
<1>. SUFFICES ASSUME NEW y \in lo .. lo + k PROVE y \in v <=> y \in w
  BY DEF Agree
<1>1. y - lo \in 0 .. k /\ (y - lo) + lo = y
  OBVIOUS
<1>. QED  BY <1>1 DEF Field

\* The bits on which two words with an equal field agree, for each field.
LEMMA FieldsAgree ==
    ASSUME NEW v \in Words, NEW w \in Words
    PROVE  /\ opcode(v) = opcode(w) => Agree(v, w, 0 .. 6)
           /\ rd(v) = rd(w) => Agree(v, w, 7 .. 11)
           /\ funct3(v) = funct3(w) => Agree(v, w, 12 .. 14)
           /\ rs1(v) = rs1(w) => Agree(v, w, 15 .. 19)
           /\ rs2(v) = rs2(w) => Agree(v, w, 20 .. 24)
           /\ funct7(v) = funct7(w) => Agree(v, w, 25 .. 31)
           /\ funct5(v) = funct5(w) => Agree(v, w, 27 .. 31)
           /\ funct12(v) = funct12(w) => Agree(v, w, 20 .. 31)
<1>0. v \in SUBSET Bits /\ w \in SUBSET Bits
  BY DEF Words
<1>1. ASSUME NEW u \in SUBSET Bits
      PROVE  /\ rd(u) = Field(u, 7, 4) /\ funct3(u) = Field(u, 12, 2) /\ rs1(u) = Field(u, 15, 4)
             /\ rs2(u) = Field(u, 20, 4) /\ funct7(u) = Field(u, 25, 6)
             /\ funct5(u) = Field(u, 27, 4) /\ funct12(u) = Field(u, 20, 11)
  BY FieldsIn DEF Field
<1>2. opcode(v) = opcode(w) => Agree(v, w, 0 .. 6)
  <2>1. opcode(v) = v \cap 0 .. 6 /\ opcode(w) = w \cap 0 .. 6
    BY DEF opcode
  <2>. QED  BY <2>1 DEF Agree
<1>3. rd(v) = rd(w) => Agree(v, w, 7 .. 7 + 4)
  <2>1. rd(v) = Field(v, 7, 4) /\ rd(w) = Field(w, 7, 4)
    BY <1>0, <1>1
  <2>. QED  BY <2>1, FieldAgree
<1>4. funct3(v) = funct3(w) => Agree(v, w, 12 .. 12 + 2)
  <2>1. funct3(v) = Field(v, 12, 2) /\ funct3(w) = Field(w, 12, 2)
    BY <1>0, <1>1
  <2>. QED  BY <2>1, FieldAgree
<1>5. rs1(v) = rs1(w) => Agree(v, w, 15 .. 15 + 4)
  <2>1. rs1(v) = Field(v, 15, 4) /\ rs1(w) = Field(w, 15, 4)
    BY <1>0, <1>1
  <2>. QED  BY <2>1, FieldAgree
<1>6. rs2(v) = rs2(w) => Agree(v, w, 20 .. 20 + 4)
  <2>1. rs2(v) = Field(v, 20, 4) /\ rs2(w) = Field(w, 20, 4)
    BY <1>0, <1>1
  <2>. QED  BY <2>1, FieldAgree
<1>7. funct7(v) = funct7(w) => Agree(v, w, 25 .. 25 + 6)
  <2>1. funct7(v) = Field(v, 25, 6) /\ funct7(w) = Field(w, 25, 6)
    BY <1>0, <1>1
  <2>. QED  BY <2>1, FieldAgree
<1>8. funct5(v) = funct5(w) => Agree(v, w, 27 .. 27 + 4)
  <2>1. funct5(v) = Field(v, 27, 4) /\ funct5(w) = Field(w, 27, 4)
    BY <1>0, <1>1
  <2>. QED  BY <2>1, FieldAgree
<1>9. funct12(v) = funct12(w) => Agree(v, w, 20 .. 20 + 11)
  <2>1. funct12(v) = Field(v, 20, 11) /\ funct12(w) = Field(w, 20, 11)
    BY <1>0, <1>1
  <2>. QED  BY <2>1, FieldAgree
<1>. QED  BY <1>2, <1>3, <1>4, <1>5, <1>6, <1>7, <1>8, <1>9

\* The bits on which two words with an equal immediate agree, for each immediate.
LEMMA ImmediatesAgree ==
    ASSUME NEW v \in Words, NEW w \in Words
    PROVE  /\ imm_i(v) = imm_i(w) => Agree(v, w, 20 .. 31)
           /\ imm_s(v) = imm_s(w) => Agree(v, w, 7 .. 11) /\ Agree(v, w, 25 .. 31)
           /\ imm_b(v) = imm_b(w) => Agree(v, w, 7 .. 11) /\ Agree(v, w, 25 .. 31)
           /\ imm_u(v) = imm_u(w) => Agree(v, w, 12 .. 31)
           /\ imm_j(v) = imm_j(w) => Agree(v, w, 12 .. 31)
<1>0. v \in SUBSET Bits /\ w \in SUBSET Bits
  BY DEF Words
<1>1. ASSUME imm_i(v) = imm_i(w) PROVE Agree(v, w, 20 .. 31)
  <2>1. ASSUME NEW y \in 20 .. 31, NEW u \in SUBSET Bits
        PROVE  y - 20 \in imm_i(u) <=> y \in u
    <3>1. y - 20 \in Bits /\ y - 20 <= 11 /\ (y - 20) + 20 = y
      BY DEF Bits
    <3>. QED  BY <3>1, ImmediatesIn
  <2>. QED  BY <1>0, <1>1, <2>1 DEF Agree
<1>2. ASSUME imm_s(v) = imm_s(w) PROVE Agree(v, w, 7 .. 11) /\ Agree(v, w, 25 .. 31)
  <2>1. ASSUME NEW y \in 7 .. 11, NEW u \in SUBSET Bits
        PROVE  y - 7 \in imm_s(u) <=> y \in u
    <3>1. y - 7 \in Bits /\ y - 7 \in 0 .. 4 /\ (y - 7) + 7 = y
      BY DEF Bits
    <3>. QED  BY <3>1, ImmediatesIn
  <2>2. ASSUME NEW y \in 25 .. 31, NEW u \in SUBSET Bits
        PROVE  y - 20 \in imm_s(u) <=> y \in u
    <3>1. y - 20 \in Bits /\ y - 20 \in 5 .. 11 /\ (y - 20) + 20 = y
      BY DEF Bits
    <3>. QED  BY <3>1, ImmediatesIn
  <2>. QED  BY <1>0, <1>2, <2>1, <2>2 DEF Agree
<1>3. ASSUME imm_b(v) = imm_b(w) PROVE Agree(v, w, 7 .. 11) /\ Agree(v, w, 25 .. 31)
  <2>1. ASSUME NEW y \in 8 .. 11, NEW u \in SUBSET Bits
        PROVE  y - 7 \in imm_b(u) <=> y \in u
    <3>1. y - 7 \in Bits /\ y - 7 \in 1 .. 4 /\ (y - 7) + 7 = y
      BY DEF Bits
    <3>. QED  BY <3>1, ImmediatesIn
  <2>2. ASSUME NEW y \in 25 .. 30, NEW u \in SUBSET Bits
        PROVE  y - 20 \in imm_b(u) <=> y \in u
    <3>1. y - 20 \in Bits /\ y - 20 \in 5 .. 10 /\ (y - 20) + 20 = y
      BY DEF Bits
    <3>. QED  BY <3>1, ImmediatesIn
  <2>3. ASSUME NEW u \in SUBSET Bits
        PROVE  (11 \in imm_b(u) <=> 7 \in u) /\ (12 \in imm_b(u) <=> 31 \in u)
    <3>1. 11 \in Bits /\ 12 \in Bits
      BY DEF Bits
    <3>. QED  BY <3>1, ImmediatesIn
  <2>4. \A y \in 7 .. 11 : y = 7 \/ y \in 8 .. 11
    OBVIOUS
  <2>5. \A y \in 25 .. 31 : y = 31 \/ y \in 25 .. 30
    OBVIOUS
  <2>. QED  BY <1>0, <1>3, <2>1, <2>2, <2>3, <2>4, <2>5 DEF Agree
<1>4. ASSUME imm_u(v) = imm_u(w) PROVE Agree(v, w, 12 .. 31)
  <2>1. ASSUME NEW y \in 12 .. 31, NEW u \in SUBSET Bits
        PROVE  y \in imm_u(u) <=> y \in u
    BY DEF imm_u
  <2>. QED  BY <1>0, <1>4, <2>1 DEF Agree
<1>5. ASSUME imm_j(v) = imm_j(w) PROVE Agree(v, w, 12 .. 31)
  <2>1. ASSUME NEW y \in 21 .. 30, NEW u \in SUBSET Bits
        PROVE  y - 20 \in imm_j(u) <=> y \in u
    <3>1. y - 20 \in Bits /\ y - 20 \in 1 .. 10 /\ (y - 20) + 20 = y
      BY DEF Bits
    <3>. QED  BY <3>1, ImmediatesIn
  <2>2. ASSUME NEW y \in 12 .. 19, NEW u \in SUBSET Bits
        PROVE  y \in imm_j(u) <=> y \in u
    <3>1. y \in Bits
      BY DEF Bits
    <3>. QED  BY <3>1, ImmediatesIn
  <2>3. ASSUME NEW u \in SUBSET Bits
        PROVE  (11 \in imm_j(u) <=> 20 \in u) /\ (20 \in imm_j(u) <=> 31 \in u)
    <3>1. 11 \in Bits /\ 20 \in Bits
      BY DEF Bits
    <3>2. imm_j(u) = {x \in Bits : \/ x \in 1 .. 10 /\ x + 20 \in u
                                   \/ x = 11 /\ 20 \in u
                                   \/ x \in 12 .. 19 /\ x \in u
                                   \/ x >= 20 /\ 31 \in u}
      BY ImmediatesIn
    <3>3. 11 \in imm_j(u) <=> 20 \in u
      BY <3>1, <3>2
    <3>4. 20 \in imm_j(u) <=> 31 \in u
      BY <3>1, <3>2
    <3>. QED  BY <3>3, <3>4
  <2>4. \A y \in 12 .. 31 : y = 20 \/ y = 31 \/ y \in 21 .. 30 \/ y \in 12 .. 19
    OBVIOUS
  <2>. QED  BY <1>0, <1>5, <2>1, <2>2, <2>3, <2>4 DEF Agree
<1>. QED  BY <1>1, <1>2, <1>3, <1>4, <1>5

\* Words that agree on each field agree on all of them.
LEMMA AgreeParts ==
    ASSUME NEW v, NEW w, Agree(v, w, 7 .. 11)
    PROVE  /\ Agree(v, w, 12 .. 31) => Agree(v, w, 7 .. 31)
           /\ Agree(v, w, 12 .. 14) /\ Agree(v, w, 15 .. 19) /\ Agree(v, w, 20 .. 31)
                  => Agree(v, w, 7 .. 31)
           /\ Agree(v, w, 12 .. 14) /\ Agree(v, w, 15 .. 19) /\ Agree(v, w, 20 .. 24)
                  /\ Agree(v, w, 25 .. 31) => Agree(v, w, 7 .. 31)
<1>1. \A y \in 7 .. 31 : \/ y \in 7 .. 11 \/ y \in 12 .. 14 \/ y \in 15 .. 19
                         \/ y \in 20 .. 24 \/ y \in 25 .. 31
  OBVIOUS
<1>2. /\ \A y \in 7 .. 31 : y \in 7 .. 11 \/ y \in 12 .. 31
      /\ \A y \in 20 .. 24 : y \in 20 .. 31
      /\ \A y \in 25 .. 31 : y \in 20 .. 31
  OBVIOUS
<1>. QED  BY <1>1, <1>2 DEF Agree

\* The opcode that an instruction is decoded from.
OpcodeOf(type) ==
    CASE type = "LUI"   -> OP_LUI
      [] type = "AUIPC" -> OP_AUIPC
      [] type = "JAL"   -> OP_JAL
      [] type = "JALR"  -> OP_JALR
      [] type \in BranchNames -> OP_BRANCH
      [] type \in LoadNames   -> OP_LOAD
      [] type \in StoreNames  -> OP_STORE
      [] type \in ImmNames \cup ShiftNames -> OP_IMM
      [] type \in MulDiv \cup RegNames \cup AltNames -> OP_REG
      [] type \in AmoNames   -> OP_AMO
      [] type \in FenceNames -> OP_FENCE
      [] type \in PrivNames \cup CsrNames \cup {"SFENCE_VMA"} -> OP_SYSTEM

\* What a legal word of every opcode is decoded to.
IsShift(w) == funct3(w) \in {{0}, {0, 2}}

\* The shifts by a constant: funct3 and funct7 are determined by the type.
LEMMA ShiftCases ==
    ASSUME NEW w, IsShift(w)
    PROVE  LET i == DecodeImm(w) IN
           /\ Is(i, i.type, rd(w), rs1(w), {}, rs2(w))
           /\ i.type \in {"ILLEGAL", "SLLI", "SRLI", "SRAI"}
           /\ i.type = "SLLI" => funct3(w) = {0} /\ funct7(w) = F7_NORMAL
           /\ i.type = "SRLI" => funct3(w) = {0, 2} /\ funct7(w) = F7_NORMAL
           /\ i.type = "SRAI" => funct3(w) = {0, 2} /\ funct7(w) = F7_ALT
<1>. DEFINE type == CASE funct3(w) = {0} /\ funct7(w) = F7_NORMAL    -> "SLLI"
                      [] funct3(w) = {0, 2} /\ funct7(w) = F7_NORMAL -> "SRLI"
                      [] funct3(w) = {0, 2} /\ funct7(w) = F7_ALT    -> "SRAI"
                      [] OTHER -> "ILLEGAL"
<1>1. DecodeImm(w) = FormatI(w, type, rs2(w))
  BY DEF DecodeImm, DecodeShift, IsShift
<1>2. /\ type \in {"ILLEGAL", "SLLI", "SRLI", "SRAI"}
      /\ type = "SLLI" => funct3(w) = {0} /\ funct7(w) = F7_NORMAL
      /\ type = "SRLI" => funct3(w) = {0, 2} /\ funct7(w) = F7_NORMAL
      /\ type = "SRAI" => funct3(w) = {0, 2} /\ funct7(w) = F7_ALT
  <2>1. CASE funct3(w) = {0} /\ funct7(w) = F7_NORMAL
    BY <2>1, CodesDiffer
  <2>2. CASE funct3(w) = {0, 2} /\ funct7(w) = F7_NORMAL
    BY <2>2, CodesDiffer DEF F7_NORMAL, F7_ALT
  <2>3. CASE funct3(w) = {0, 2} /\ funct7(w) = F7_ALT
    BY <2>3, CodesDiffer DEF F7_NORMAL, F7_ALT
  <2>4. CASE /\ ~(funct3(w) = {0} /\ funct7(w) = F7_NORMAL)
             /\ ~(funct3(w) = {0, 2} /\ funct7(w) = F7_NORMAL)
             /\ ~(funct3(w) = {0, 2} /\ funct7(w) = F7_ALT)
    BY <2>4
  <2>. QED  BY <2>1, <2>2, <2>3, <2>4
<1>. HIDE DEF type
<1>3. Is(DecodeImm(w), type, rd(w), rs1(w), {}, rs2(w))
  BY <1>1, Formats
<1>. QED  BY <1>2, <1>3 DEF Is

\* The other operations with an immediate take their type from funct3.
LEMMA ImmCases ==
    ASSUME NEW w, ~IsShift(w)
    PROVE  Is(DecodeImm(w), Pick(ImmTypes, funct3(w)), rd(w), rs1(w), {}, imm_i(w))
<1>1. DecodeImm(w) = FormatI(w, Pick(ImmTypes, funct3(w)), imm_i(w))
  BY DEF DecodeImm, IsShift
<1>. QED  BY <1>1, Formats

\* The register operations take their type from funct7 and funct3.
LEMMA RegCases ==
    ASSUME NEW w
    PROVE  LET i == DecodeReg(w) IN
           /\ Is(i, i.type, rd(w), rs1(w), rs2(w), {})
           /\ i.type # "ILLEGAL" =>
                  \/ funct7(w) = F7_MULDIV /\ i.type = Pick(MulDivTypes, funct3(w))
                  \/ funct7(w) = F7_NORMAL /\ i.type = Pick(RegTypes, funct3(w))
                  \/ funct7(w) = F7_ALT /\ i.type = Pick(AltTypes, funct3(w))
<1>. DEFINE type == CASE funct7(w) = F7_MULDIV -> Pick(MulDivTypes, funct3(w))
                      [] funct7(w) = F7_NORMAL -> Pick(RegTypes, funct3(w))
                      [] funct7(w) = F7_ALT    -> Pick(AltTypes, funct3(w))
                      [] OTHER -> "ILLEGAL"
<1>1. DecodeReg(w) = FormatR(w, type)
  BY DEF DecodeReg
<1>2. type # "ILLEGAL" => \/ funct7(w) = F7_MULDIV /\ type = Pick(MulDivTypes, funct3(w))
                          \/ funct7(w) = F7_NORMAL /\ type = Pick(RegTypes, funct3(w))
                          \/ funct7(w) = F7_ALT /\ type = Pick(AltTypes, funct3(w))
  BY DEF F7_MULDIV, F7_NORMAL, F7_ALT
<1>. HIDE DEF type
<1>3. Is(DecodeReg(w), type, rd(w), rs1(w), rs2(w), {})
  BY <1>1, Formats
<1>. QED  BY <1>2, <1>3 DEF Is

\* The atomic operations take their type from funct5, with funct3 = 2.
LEMMA AmoCases ==
    ASSUME NEW w
    PROVE  LET i == DecodeAmo(w) IN
           /\ Is(i, i.type, rd(w), rs1(w), rs2(w), {})
           /\ i.type # "ILLEGAL" => funct3(w) = {1} /\ i.type = Pick(AmoTypes, funct5(w))
<1>. DEFINE type == IF funct3(w) # {1} THEN "ILLEGAL" ELSE Pick(AmoTypes, funct5(w))
<1>1. DecodeAmo(w) = FormatR(w, type)
  BY DEF DecodeAmo
<1>2. type # "ILLEGAL" => funct3(w) = {1} /\ type = Pick(AmoTypes, funct5(w))
  OBVIOUS
<1>. HIDE DEF type
<1>3. Is(DecodeAmo(w), type, rd(w), rs1(w), rs2(w), {})
  BY <1>1, Formats
<1>. QED  BY <1>2, <1>3 DEF Is

\* The three kinds of system instruction, and the fields each keeps.
LEMMA SystemCases ==
    ASSUME NEW w
    PROVE  LET i == DecodeSystem(w) IN
           \/ /\ funct3(w) # {}
              /\ i.type = Pick(CsrTypes, funct3(w))
              /\ i.rd = rd(w) /\ i.rs1 = rs1(w) /\ i.csr = funct12(w) /\ i.imm = rs1(w)
           \/ /\ funct3(w) = {} /\ funct7(w) = F7_SFENCE_VMA
              /\ i.type = "SFENCE_VMA" /\ i.rs1 = rs1(w) /\ i.rs2 = rs2(w) /\ i.imm = {}
           \/ /\ funct3(w) = {} /\ i.type = Pick(PrivTypes, funct12(w)) /\ i.imm = {}
<1>1. CASE funct3(w) # {}
  <2>. DEFINE type == Pick(CsrTypes, funct3(w))
              f == FormatI(w, type, rs1(w))
              i == [f EXCEPT !.csr = funct12(w)]
  <2>1. DecodeSystem(w) = i
    BY <1>1 DEF DecodeSystem
  <2>2. Is(f, type, rd(w), rs1(w), {}, rs1(w))
    <3>. HIDE DEF type
    <3>. QED  BY Formats
  <2>. HIDE DEF f, type
  <2>3. /\ i.type = type /\ i.rd = rd(w) /\ i.rs1 = rs1(w) /\ i.csr = funct12(w)
        /\ i.imm = rs1(w)
    BY <2>2 DEF Is
  <2>. HIDE DEF i
  <2>. QED  BY <1>1, <2>1, <2>3 DEF type
<1>2. CASE funct3(w) = {} /\ funct7(w) = F7_SFENCE_VMA
  <2>1. DecodeSystem(w) = [Blank EXCEPT !.type = "SFENCE_VMA", !.rs1 = rs1(w), !.rs2 = rs2(w)]
    BY <1>2 DEF DecodeSystem
  <2>. QED  BY <1>2, <2>1 DEF Blank
<1>3. CASE funct3(w) = {} /\ funct7(w) # F7_SFENCE_VMA
  <2>. DEFINE type == Pick(PrivTypes, funct12(w))
  <2>1. DecodeSystem(w) = [Blank EXCEPT !.type = type]
    BY <1>3 DEF DecodeSystem
  <2>. HIDE DEF type
  <2>2. Is(DecodeSystem(w), type, {}, {}, {}, {})
    BY <2>1, Formats
  <2>. QED  BY <1>3, <2>2 DEF Is, type
<1>. QED  BY <1>1, <1>2, <1>3

\* Each group of instruction names has one opcode.
LEMMA OpcodeOfNames ==
    ASSUME NEW t
    PROVE  /\ OpcodeOf("LUI") = OP_LUI /\ OpcodeOf("AUIPC") = OP_AUIPC
           /\ OpcodeOf("JAL") = OP_JAL /\ OpcodeOf("JALR") = OP_JALR
           /\ t \in BranchNames => OpcodeOf(t) = OP_BRANCH
           /\ t \in LoadNames => OpcodeOf(t) = OP_LOAD
           /\ t \in StoreNames => OpcodeOf(t) = OP_STORE
           /\ t \in ImmNames \cup ShiftNames => OpcodeOf(t) = OP_IMM
           /\ t \in MulDiv \cup RegNames \cup AltNames => OpcodeOf(t) = OP_REG
           /\ t \in AmoNames => OpcodeOf(t) = OP_AMO
           /\ t \in FenceNames => OpcodeOf(t) = OP_FENCE
           /\ t \in PrivNames \cup CsrNames \cup {"SFENCE_VMA"} => OpcodeOf(t) = OP_SYSTEM
  BY DEF OpcodeOf, BranchNames, LoadNames, StoreNames, ImmNames, ShiftNames, MulDiv, RegNames,
         AltNames, AmoNames, FenceNames, PrivNames, CsrNames

\* A legal instruction's type determines the opcode it was decoded from.
LEMMA TypeOpcode ==
    ASSUME NEW w, decode32(w).type # "ILLEGAL"
    PROVE  opcode(w) = OpcodeOf(decode32(w).type)
<1>. DEFINE t == decode32(w).type
<1>0. opcode(w) \in Opcodes
  BY DecodeByOpcode DEF Blank
<1>1. CASE opcode(w) = OP_LUI
  <2>1. t = "LUI"
    BY <1>1, DecodeByOpcode, Formats DEF Is
  <2>. QED  BY <1>1, <2>1, OpcodeOfNames
<1>2. CASE opcode(w) = OP_AUIPC
  <2>1. t = "AUIPC"
    BY <1>2, DecodeByOpcode, Formats DEF Is
  <2>. QED  BY <1>2, <2>1, OpcodeOfNames
<1>3. CASE opcode(w) = OP_JAL
  <2>1. t = "JAL"
    BY <1>3, DecodeByOpcode, Formats DEF Is
  <2>. QED  BY <1>3, <2>1, OpcodeOfNames
<1>4. CASE opcode(w) = OP_JALR
  <2>1. t = "JALR"
    BY <1>4, DecodeByOpcode, Formats DEF Is
  <2>. QED  BY <1>4, <2>1, OpcodeOfNames
<1>5. CASE opcode(w) = OP_BRANCH
  <2>1. t = Pick(BranchTypes, funct3(w))
    BY <1>5, DecodeByOpcode, Formats DEF Is
  <2>2. t \in BranchNames
    BY <2>1, BranchNamed, PickLegal
  <2>. QED  BY <1>5, <2>2, OpcodeOfNames
<1>6. CASE opcode(w) = OP_LOAD
  <2>1. t = Pick(LoadTypes, funct3(w))
    BY <1>6, DecodeByOpcode, Formats DEF Is
  <2>2. t \in LoadNames
    BY <2>1, LoadNamed, PickLegal
  <2>. QED  BY <1>6, <2>2, OpcodeOfNames
<1>7. CASE opcode(w) = OP_STORE
  <2>1. t = Pick(StoreTypes, funct3(w))
    BY <1>7, DecodeByOpcode, Formats DEF Is
  <2>2. t \in StoreNames
    BY <2>1, StoreNamed, PickLegal
  <2>. QED  BY <1>7, <2>2, OpcodeOfNames
<1>8. CASE opcode(w) = OP_IMM
  <2>0. decode32(w) = DecodeImm(w)
    BY <1>8, DecodeByOpcode
  <2>1. IsShift(w) => t \in ShiftNames
    BY <2>0, ShiftCases DEF ShiftNames
  <2>2. ~IsShift(w) => t \in ImmNames
    <3>1. ~IsShift(w) => t = Pick(ImmTypes, funct3(w))
      BY <2>0, ImmCases DEF Is
    <3>. QED  BY <3>1, ImmNamed, PickLegal
  <2>3. t \in ImmNames \cup ShiftNames
    BY <2>1, <2>2
  <2>. QED  BY <1>8, <2>3, OpcodeOfNames
<1>9. CASE opcode(w) = OP_REG
  <2>1. decode32(w) = DecodeReg(w)
    BY <1>9, DecodeByOpcode
  <2>2. \/ t = Pick(MulDivTypes, funct3(w)) \/ t = Pick(RegTypes, funct3(w))
        \/ t = Pick(AltTypes, funct3(w))
    BY <2>1, RegCases
  <2>3. t \in MulDiv \cup RegNames \cup AltNames
    BY <2>2, MulDivNamed, RegNamed, AltNamed, PickLegal
  <2>. QED  BY <1>9, <2>3, OpcodeOfNames
<1>10. CASE opcode(w) = OP_AMO
  <2>1. t = Pick(AmoTypes, funct5(w))
    BY <1>10, DecodeByOpcode, AmoCases
  <2>2. t \in AmoNames
    BY <2>1, AmoNamed, PickLegal
  <2>. QED  BY <1>10, <2>2, OpcodeOfNames
<1>11. CASE opcode(w) = OP_FENCE
  <2>1. t \in FenceNames
    <3>1. decode32(w) = [Blank EXCEPT !.type = IF funct3(w) = {0} THEN "FENCEI" ELSE "FENCE"]
      BY <1>11, DecodeByOpcode
    <3>. QED  BY <3>1 DEF Blank, FenceNames
  <2>. QED  BY <1>11, <2>1, OpcodeOfNames
<1>12. CASE opcode(w) = OP_SYSTEM
  <2>1. decode32(w) = DecodeSystem(w)
    BY <1>12, DecodeByOpcode
  <2>2. \/ t = Pick(CsrTypes, funct3(w)) \/ t = "SFENCE_VMA" \/ t = Pick(PrivTypes, funct12(w))
    BY <2>1, SystemCases
  <2>3. t \in PrivNames \cup CsrNames \cup {"SFENCE_VMA"}
    BY <2>2, PrivNamed, CsrNamed, PickLegal
  <2>. QED  BY <1>12, <2>3, OpcodeOfNames
<1>. QED  BY <1>0, <1>1, <1>2, <1>3, <1>4, <1>5, <1>6, <1>7, <1>8, <1>9, <1>10, <1>11, <1>12
          DEF Opcodes

\* Two words that are decoded to the same legal instruction, for each opcode.
LEMMA SameUpper ==
    ASSUME NEW v \in Words, NEW w \in Words, NEW op \in {OP_LUI, OP_AUIPC, OP_JAL},
           opcode(v) = op, opcode(w) = op, decode32(v) = decode32(w)
    PROVE  Agree(v, w, 7 .. 31)
<1>1. CASE op \in {OP_LUI, OP_AUIPC}
  <2>1. rd(v) = rd(w) /\ imm_u(v) = imm_u(w)
    BY <1>1, DecodeByOpcode, Formats DEF Is
  <2>. QED  BY <2>1, FieldsAgree, ImmediatesAgree, AgreeParts
<1>2. CASE op = OP_JAL
  <2>1. rd(v) = rd(w) /\ imm_j(v) = imm_j(w)
    BY <1>2, DecodeByOpcode, Formats DEF Is
  <2>. QED  BY <2>1, FieldsAgree, ImmediatesAgree, AgreeParts
<1>. QED  BY <1>1, <1>2

\* Two words decoded as one JALR differ in funct3 at most.
LEMMA SameJalr ==
    ASSUME NEW v \in Words, NEW w \in Words,
           opcode(v) = OP_JALR, opcode(w) = OP_JALR, decode32(v) = decode32(w)
    PROVE  /\ Agree(v, w, (7 .. 31) \ (12 .. 14))
           /\ decode32(w).type = "JALR"
<1>1. rd(v) = rd(w) /\ rs1(v) = rs1(w) /\ imm_i(v) = imm_i(w) /\ decode32(w).type = "JALR"
  BY DecodeByOpcode, Formats DEF Is
<1>2. Agree(v, w, 7 .. 11) /\ Agree(v, w, 15 .. 19) /\ Agree(v, w, 20 .. 31)
  BY <1>1, FieldsAgree, ImmediatesAgree
<1>3. \A y \in (7 .. 31) \ (12 .. 14) : y \in 7 .. 11 \/ y \in 15 .. 19 \/ y \in 20 .. 31
  OBVIOUS
<1>. QED  BY <1>1, <1>2, <1>3 DEF Agree

\* Two words decoded as one branch or store are the same above the opcode.
LEMMA SameBranchStore ==
    ASSUME NEW v \in Words, NEW w \in Words, NEW op \in {OP_BRANCH, OP_STORE},
           opcode(v) = op, opcode(w) = op, decode32(v) = decode32(w),
           decode32(w).type # "ILLEGAL"
    PROVE  Agree(v, w, 7 .. 31)
<1>1. CASE op = OP_BRANCH
  <2>1. /\ rs1(v) = rs1(w) /\ rs2(v) = rs2(w) /\ imm_b(v) = imm_b(w)
        /\ Pick(BranchTypes, funct3(w)) # "ILLEGAL"
        /\ Pick(BranchTypes, funct3(v)) = Pick(BranchTypes, funct3(w))
    BY <1>1, DecodeByOpcode, Formats DEF Is
  <2>2. funct3(v) = funct3(w)
    BY <2>1, BranchNamed, PickLegal
  <2>. QED  BY <2>1, <2>2, FieldsAgree, ImmediatesAgree, AgreeParts
<1>2. CASE op = OP_STORE
  <2>1. /\ rs1(v) = rs1(w) /\ rs2(v) = rs2(w) /\ imm_s(v) = imm_s(w)
        /\ Pick(StoreTypes, funct3(w)) # "ILLEGAL"
        /\ Pick(StoreTypes, funct3(v)) = Pick(StoreTypes, funct3(w))
    BY <1>2, DecodeByOpcode, Formats DEF Is
  <2>2. funct3(v) = funct3(w)
    BY <2>1, StoreNamed, PickLegal
  <2>. QED  BY <2>1, <2>2, FieldsAgree, ImmediatesAgree, AgreeParts
<1>. QED  BY <1>1, <1>2

\* Two words decoded as one load are the same above the opcode.
LEMMA SameLoad ==
    ASSUME NEW v \in Words, NEW w \in Words,
           opcode(v) = OP_LOAD, opcode(w) = OP_LOAD, decode32(v) = decode32(w),
           decode32(w).type # "ILLEGAL"
    PROVE  Agree(v, w, 7 .. 31)
<1>1. /\ rd(v) = rd(w) /\ rs1(v) = rs1(w) /\ imm_i(v) = imm_i(w)
      /\ Pick(LoadTypes, funct3(w)) # "ILLEGAL"
      /\ Pick(LoadTypes, funct3(v)) = Pick(LoadTypes, funct3(w))
  BY DecodeByOpcode, Formats DEF Is
<1>2. funct3(v) = funct3(w)
  BY <1>1, LoadNamed, PickLegal
<1>. QED  BY <1>1, <1>2, FieldsAgree, ImmediatesAgree, AgreeParts

\* Shifts and the other immediate instructions have different names.
LEMMA SameImm ==
    ASSUME NEW v \in Words, NEW w \in Words,
           opcode(v) = OP_IMM, opcode(w) = OP_IMM, decode32(v) = decode32(w),
           decode32(w).type # "ILLEGAL"
    PROVE  Agree(v, w, 7 .. 31)
<1>. DEFINE t == decode32(w).type
<1>1. decode32(v) = DecodeImm(v) /\ decode32(w) = DecodeImm(w) /\ decode32(v).type = t
  BY DecodeByOpcode
<1>2. ASSUME NEW u \in {v, w}, IsShift(u)
      PROVE  /\ t \in ShiftNames
             /\ decode32(u).rd = rd(u) /\ decode32(u).rs1 = rs1(u) /\ decode32(u).imm = rs2(u)
             /\ t = "SLLI" => funct3(u) = {0} /\ funct7(u) = F7_NORMAL
             /\ t = "SRLI" => funct3(u) = {0, 2} /\ funct7(u) = F7_NORMAL
             /\ t = "SRAI" => funct3(u) = {0, 2} /\ funct7(u) = F7_ALT
  <2>1. decode32(u) = DecodeImm(u) /\ decode32(u).type = t
    BY <1>1
  <2>. QED  BY <1>2, <2>1, ShiftCases DEF ShiftNames, Is
<1>3. ASSUME NEW u \in {v, w}, ~IsShift(u)
      PROVE  /\ t = Pick(ImmTypes, funct3(u)) /\ t \in ImmNames
             /\ decode32(u).rd = rd(u) /\ decode32(u).rs1 = rs1(u) /\ decode32(u).imm = imm_i(u)
  <2>1. decode32(u) = DecodeImm(u) /\ decode32(u).type = t
    BY <1>1
  <2>2. /\ t = Pick(ImmTypes, funct3(u))
        /\ decode32(u).rd = rd(u) /\ decode32(u).rs1 = rs1(u) /\ decode32(u).imm = imm_i(u)
    BY <1>3, <2>1, ImmCases DEF Is
  <2>. QED  BY <2>2, ImmNamed, PickLegal
<1>4. rd(v) = rd(w) /\ rs1(v) = rs1(w)
  BY <1>2, <1>3
<1>5. ShiftNames \cap ImmNames = {}
  BY DEF ShiftNames, ImmNames
<1>6. CASE IsShift(v) /\ IsShift(w)
  <2>1. rs2(v) = rs2(w)
    BY <1>2, <1>6
  <2>2. funct3(v) = funct3(w) /\ funct7(v) = funct7(w)
    BY <1>2, <1>6 DEF ShiftNames
  <2>. QED  BY <1>4, <2>1, <2>2, FieldsAgree, AgreeParts
<1>7. CASE ~IsShift(v) /\ ~IsShift(w)
  <2>1. imm_i(v) = imm_i(w)
    BY <1>3, <1>7
  <2>2. funct3(v) = funct3(w)
    BY <1>3, <1>7, ImmNamed, PickLegal
  <2>. QED  BY <1>4, <2>1, <2>2, FieldsAgree, ImmediatesAgree, AgreeParts
<1>. QED  BY <1>2, <1>3, <1>5, <1>6, <1>7

\* Two words decoded as one register operation are the same above the opcode.
LEMMA SameReg ==
    ASSUME NEW v \in Words, NEW w \in Words,
           opcode(v) = OP_REG, opcode(w) = OP_REG, decode32(v) = decode32(w),
           decode32(w).type # "ILLEGAL"
    PROVE  Agree(v, w, 7 .. 31)
<1>. DEFINE t == decode32(w).type
<1>1. decode32(v) = DecodeReg(v) /\ decode32(w) = DecodeReg(w) /\ decode32(v).type = t
  BY DecodeByOpcode
<1>2. rd(v) = rd(w) /\ rs1(v) = rs1(w) /\ rs2(v) = rs2(w)
  BY <1>1, RegCases DEF Is
<1>3. ASSUME NEW u \in {v, w}
      PROVE  \/ funct7(u) = F7_MULDIV /\ t = Pick(MulDivTypes, funct3(u)) /\ t \in MulDiv
             \/ funct7(u) = F7_NORMAL /\ t = Pick(RegTypes, funct3(u)) /\ t \in RegNames
             \/ funct7(u) = F7_ALT /\ t = Pick(AltTypes, funct3(u)) /\ t \in AltNames
  <2>1. \/ funct7(u) = F7_MULDIV /\ t = Pick(MulDivTypes, funct3(u))
        \/ funct7(u) = F7_NORMAL /\ t = Pick(RegTypes, funct3(u))
        \/ funct7(u) = F7_ALT /\ t = Pick(AltTypes, funct3(u))
    BY <1>1, RegCases
  <2>. QED  BY <2>1, MulDivNamed, RegNamed, AltNamed, PickLegal
<1>4. MulDiv \cap RegNames = {} /\ MulDiv \cap AltNames = {} /\ RegNames \cap AltNames = {}
  BY DEF MulDiv, RegNames, AltNames
<1>5. \/ /\ t = Pick(MulDivTypes, funct3(v)) /\ t = Pick(MulDivTypes, funct3(w))
         /\ funct7(v) = funct7(w)
      \/ /\ t = Pick(RegTypes, funct3(v)) /\ t = Pick(RegTypes, funct3(w))
         /\ funct7(v) = funct7(w)
      \/ /\ t = Pick(AltTypes, funct3(v)) /\ t = Pick(AltTypes, funct3(w))
         /\ funct7(v) = funct7(w)
  BY <1>3, <1>4
<1>6. funct3(v) = funct3(w) /\ funct7(v) = funct7(w)
  BY <1>5, MulDivNamed, RegNamed, AltNamed, PickLegal
<1>. QED  BY <1>2, <1>6, FieldsAgree, AgreeParts

\* Two words decoded as one atomic operation differ in aq and rl at most.
LEMMA SameAmo ==
    ASSUME NEW v \in Words, NEW w \in Words,
           opcode(v) = OP_AMO, opcode(w) = OP_AMO, decode32(v) = decode32(w),
           decode32(w).type # "ILLEGAL"
    PROVE  /\ Agree(v, w, (7 .. 31) \ {25, 26})
           /\ decode32(w).type \in AmoNames /\ decode32(w).type \in {t[2] : t \in AmoTypes}
<1>1. decode32(v) = DecodeAmo(v) /\ decode32(w) = DecodeAmo(w)
  BY DecodeByOpcode
<1>2. rd(v) = rd(w) /\ rs1(v) = rs1(w) /\ rs2(v) = rs2(w)
  BY <1>1, AmoCases DEF Is
<1>3. /\ funct3(v) = funct3(w)
      /\ decode32(w).type = Pick(AmoTypes, funct5(w))
      /\ Pick(AmoTypes, funct5(v)) = Pick(AmoTypes, funct5(w))
      /\ Pick(AmoTypes, funct5(w)) # "ILLEGAL"
  BY <1>1, AmoCases
<1>4. funct5(v) = funct5(w)
  BY <1>3, AmoNamed, PickLegal
<1>5. /\ Agree(v, w, 7 .. 11) /\ Agree(v, w, 12 .. 14) /\ Agree(v, w, 15 .. 19)
      /\ Agree(v, w, 20 .. 24) /\ Agree(v, w, 27 .. 31)
  BY <1>2, <1>3, <1>4, FieldsAgree
<1>6. \A y \in (7 .. 31) \ {25, 26} : \/ y \in 7 .. 11 \/ y \in 12 .. 14 \/ y \in 15 .. 19
                                      \/ y \in 20 .. 24 \/ y \in 27 .. 31
  OBVIOUS
<1>7. Agree(v, w, (7 .. 31) \ {25, 26})
  BY <1>5, <1>6 DEF Agree
<1>. QED  BY <1>3, <1>7, AmoNamed, PickLegal

\* Two words decoded as one system instruction differ in the fields it ignores at most.
LEMMA SameSystem ==
    ASSUME NEW v \in Words, NEW w \in Words,
           opcode(v) = OP_SYSTEM, opcode(w) = OP_SYSTEM, decode32(v) = decode32(w),
           decode32(w).type # "ILLEGAL"
    PROVE  LET t == decode32(w).type IN
           \/ Agree(v, w, 7 .. 31)
           \/ Agree(v, w, (7 .. 31) \ (7 .. 11)) /\ t = "SFENCE_VMA"
           \/ /\ Agree(v, w, (7 .. 31) \ ((7 .. 11) \cup (15 .. 19)))
              /\ t \in PrivNames /\ t \in {p[2] : p \in PrivTypes}
<1>. DEFINE i == decode32(w)
            t == decode32(w).type
            Csr(u) == /\ t = Pick(CsrTypes, funct3(u)) /\ t \in CsrNames
                      /\ i.rd = rd(u) /\ i.rs1 = rs1(u) /\ i.csr = funct12(u)
            Sfence(u) == /\ funct3(u) = {} /\ funct7(u) = F7_SFENCE_VMA
                         /\ t = "SFENCE_VMA" /\ i.rs1 = rs1(u) /\ i.rs2 = rs2(u)
            Priv(u) == /\ funct3(u) = {} /\ t = Pick(PrivTypes, funct12(u)) /\ t \in PrivNames
                       /\ t \in {p[2] : p \in PrivTypes}
<1>1. ASSUME NEW u \in {v, w} PROVE Csr(u) \/ Sfence(u) \/ Priv(u)
  <2>0. decode32(u) = i /\ decode32(u) = DecodeSystem(u)
    BY DecodeByOpcode
  <2>1. \/ /\ t = Pick(CsrTypes, funct3(u))
           /\ i.rd = rd(u) /\ i.rs1 = rs1(u) /\ i.csr = funct12(u)
        \/ Sfence(u)
        \/ funct3(u) = {} /\ t = Pick(PrivTypes, funct12(u))
    BY <2>0, SystemCases
  <2>. QED  BY <2>1, CsrNamed, PrivNamed, PickLegal
<1>2. /\ CsrNames \cap PrivNames = {} /\ "SFENCE_VMA" \notin CsrNames
      /\ "SFENCE_VMA" \notin PrivNames
  BY DEF CsrNames, PrivNames
<1>3. (Csr(v) /\ Csr(w)) \/ (Sfence(v) /\ Sfence(w)) \/ (Priv(v) /\ Priv(w))
  BY <1>1, <1>2
<1>4. CASE Csr(v) /\ Csr(w)
  <2>1. rd(v) = rd(w) /\ rs1(v) = rs1(w) /\ funct12(v) = funct12(w)
    BY <1>4
  <2>2. funct3(v) = funct3(w)
    BY <1>4, CsrNamed, PickLegal
  <2>. QED  BY <2>1, <2>2, FieldsAgree, AgreeParts
<1>5. CASE Sfence(v) /\ Sfence(w)
  <2>1. funct3(v) = funct3(w) /\ funct7(v) = funct7(w) /\ rs1(v) = rs1(w) /\ rs2(v) = rs2(w)
    BY <1>5
  <2>2. /\ Agree(v, w, 12 .. 14) /\ Agree(v, w, 15 .. 19) /\ Agree(v, w, 20 .. 24)
        /\ Agree(v, w, 25 .. 31)
    BY <2>1, FieldsAgree
  <2>3. \A y \in (7 .. 31) \ (7 .. 11) : \/ y \in 12 .. 14 \/ y \in 15 .. 19
                                         \/ y \in 20 .. 24 \/ y \in 25 .. 31
    OBVIOUS
  <2>4. Agree(v, w, (7 .. 31) \ (7 .. 11))
    BY <2>2, <2>3 DEF Agree
  <2>. QED  BY <1>5, <2>4
<1>6. CASE Priv(v) /\ Priv(w)
  <2>1. funct3(v) = funct3(w)
    BY <1>6
  <2>2. funct12(v) = funct12(w)
    BY <1>6, PrivNamed, PickLegal
  <2>3. Agree(v, w, 12 .. 14) /\ Agree(v, w, 20 .. 31)
    BY <2>1, <2>2, FieldsAgree
  <2>4. \A y \in (7 .. 31) \ ((7 .. 11) \cup (15 .. 19)) : y \in 12 .. 14 \/ y \in 20 .. 31
    OBVIOUS
  <2>5. Agree(v, w, (7 .. 31) \ ((7 .. 11) \cup (15 .. 19)))
    BY <2>3, <2>4 DEF Agree
  <2>. QED  BY <1>6, <2>5
<1>. QED  BY <1>3, <1>4, <1>5, <1>6

\* The bits each kind of instruction ignores.
LEMMA UnusedIs ==
    /\ Unused("JALR") = 12 .. 14
    /\ Unused("SFENCE_VMA") = 7 .. 11
    /\ \A t \in FenceNames : Unused(t) = 7 .. 31
    /\ \A t \in AmoNames : t \in {s[2] : s \in AmoTypes} => Unused(t) = {25, 26}
    /\ \A t \in PrivNames :
           t \in {s[2] : s \in PrivTypes} => Unused(t) = (7 .. 11) \cup (15 .. 19)
<1>. DEFINE amo == {s[2] : s \in AmoTypes}
            priv == {s[2] : s \in PrivTypes}
<1>1. (\A t \in amo : t \in AmoNames) /\ (\A t \in priv : t \in PrivNames)
  BY AmoNamed, PrivNamed DEF NamedBy
<1>2. \A t : Unused(t) = CASE t = "JALR" -> 12 .. 14
                           [] t \in {"FENCE", "FENCEI"} -> 7 .. 31
                           [] t \in amo -> {25, 26}
                           [] t \in priv -> (7 .. 11) \cup (15 .. 19)
                           [] t = "SFENCE_VMA" -> 7 .. 11
                           [] OTHER -> {}
  BY DEF Unused
<1>. HIDE DEF amo, priv
<1>3. Unused("JALR") = 12 .. 14
  BY <1>1, <1>2 DEF AmoNames, PrivNames
<1>4. Unused("SFENCE_VMA") = 7 .. 11
  BY <1>1, <1>2 DEF AmoNames, PrivNames
<1>5. \A t \in FenceNames : Unused(t) = 7 .. 31
  BY <1>1, <1>2 DEF AmoNames, PrivNames, FenceNames
<1>6. \A t \in AmoNames : t \in amo => Unused(t) = {25, 26}
  BY <1>1, <1>2 DEF AmoNames, PrivNames
<1>7. \A t \in PrivNames : t \in priv => Unused(t) = (7 .. 11) \cup (15 .. 19)
  BY <1>1, <1>2 DEF AmoNames, PrivNames
<1>. QED  BY <1>3, <1>4, <1>5, <1>6, <1>7 DEF amo, priv

\* The decoder is injective up to the unused bits.
LEMMA SameInstr ==
    ASSUME NEW v \in Words, NEW w \in Words, decode32(v) = decode32(w),
           decode32(w).type # "ILLEGAL"
    PROVE  Agree(v, w, (0 .. 31) \ Unused(decode32(w).type))
<1>. DEFINE t == decode32(w).type
<1>1. opcode(v) = opcode(w)
  BY TypeOpcode
<1>2. opcode(w) \in Opcodes
  BY DecodeByOpcode DEF Blank
<1>3. Agree(v, w, (7 .. 31) \ Unused(t))
  <2>0. Agree(v, w, 7 .. 31) => Agree(v, w, (7 .. 31) \ Unused(t))
    BY DEF Agree
  <2>1. CASE opcode(w) \in {OP_LUI, OP_AUIPC, OP_JAL}
    BY <1>1, <2>0, <2>1, SameUpper
  <2>2. CASE opcode(w) = OP_JALR
    BY <1>1, <2>2, SameJalr, UnusedIs
  <2>3. CASE opcode(w) \in {OP_BRANCH, OP_STORE}
    BY <1>1, <2>0, <2>3, SameBranchStore
  <2>4. CASE opcode(w) = OP_LOAD
    BY <1>1, <2>0, <2>4, SameLoad
  <2>5. CASE opcode(w) = OP_IMM
    BY <1>1, <2>0, <2>5, SameImm
  <2>6. CASE opcode(w) = OP_REG
    BY <1>1, <2>0, <2>6, SameReg
  <2>7. CASE opcode(w) = OP_AMO
    BY <1>1, <2>7, SameAmo, UnusedIs
  <2>8. CASE opcode(w) = OP_FENCE
    <3>1. decode32(w) = [Blank EXCEPT !.type = IF funct3(w) = {0} THEN "FENCEI" ELSE "FENCE"]
      BY <2>8, DecodeByOpcode
    <3>2. t \in FenceNames
      BY <3>1 DEF Blank, FenceNames
    <3>3. Unused(t) = 7 .. 31
      BY <3>2, UnusedIs
    <3>. QED  BY <3>3 DEF Agree
  <2>9. CASE opcode(w) = OP_SYSTEM
    BY <1>1, <2>0, <2>9, SameSystem, UnusedIs
  <2>. QED  BY <1>2, <2>1, <2>2, <2>3, <2>4, <2>5, <2>6, <2>7, <2>8, <2>9 DEF Opcodes
<1>4. Agree(v, w, 0 .. 6)
  BY <1>1, FieldsAgree
<1>5. \A y \in (0 .. 31) \ Unused(t) : y \in 0 .. 6 \/ y \in (7 .. 31) \ Unused(t)
  OBVIOUS
<1>. QED  BY <1>3, <1>4, <1>5 DEF Agree

\* decode32 and the extractors of rv32_defs.h keep every bit of every legal 32-bit word
\* that its instruction uses: of two words that differ in such a bit at least one is
\* another instruction or has another operand.
THEOREM IsaEveryBitCounts == Spec => []EveryBitCounts
<1>1. IsaInv => EveryBitCounts
  <2>. SUFFICES ASSUME IsaInv, {0, 1} \subseteq raw, d.type # "ILLEGAL",
                       NEW b \in 2 .. 31 \ Unused(d.type), decode(Flip(raw, b)) = d
                PROVE  FALSE
    BY DEF EveryBitCounts
  <2>1. raw \in Words /\ d = decode32(raw)
    BY LongDecoded
  <2>. DEFINE v == Flip(raw, b)
  <2>2. v \in Words /\ {0, 1} \subseteq v /\ ~(b \in v <=> b \in raw)
    BY <2>1 DEF Flip, Words, Bits
  <2>3. decode32(v) = d
    BY <2>2 DEF decode
  <2>. HIDE DEF v
  <2>4. Agree(v, raw, (0 .. 31) \ Unused(d.type))
    BY <2>1, <2>2, <2>3, SameInstr
  <2>5. b \in (0 .. 31) \ Unused(d.type)
    OBVIOUS
  <2>. QED  BY <2>2, <2>4, <2>5 DEF Agree
<1>. QED  BY <1>1, IsaInvariant, PTL
-----------------------------------------------------------------------------
(* The immediates are where the manual puts them.                           *)

\* The pieces of the immediate of each kind of instruction.
LEMMA EncodingIs ==
    ASSUME NEW t
    PROVE  /\ t \in {"LUI", "AUIPC"} => Encoding(t) = {<<31, 31, 12>>}
           /\ t = "JAL" =>
                  Encoding(t) = {<<31, 20, 20>>, <<30, 10, 1>>, <<20, 11, 11>>, <<19, 19, 12>>}
           /\ t \in {s[2] : s \in BranchTypes} =>
                  Encoding(t) = {<<31, 12, 12>>, <<30, 10, 5>>, <<11, 4, 1>>, <<7, 11, 11>>}
           /\ t \in {s[2] : s \in StoreTypes} => Encoding(t) = {<<31, 11, 5>>, <<11, 4, 0>>}
           /\ t \in {s[2] : s \in LoadTypes} => Encoding(t) = {<<31, 11, 0>>}
           /\ t \in {s[2] : s \in ImmTypes} => Encoding(t) = {<<31, 11, 0>>}
           /\ t = "JALR" => Encoding(t) = {<<31, 11, 0>>}
           /\ t \in {"SLLI", "SRLI", "SRAI"} => Encoding(t) = {<<24, 4, 0>>}
           /\ t \in {s[2] : s \in CsrTypes} => Encoding(t) = {<<19, 4, 0>>}
           /\ t \in MulDiv \cup RegNames \cup AltNames \cup AmoNames \cup FenceNames
                     \cup PrivNames \cup {"SFENCE_VMA"} => Encoding(t) = {}
<1>. DEFINE branch == {s[2] : s \in BranchTypes}
            store == {s[2] : s \in StoreTypes}
            load == {s[2] : s \in LoadTypes}
            immediate == {s[2] : s \in ImmTypes}
            both == {s[2] : s \in LoadTypes \cup ImmTypes}
            csr == {s[2] : s \in CsrTypes}
<1>1. /\ \A x \in branch : x \in BranchNames
      /\ \A x \in store : x \in StoreNames
      /\ \A x \in load : x \in LoadNames
      /\ \A x \in immediate : x \in ImmNames
      /\ \A x \in csr : x \in CsrNames
  BY BranchNamed, StoreNamed, LoadNamed, ImmNamed, CsrNamed DEF NamedBy
<1>2. both = load \cup immediate
  OBVIOUS
<1>3. Encoding(t) =
          CASE t \in {"LUI", "AUIPC"} -> {<<31, 31, 12>>}
            [] t = "JAL" -> {<<31, 20, 20>>, <<30, 10, 1>>, <<20, 11, 11>>, <<19, 19, 12>>}
            [] t \in branch -> {<<31, 12, 12>>, <<30, 10, 5>>, <<11, 4, 1>>, <<7, 11, 11>>}
            [] t \in store -> {<<31, 11, 5>>, <<11, 4, 0>>}
            [] t \in both \cup {"JALR"} -> {<<31, 11, 0>>}
            [] t \in {"SLLI", "SRLI", "SRAI"} -> {<<24, 4, 0>>}
            [] t \in csr -> {<<19, 4, 0>>}
            [] OTHER -> {}
  BY DEF Encoding
<1>. HIDE DEF branch, store, load, immediate, both, csr
<1>. DEFINE names == BranchNames \cup StoreNames \cup LoadNames \cup ImmNames \cup CsrNames
<1>4. t \in {"LUI", "AUIPC", "JAL", "JALR", "SLLI", "SRLI", "SRAI"} => t \notin names
  BY DEF BranchNames, StoreNames, LoadNames, ImmNames, CsrNames
<1>5. t \in MulDiv \cup RegNames \cup AltNames \cup AmoNames \cup FenceNames
            \cup PrivNames \cup {"SFENCE_VMA"} =>
          t \notin names \cup {"LUI", "AUIPC", "JAL", "JALR", "SLLI", "SRLI", "SRAI"}
  BY DEF BranchNames, StoreNames, LoadNames, ImmNames, CsrNames, MulDiv, RegNames, AltNames,
         AmoNames, FenceNames, PrivNames
<1>6. /\ t \in BranchNames => t \notin StoreNames \cup LoadNames \cup ImmNames \cup CsrNames
      /\ t \in StoreNames => t \notin LoadNames \cup ImmNames \cup CsrNames
      /\ t \in LoadNames \cup ImmNames => t \notin CsrNames
  BY DEF BranchNames, StoreNames, LoadNames, ImmNames, CsrNames
<1>7. CASE t \in names
  <2>1. t \notin {"LUI", "AUIPC", "JAL", "JALR", "SLLI", "SRLI", "SRAI"}
    BY <1>4, <1>7
  <2>2. t \notin MulDiv \cup RegNames \cup AltNames \cup AmoNames \cup FenceNames
                 \cup PrivNames \cup {"SFENCE_VMA"}
    BY <1>5, <1>7
  <2>. HIDE DEF names
  <2>. QED  BY <1>1, <1>2, <1>3, <1>6, <2>1, <2>2
            DEF branch, store, load, immediate, csr
<1>8. CASE t \notin names
  <2>1. t \notin branch /\ t \notin store /\ t \notin load /\ t \notin immediate /\ t \notin csr
    BY <1>1, <1>8
  <2>2. t \notin both
    BY <1>2, <2>1
  <2>. HIDE DEF names
  <2>. QED  BY <1>3, <1>5, <2>1, <2>2 DEF branch, store, load, immediate, csr
<1>. QED  BY <1>7, <1>8

\* The five immediates of rv32_defs.h, and the two short ones, gathered piece by piece.
LEMMA GatheredIs ==
    ASSUME NEW w \in Words
    PROVE  /\ imm_i(w) = Gathered({<<31, 11, 0>>}, w)
           /\ imm_s(w) = Gathered({<<31, 11, 5>>, <<11, 4, 0>>}, w)
           /\ imm_b(w) = Gathered({<<31, 12, 12>>, <<30, 10, 5>>, <<11, 4, 1>>, <<7, 11, 11>>}, w)
           /\ imm_u(w) = Gathered({<<31, 31, 12>>}, w)
           /\ imm_j(w) =
                  Gathered({<<31, 20, 20>>, <<30, 10, 1>>, <<20, 11, 11>>, <<19, 19, 12>>}, w)
           /\ rs2(w) = Gathered({<<24, 4, 0>>}, w)
           /\ rs1(w) = Gathered({<<19, 4, 0>>}, w)
           /\ {} = Gathered({}, w)
<1>. DEFINE Piece(i, b, hi, lo) == \/ i \in lo .. hi /\ b - hi + i \in w
                                   \/ b = 31 /\ i > hi /\ 31 \in w
<1>0. w \in SUBSET Bits
  BY DEF Words
<1>1. imm_i(w) = Gathered({<<31, 11, 0>>}, w)
  <2>1. Gathered({<<31, 11, 0>>}, w) = {i \in Bits : Piece(i, 31, 11, 0)}
    BY DEF Gathered
  <2>2. \A i \in Bits : Piece(i, 31, 11, 0) <=> IF i <= 11 THEN i + 20 \in w ELSE 31 \in w
    BY DEF Bits
  <2>. QED  BY <1>0, <2>1, <2>2, ImmediatesIn
<1>2. imm_s(w) = Gathered({<<31, 11, 5>>, <<11, 4, 0>>}, w)
  <2>1. Gathered({<<31, 11, 5>>, <<11, 4, 0>>}, w) =
            {i \in Bits : Piece(i, 31, 11, 5) \/ Piece(i, 11, 4, 0)}
    BY DEF Gathered
  <2>2. \A i \in Bits : Piece(i, 31, 11, 5) \/ Piece(i, 11, 4, 0) <=>
                            \/ i \in 0 .. 4 /\ i + 7 \in w
                            \/ i \in 5 .. 11 /\ i + 20 \in w
                            \/ i >= 12 /\ 31 \in w
    BY DEF Bits
  <2>. QED  BY <1>0, <2>1, <2>2, ImmediatesIn
<1>3. imm_b(w) = Gathered({<<31, 12, 12>>, <<30, 10, 5>>, <<11, 4, 1>>, <<7, 11, 11>>}, w)
  <2>1. Gathered({<<31, 12, 12>>, <<30, 10, 5>>, <<11, 4, 1>>, <<7, 11, 11>>}, w) =
            {i \in Bits : \/ Piece(i, 31, 12, 12) \/ Piece(i, 30, 10, 5)
                          \/ Piece(i, 11, 4, 1) \/ Piece(i, 7, 11, 11)}
    BY DEF Gathered
  <2>2. \A i \in Bits : (\/ Piece(i, 31, 12, 12) \/ Piece(i, 30, 10, 5)
                         \/ Piece(i, 11, 4, 1) \/ Piece(i, 7, 11, 11)) <=>
                            \/ i \in 1 .. 4 /\ i + 7 \in w
                            \/ i \in 5 .. 10 /\ i + 20 \in w
                            \/ i = 11 /\ 7 \in w
                            \/ i >= 12 /\ 31 \in w
    BY DEF Bits
  <2>. QED  BY <1>0, <2>1, <2>2, ImmediatesIn
<1>4. imm_u(w) = Gathered({<<31, 31, 12>>}, w)
  <2>1. Gathered({<<31, 31, 12>>}, w) = {i \in Bits : Piece(i, 31, 31, 12)}
    BY DEF Gathered
  <2>2. \A i \in Bits : Piece(i, 31, 31, 12) <=> i >= 12 /\ i \in w
    BY DEF Bits
  <2>. QED  BY <1>0, <2>1, <2>2, ImmediatesIn
<1>5. imm_j(w) = Gathered({<<31, 20, 20>>, <<30, 10, 1>>, <<20, 11, 11>>, <<19, 19, 12>>}, w)
  <2>1. Gathered({<<31, 20, 20>>, <<30, 10, 1>>, <<20, 11, 11>>, <<19, 19, 12>>}, w) =
            {i \in Bits : \/ Piece(i, 31, 20, 20) \/ Piece(i, 30, 10, 1)
                          \/ Piece(i, 20, 11, 11) \/ Piece(i, 19, 19, 12)}
    BY DEF Gathered
  <2>2. \A i \in Bits : (\/ Piece(i, 31, 20, 20) \/ Piece(i, 30, 10, 1)
                         \/ Piece(i, 20, 11, 11) \/ Piece(i, 19, 19, 12)) <=>
                            \/ i \in 1 .. 10 /\ i + 20 \in w
                            \/ i = 11 /\ 20 \in w
                            \/ i \in 12 .. 19 /\ i \in w
                            \/ i >= 20 /\ 31 \in w
    BY DEF Bits
  <2>. QED  BY <1>0, <2>1, <2>2, ImmediatesIn
<1>6. rs2(w) = Gathered({<<24, 4, 0>>}, w)
  <2>1. Gathered({<<24, 4, 0>>}, w) = {i \in Bits : Piece(i, 24, 4, 0)}
    BY DEF Gathered
  <2>2. \A i : i \in Bits /\ Piece(i, 24, 4, 0) <=> i \in 0 .. 4 /\ i + 20 \in w
    BY DEF Bits
  <2>3. rs2(w) = {i \in 0 .. 4 : i + 20 \in w}
    BY <1>0, FieldsIn
  <2>. QED  BY <2>1, <2>2, <2>3
<1>7. rs1(w) = Gathered({<<19, 4, 0>>}, w)
  <2>1. Gathered({<<19, 4, 0>>}, w) = {i \in Bits : Piece(i, 19, 4, 0)}
    BY DEF Gathered
  <2>2. \A i : i \in Bits /\ Piece(i, 19, 4, 0) <=> i \in 0 .. 4 /\ i + 15 \in w
    BY DEF Bits
  <2>3. rs1(w) = {i \in 0 .. 4 : i + 15 \in w}
    BY <1>0, FieldsIn
  <2>. QED  BY <2>1, <2>2, <2>3
<1>8. {} = Gathered({}, w)
  BY DEF Gathered
<1>. QED  BY <1>1, <1>2, <1>3, <1>4, <1>5, <1>6, <1>7, <1>8

\* What decode32 returns as the immediate of a legal word.
LEMMA ImmediateIs ==
    ASSUME NEW w \in Words, decode32(w).type # "ILLEGAL"
    PROVE  decode32(w).imm = Gathered(Encoding(decode32(w).type), w)
<1>. DEFINE i == decode32(w)
<1>. HIDE DEF i
<1>0. opcode(w) \in Opcodes
  BY DecodeByOpcode DEF Blank
<1>1. CASE opcode(w) \in {OP_LUI, OP_AUIPC}
  <2>1. i.type \in {"LUI", "AUIPC"} /\ i.imm = imm_u(w)
    BY <1>1, DecodeByOpcode, Formats DEF Is, i
  <2>2. Encoding(i.type) = {<<31, 31, 12>>}
    BY <2>1, EncodingIs
  <2>. QED  BY <2>1, <2>2, GatheredIs DEF i
<1>2. CASE opcode(w) = OP_JAL
  <2>1. i.type = "JAL" /\ i.imm = imm_j(w)
    BY <1>2, DecodeByOpcode, Formats DEF Is, i
  <2>2. Encoding(i.type) = {<<31, 20, 20>>, <<30, 10, 1>>, <<20, 11, 11>>, <<19, 19, 12>>}
    BY <2>1, EncodingIs
  <2>. QED  BY <2>1, <2>2, GatheredIs DEF i
<1>3. CASE opcode(w) = OP_JALR
  <2>1. i.type = "JALR" /\ i.imm = imm_i(w)
    BY <1>3, DecodeByOpcode, Formats DEF Is, i
  <2>2. Encoding(i.type) = {<<31, 11, 0>>}
    BY <2>1, EncodingIs
  <2>. QED  BY <2>1, <2>2, GatheredIs DEF i
<1>4. CASE opcode(w) = OP_BRANCH
  <2>1. i.type = Pick(BranchTypes, funct3(w)) /\ i.imm = imm_b(w)
    BY <1>4, DecodeByOpcode, Formats DEF Is, i
  <2>2. i.type \in {s[2] : s \in BranchTypes}
    BY <2>1, BranchNamed, PickLegal DEF i
  <2>3. Encoding(i.type) = {<<31, 12, 12>>, <<30, 10, 5>>, <<11, 4, 1>>, <<7, 11, 11>>}
    BY <2>1, <2>2, EncodingIs
  <2>. QED  BY <2>1, <2>2, <2>3, GatheredIs DEF i
<1>5. CASE opcode(w) = OP_LOAD
  <2>1. i.type = Pick(LoadTypes, funct3(w)) /\ i.imm = imm_i(w)
    BY <1>5, DecodeByOpcode, Formats DEF Is, i
  <2>2. i.type \in {s[2] : s \in LoadTypes}
    BY <2>1, LoadNamed, PickLegal DEF i
  <2>3. Encoding(i.type) = {<<31, 11, 0>>}
    BY <2>1, <2>2, EncodingIs
  <2>. QED  BY <2>1, <2>2, <2>3, GatheredIs DEF i
<1>6. CASE opcode(w) = OP_STORE
  <2>1. i.type = Pick(StoreTypes, funct3(w)) /\ i.imm = imm_s(w)
    BY <1>6, DecodeByOpcode, Formats DEF Is, i
  <2>2. i.type \in {s[2] : s \in StoreTypes}
    BY <2>1, StoreNamed, PickLegal DEF i
  <2>3. Encoding(i.type) = {<<31, 11, 5>>, <<11, 4, 0>>}
    BY <2>1, <2>2, EncodingIs
  <2>. QED  BY <2>1, <2>2, <2>3, GatheredIs DEF i
<1>7. CASE opcode(w) = OP_IMM /\ IsShift(w)
  <2>1. i.type \in {"SLLI", "SRLI", "SRAI"} /\ i.imm = rs2(w)
    BY <1>7, DecodeByOpcode, ShiftCases DEF Is, i
  <2>2. Encoding(i.type) = {<<24, 4, 0>>}
    BY <2>1, EncodingIs
  <2>. QED  BY <2>1, <2>2, GatheredIs DEF i
<1>8. CASE opcode(w) = OP_IMM /\ ~IsShift(w)
  <2>1. i.type = Pick(ImmTypes, funct3(w)) /\ i.imm = imm_i(w)
    BY <1>8, DecodeByOpcode, ImmCases DEF Is, i
  <2>2. i.type \in {s[2] : s \in ImmTypes}
    BY <2>1, ImmNamed, PickLegal DEF i
  <2>3. Encoding(i.type) = {<<31, 11, 0>>}
    BY <2>1, <2>2, EncodingIs
  <2>. QED  BY <2>1, <2>2, <2>3, GatheredIs DEF i
<1>9. CASE opcode(w) = OP_REG
  <2>1. i = DecodeReg(w)
    BY <1>9, DecodeByOpcode DEF i
  <2>2. /\ i.imm = {}
        /\ \/ i.type = Pick(MulDivTypes, funct3(w)) \/ i.type = Pick(RegTypes, funct3(w))
           \/ i.type = Pick(AltTypes, funct3(w))
    BY <2>1, RegCases DEF Is, i
  <2>3. i.type \in MulDiv \cup RegNames \cup AltNames
    BY <2>2, MulDivNamed, RegNamed, AltNamed, PickLegal DEF i
  <2>4. Encoding(i.type) = {}
    BY <2>2, <2>3, EncodingIs
  <2>. QED  BY <2>2, <2>3, <2>4, GatheredIs DEF i
<1>10. CASE opcode(w) = OP_AMO
  <2>1. i.type = Pick(AmoTypes, funct5(w)) /\ i.imm = {}
    BY <1>10, DecodeByOpcode, AmoCases DEF Is, i
  <2>2. i.type \in AmoNames
    BY <2>1, AmoNamed, PickLegal DEF i
  <2>3. Encoding(i.type) = {}
    BY <2>1, <2>2, EncodingIs
  <2>. QED  BY <2>1, <2>2, <2>3, GatheredIs DEF i
<1>11. CASE opcode(w) = OP_FENCE
  <2>1. i = [Blank EXCEPT !.type = IF funct3(w) = {0} THEN "FENCEI" ELSE "FENCE"]
    BY <1>11, DecodeByOpcode DEF i
  <2>2. i.type \in FenceNames /\ i.imm = {}
    BY <2>1 DEF Blank, FenceNames
  <2>3. Encoding(i.type) = {}
    BY <2>2, EncodingIs
  <2>. QED  BY <2>2, <2>3, GatheredIs DEF i
<1>12. CASE opcode(w) = OP_SYSTEM
  <2>1. i = DecodeSystem(w)
    BY <1>12, DecodeByOpcode DEF i
  <2>2. \/ i.type = Pick(CsrTypes, funct3(w)) /\ i.imm = rs1(w)
        \/ i.type = "SFENCE_VMA" /\ i.imm = {}
        \/ i.type = Pick(PrivTypes, funct12(w)) /\ i.imm = {}
    BY <2>1, SystemCases
  <2>3. \/ i.type \in {s[2] : s \in CsrTypes} /\ i.imm = rs1(w)
        \/ i.type \in PrivNames \cup {"SFENCE_VMA"} /\ i.imm = {}
    BY <2>2, CsrNamed, PrivNamed, PickLegal DEF i
  <2>4. CASE i.type \in {s[2] : s \in CsrTypes} /\ i.imm = rs1(w)
    <3>1. Encoding(i.type) = {<<19, 4, 0>>}
      BY <2>4, EncodingIs
    <3>. QED  BY <2>4, <3>1, GatheredIs DEF i
  <2>5. CASE i.type \in PrivNames \cup {"SFENCE_VMA"} /\ i.imm = {}
    <3>1. Encoding(i.type) = {}
      BY <2>5, EncodingIs
    <3>. QED  BY <2>5, <3>1, GatheredIs DEF i
  <2>. QED  BY <2>3, <2>4, <2>5
<1>. QED  BY <1>0, <1>1, <1>2, <1>3, <1>4, <1>5, <1>6, <1>7, <1>8, <1>9, <1>10, <1>11, <1>12
          DEF Opcodes

\* The extractors of rv32_defs.h take every bit of an immediate from where the manual
\* puts it, in every legal 32-bit word (ImmediateInPlace).
THEOREM IsaImmediateInPlace == Spec => []ImmediateInPlace
<1>1. IsaInv => ImmediateInPlace
  BY LongDecoded, ImmediateIs DEF ImmediateInPlace
<1>. QED  BY <1>1, IsaInvariant, PTL
=============================================================================
