------------------------------- MODULE Rv32m -------------------------------
(***************************************************************************)
(* The M extension, src/src/cpu/rv32m.cpp, over registers whose sign bit   *)
(* has the weight Half: 2^31 in the code, where Size is 2^32.  The code    *)
(* computes products in a host word of twice the width and quotients       *)
(* with the host's division, which is undefined for a zero divisor and for *)
(* the smallest number divided by -1: there the value is Crash.            *)
(***************************************************************************)
EXTENDS Integers

CONSTANT Half       \* The weight of a register's sign bit
ASSUME HalfAssumption == Half \in Nat \ {0}

Size  == 2 * Half
Regs  == 0 .. Size - 1
MIN   == -Half
Crash == -1

\* static_cast<int32_t> and static_cast<uint32_t>; \div rounds as >> does.
SInt(u) == IF u >= Half THEN u - Size ELSE u
UInt(n) == n % Size
High(n) == UInt(n \div Size)

\* The host's / and %, which round towards zero.
AbsVal(n) == IF n < 0 THEN -n ELSE n
SignOf(n) == IF n < 0 THEN -1 ELSE 1
HostDiv(a, b) ==
    IF b = 0 \/ (a = MIN /\ b = -1) THEN Crash
    ELSE UInt(SignOf(a) * SignOf(b) * (AbsVal(a) \div AbsVal(b)))
HostRem(a, b) ==
    IF b = 0 \/ (a = MIN /\ b = -1) THEN Crash
    ELSE UInt(SignOf(a) * (AbsVal(a) % AbsVal(b)))
-----------------------------------------------------------------------------
mul(rs1, rs2)   == UInt(SInt(rs1) * SInt(rs2))
mulh(rs1, rs2)  == High(SInt(rs1) * SInt(rs2))

\* Mutant of mulhsu: both factors are converted the way mulh does.
mulhsu_Signed(rs1, rs2) == High(SInt(rs1) * SInt(rs2))

mulhsu(rs1, rs2) == High(SInt(rs1) * rs2)
mulhu(rs1, rs2)  == High(rs1 * rs2)

div(rs1, rs2) ==
    CASE SInt(rs2) = 0 -> Size - 1
      [] SInt(rs1) = MIN /\ SInt(rs2) = -1 -> UInt(MIN)
      [] OTHER -> HostDiv(SInt(rs1), SInt(rs2))
divu(rs1, rs2) == IF rs2 = 0 THEN Size - 1 ELSE rs1 \div rs2
rem(rs1, rs2) ==
    CASE SInt(rs2) = 0 -> rs1
      [] SInt(rs1) = MIN /\ SInt(rs2) = -1 -> 0
      [] OTHER -> HostRem(SInt(rs1), SInt(rs2))
remu(rs1, rs2) == IF rs2 = 0 THEN rs1 ELSE rs1 % rs2
=============================================================================
