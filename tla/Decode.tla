------------------------------- MODULE Decode -------------------------------
(***************************************************************************)
(* The instruction decoder, src/src/cpu/decode.{h,cpp} with the field and  *)
(* immediate extractors of src/src/cpu/rv32_defs.h.  A word is the set of  *)
(* the numbers of its 1 bits, so that | is union and & an intersection     *)
(* with a range; register numbers and immediates are words, too.  A 16-bit *)
(* instruction is first expanded into a 32-bit one, which scatters its     *)
(* immediate, and decode32 gathers it again.                               *)
(***************************************************************************)
EXTENDS Integers, Sequences

Bits == 0 .. 31
Word(k)   == {b \in 0 .. 11 : (k \div 2^b) % 2 = 1}
Shl(w, n) == {b + n : b \in w} \cap Bits
Shr(w, n) == {b - n : b \in {x \in w : x >= n}}
\* >> on int32_t
Asr(w, n) == Shr(w, n) \cup (IF 31 \in w THEN 32 - n .. 31 ELSE {})
\* if (w & (1 << s)) w |= ~((1 << (s + 1)) - 1)
Sext(w, s) == IF s \in w THEN w \cup (s + 1 .. 31) ELSE w
-----------------------------------------------------------------------------
(* rv32_defs.h *)

OP_LUI    == Word(\b0110111)
OP_AUIPC  == Word(\b0010111)
OP_JAL    == Word(\b1101111)
OP_JALR   == Word(\b1100111)
OP_BRANCH == Word(\b1100011)
OP_LOAD   == Word(\b0000011)
OP_STORE  == Word(\b0100011)
OP_IMM    == Word(\b0010011)
OP_REG    == Word(\b0110011)
OP_FENCE  == Word(\b0001111)
OP_SYSTEM == Word(\b1110011)
OP_AMO    == Word(\b0101111)

F7_NORMAL == {}
F7_ALT    == {5}
F7_MULDIV == {0}
F7_SFENCE_VMA == {0, 3}

opcode(w)  == w \cap 0 .. 6
rd(w)      == Shr(w, 7) \cap 0 .. 4
funct3(w)  == Shr(w, 12) \cap 0 .. 2
rs1(w)     == Shr(w, 15) \cap 0 .. 4
rs2(w)     == Shr(w, 20) \cap 0 .. 4
funct7(w)  == Shr(w, 25)
funct5(w)  == Shr(w, 27)
funct12(w) == Shr(w, 20)

imm_i(w) == Asr(w, 20)
imm_s(w) == Asr(w \cap 25 .. 31, 20) \cup (Shr(w, 7) \cap 0 .. 4)

\* Mutant of imm_b: bit 11 is taken from where the S format has it.
imm_b_AsS(w) == Asr(w \cap {31}, 19) \cup (Shr(w, 20) \cap 5 .. 11) \cup (Shr(w, 7) \cap 1 .. 4)

\* Mutant of imm_b: bits 11 and 12 are exchanged.
imm_b_Exchanged(w) == Asr(Shl(w \cap {7}, 24), 19) \cup Shr(w \cap {31}, 20)
                      \cup (Shr(w, 20) \cap 5 .. 10) \cup (Shr(w, 7) \cap 1 .. 4)

imm_b(w) == Asr(w \cap {31}, 19) \cup Shl(w \cap {7}, 4)
            \cup (Shr(w, 20) \cap 5 .. 10) \cup (Shr(w, 7) \cap 1 .. 4)
imm_u(w) == w \cap 12 .. 31
imm_j(w) == Asr(w \cap {31}, 11) \cup (w \cap 12 .. 19)
            \cup (Shr(w, 9) \cap {11}) \cup (Shr(w, 20) \cap 1 .. 10)
-----------------------------------------------------------------------------
(* decode32(): the switch on the opcode, and the inner ones as tables of    *)
(* <<code, type>>; a code that has no row is ILLEGAL.                       *)

Table(rows) == {<<Word(r[1]), r[2]>> : r \in rows}
Pick(table, code) ==
    IF \E t \in table : t[1] = code THEN (CHOOSE t \in table : t[1] = code)[2] ELSE "ILLEGAL"

BranchTypes == Table({<<0, "BEQ">>, <<1, "BNE">>, <<4, "BLT">>, <<5, "BGE">>,
                      <<6, "BLTU">>, <<7, "BGEU">>})
LoadTypes   == Table({<<0, "LB">>, <<1, "LH">>, <<2, "LW">>, <<4, "LBU">>, <<5, "LHU">>})
StoreTypes  == Table({<<0, "SB">>, <<1, "SH">>, <<2, "SW">>})
ImmTypes    == Table({<<0, "ADDI">>, <<2, "SLTI">>, <<3, "SLTIU">>, <<4, "XORI">>,
                      <<6, "ORI">>, <<7, "ANDI">>})
MulDivTypes == Table({<<0, "MUL">>, <<1, "MULH">>, <<2, "MULHSU">>, <<3, "MULHU">>,
                      <<4, "DIV">>, <<5, "DIVU">>, <<6, "REM">>, <<7, "REMU">>})
RegTypes    == Table({<<0, "ADD">>, <<1, "SLL">>, <<2, "SLT">>, <<3, "SLTU">>, <<4, "XOR">>,
                      <<5, "SRL">>, <<6, "OR">>, <<7, "AND">>})
AltTypes    == Table({<<0, "SUB">>, <<5, "SRA">>})
AmoTypes    == Table({<<\b00010, "LR_W">>, <<\b00011, "SC_W">>, <<\b00001, "AMOSWAP_W">>,
                      <<\b00000, "AMOADD_W">>, <<\b00100, "AMOXOR_W">>, <<\b01100, "AMOAND_W">>,
                      <<\b01000, "AMOOR_W">>, <<\b10000, "AMOMIN_W">>, <<\b10100, "AMOMAX_W">>,
                      <<\b11000, "AMOMINU_W">>, <<\b11100, "AMOMAXU_W">>})
PrivTypes   == Table({<<\h000, "ECALL">>, <<\h001, "EBREAK">>, <<\h302, "MRET">>,
                      <<\h102, "SRET">>, <<\h002, "URET">>, <<\h105, "WFI">>})
CsrTypes    == Table({<<1, "CSRRW">>, <<2, "CSRRS">>, <<3, "CSRRC">>, <<5, "CSRRWI">>,
                      <<6, "CSRRSI">>, <<7, "CSRRCI">>})

\* A DecodedInstr as it is constructed; compressed is set by decode.
Blank == [type |-> "ILLEGAL", rd |-> {}, rs1 |-> {}, rs2 |-> {}, imm |-> {}, csr |-> {},
          compressed |-> FALSE]

\* The operands that the formats fill in.
DestImm(w, type, imm) == [Blank EXCEPT !.type = type, !.rd = rd(w), !.imm = imm]
FormatI(w, type, imm) == [DestImm(w, type, imm) EXCEPT !.rs1 = rs1(w)]
FormatSB(w, type, imm) ==
    [Blank EXCEPT !.type = type, !.rs1 = rs1(w), !.rs2 = rs2(w), !.imm = imm]
FormatR(w, type) ==
    [Blank EXCEPT !.type = type, !.rd = rd(w), !.rs1 = rs1(w), !.rs2 = rs2(w)]

\* OP_IMM: the immediate of a shift is its 5-bit shamt, and bits above it select
\* the shift or are illegal.
DecodeShift(w) ==
    FormatI(w, CASE funct3(w) = {0} /\ funct7(w) = F7_NORMAL    -> "SLLI"
                 [] funct3(w) = {0, 2} /\ funct7(w) = F7_NORMAL -> "SRLI"
                 [] funct3(w) = {0, 2} /\ funct7(w) = F7_ALT    -> "SRAI"
                 [] OTHER -> "ILLEGAL",
            rs2(w))

DecodeImm(w) ==
    IF funct3(w) \in {{0}, {0, 2}} THEN DecodeShift(w)
    ELSE FormatI(w, Pick(ImmTypes, funct3(w)), imm_i(w))

DecodeReg(w) ==
    FormatR(w, CASE funct7(w) = F7_MULDIV -> Pick(MulDivTypes, funct3(w))
                 [] funct7(w) = F7_NORMAL -> Pick(RegTypes, funct3(w))
                 [] funct7(w) = F7_ALT    -> Pick(AltTypes, funct3(w))
                 [] OTHER -> "ILLEGAL")

DecodeAmo(w) ==
    FormatR(w, IF funct3(w) # {1} THEN "ILLEGAL" ELSE Pick(AmoTypes, funct5(w)))

DecodeSystem(w) ==
    CASE funct3(w) # {} ->
            [FormatI(w, Pick(CsrTypes, funct3(w)), rs1(w)) EXCEPT !.csr = funct12(w)]
      [] funct3(w) = {} /\ funct7(w) = F7_SFENCE_VMA ->
            [Blank EXCEPT !.type = "SFENCE_VMA", !.rs1 = rs1(w), !.rs2 = rs2(w)]
      [] OTHER -> [Blank EXCEPT !.type = Pick(PrivTypes, funct12(w))]

decode32(w) ==
    LET op == opcode(w) IN
    CASE op = OP_LUI    -> DestImm(w, "LUI", imm_u(w))
      [] op = OP_AUIPC  -> DestImm(w, "AUIPC", imm_u(w))
      [] op = OP_JAL    -> DestImm(w, "JAL", imm_j(w))
      [] op = OP_JALR   -> FormatI(w, "JALR", imm_i(w))
      [] op = OP_BRANCH -> FormatSB(w, Pick(BranchTypes, funct3(w)), imm_b(w))
      [] op = OP_LOAD   -> FormatI(w, Pick(LoadTypes, funct3(w)), imm_i(w))
      [] op = OP_STORE  -> FormatSB(w, Pick(StoreTypes, funct3(w)), imm_s(w))
      [] op = OP_IMM    -> DecodeImm(w)
      [] op = OP_REG    -> DecodeReg(w)
      [] op = OP_AMO    -> DecodeAmo(w)
      [] op = OP_FENCE  -> [Blank EXCEPT !.type = IF funct3(w) = {0} THEN "FENCEI" ELSE "FENCE"]
      [] op = OP_SYSTEM -> DecodeSystem(w)
      [] OTHER -> Blank
-----------------------------------------------------------------------------
(* expand_compressed(): the 32-bit word of a 16-bit one, {} (the number 0)  *)
(* where it has none.                                                       *)

\* The 32-bit word with these fields.
Fields(hi, mid, r1, f3, lo, op) ==
    Shl(hi, 25) \cup Shl(mid, 20) \cup Shl(r1, 15) \cup Shl(Word(f3), 12) \cup Shl(lo, 7) \cup op

ImmWord(imm, r1, f3, r, op) == Fields({}, imm, r1, f3, r, op)
RegWord(f7, r2, r1, f3, r)  == Fields(f7, r2, r1, f3, r, OP_REG)
\* imm_s_hi and imm_s_lo; imm_hi and imm_lo; imm20
StoreWord(off, r2, r1) == Fields(Shr(off, 5) \cap 0 .. 6, r2, r1, 2, off \cap 0 .. 4, OP_STORE)
BranchWord(off, r1, f3) ==
    Fields(Shl(Shr(off, 12) \cap {0}, 6) \cup (Shr(off, 5) \cap 0 .. 5), {}, r1, f3,
           Shl(Shr(off, 1) \cap 0 .. 3, 1) \cup (Shr(off, 11) \cap {0}), OP_BRANCH)
JalWord(off, r) ==
    Shl(Shr(off, 20) \cap {0}, 31) \cup Shl(Shr(off, 1) \cap 0 .. 9, 21)
    \cup Shl(Shr(off, 11) \cap {0}, 20) \cup Shl(Shr(off, 12) \cap 0 .. 7, 12)
    \cup Shl(r, 7) \cup OP_JAL

creg(bits) == bits \cup {3}
Full(ci, at)  == Shr(ci, at) \cap 0 .. 4
Prime(ci, at) == creg(Shr(ci, at) \cap 0 .. 2)

\* The immediates as the code puts them together.
Imm6(ci) == (Shr(ci, 7) \cap {5}) \cup (Shr(ci, 2) \cap 0 .. 4)
OffLw(ci) == (Shr(ci, 7) \cap 3 .. 5) \cup (Shr(ci, 4) \cap {2}) \cup (Shl(ci, 1) \cap {6})

\* Mutant of OffJ: bits 7 and 6 of the offset are exchanged.
OffJ_Swapped(ci) ==
    Sext((Shr(ci, 1) \cap {11}) \cup (Shr(ci, 7) \cap {4}) \cup (Shr(ci, 1) \cap 8 .. 9)
         \cup (Shl(ci, 2) \cap {10}) \cup (ci \cap {7}) \cup (ci \cap {6})
         \cup (Shr(ci, 2) \cap 1 .. 3) \cup (Shl(ci, 3) \cap {5}), 11)

OffJ(ci) ==
    Sext((Shr(ci, 1) \cap {11}) \cup (Shr(ci, 7) \cap {4}) \cup (Shr(ci, 1) \cap 8 .. 9)
         \cup (Shl(ci, 2) \cap {10}) \cup (Shr(ci, 1) \cap {6}) \cup (Shl(ci, 1) \cap {7})
         \cup (Shr(ci, 2) \cap 1 .. 3) \cup (Shl(ci, 3) \cap {5}), 11)
OffB(ci) ==
    Sext((Shr(ci, 4) \cap {8}) \cup (Shr(ci, 7) \cap 3 .. 4) \cup (Shl(ci, 1) \cap 6 .. 7)
         \cup (Shr(ci, 2) \cap 1 .. 2) \cup (Shl(ci, 3) \cap {5}), 8)

Quadrant0(ci, f3) ==
    CASE f3 = {} ->
            LET nzuimm == (Shr(ci, 1) \cap 6 .. 9) \cup (Shr(ci, 7) \cap 4 .. 5)
                          \cup (Shr(ci, 2) \cap {3}) \cup (Shr(ci, 4) \cap {2})
            IN IF nzuimm = {} THEN {} ELSE ImmWord(nzuimm, {1}, 0, Prime(ci, 2), OP_IMM)
      [] f3 = {1}    -> ImmWord(OffLw(ci), Prime(ci, 7), 2, Prime(ci, 2), OP_LOAD)
      [] f3 = {1, 2} -> StoreWord(OffLw(ci), Prime(ci, 2), Prime(ci, 7))
      [] OTHER -> {}

\* C.LUI, and C.ADDI16SP where the register is x2.
LuiOrAddi16sp(ci) ==
    LET r  == Full(ci, 7)
        sp == Sext((Shr(ci, 3) \cap {9}) \cup (Shr(ci, 2) \cap {4}) \cup (Shl(ci, 1) \cap {6})
                   \cup (Shl(ci, 4) \cap 7 .. 8) \cup (Shl(ci, 3) \cap {5}), 9)
        up == Sext(Imm6(ci), 5)
    IN CASE r = {1} -> IF sp = {} THEN {} ELSE ImmWord(sp, {1}, 0, {1}, OP_IMM)
         [] OTHER   -> IF up = {} THEN {} ELSE Shl(up, 12) \cup Shl(r, 7) \cup OP_LUI

\* The ALU group: bits 11:10 select, then bits 6:5; with bit 12 set there is none.
CompressedAlu(ci) ==
    LET r    == Prime(ci, 7)
        r2   == Prime(ci, 2)
        sub  == Shr(ci, 10) \cap 0 .. 1
        sub2 == Shr(ci, 5) \cap 0 .. 1
    IN CASE sub = {}  -> Fields(F7_NORMAL, Imm6(ci), r, 5, r, OP_IMM)
         [] sub = {0} -> Fields(F7_ALT, Imm6(ci), r, 5, r, OP_IMM)
         [] sub = {1} -> ImmWord(Sext(Imm6(ci), 5), r, 7, r, OP_IMM)
         [] sub = {0, 1} /\ 12 \in ci -> {}
         [] OTHER -> CASE sub2 = {}  -> RegWord(F7_ALT, r2, r, 0, r)
                       [] sub2 = {0} -> RegWord(F7_NORMAL, r2, r, 4, r)
                       [] sub2 = {1} -> RegWord(F7_NORMAL, r2, r, 6, r)
                       [] OTHER      -> RegWord(F7_NORMAL, r2, r, 7, r)

Quadrant1(ci, f3) ==
    CASE f3 = {}        -> ImmWord(Sext(Imm6(ci), 5), Full(ci, 7), 0, Full(ci, 7), OP_IMM)
      [] f3 = {0}       -> JalWord(OffJ(ci), {0})
      [] f3 = {1}       -> ImmWord(Sext(Imm6(ci), 5), {}, 0, Full(ci, 7), OP_IMM)
      [] f3 = {0, 1}    -> LuiOrAddi16sp(ci)
      [] f3 = {2}       -> CompressedAlu(ci)
      [] f3 = {0, 2}    -> JalWord(OffJ(ci), {})
      [] f3 = {1, 2}    -> BranchWord(OffB(ci), Prime(ci, 7), 0)
      [] f3 = {0, 1, 2} -> BranchWord(OffB(ci), Prime(ci, 7), 1)

\* C.JR, C.MV, C.EBREAK, C.JALR and C.ADD.
JumpOrMove(ci) ==
    LET r1 == Full(ci, 7)
        r2 == Full(ci, 2)
        hi == 12 \in ci
    IN CASE r2 # {}  -> RegWord(F7_NORMAL, r2, IF hi THEN r1 ELSE {}, 0, r1)
         [] r2 = {} /\ r1 # {} -> ImmWord({}, r1, 0, IF hi THEN {0} ELSE {}, OP_JALR)
         [] OTHER -> IF hi THEN ImmWord({0}, {}, 0, {}, OP_SYSTEM) ELSE {}

Quadrant2(ci, f3) ==
    LET offLwsp == (Shr(ci, 7) \cap {5}) \cup (Shr(ci, 2) \cap 2 .. 4) \cup (Shl(ci, 4) \cap 6 .. 7)
        offSwsp == (Shr(ci, 7) \cap 2 .. 5) \cup (Shr(ci, 1) \cap 6 .. 7)
    IN CASE f3 = {} -> Fields(F7_NORMAL, Imm6(ci), Full(ci, 7), 1, Full(ci, 7), OP_IMM)
         [] f3 = {1} -> IF Full(ci, 7) = {} THEN {}
                        ELSE ImmWord(offLwsp, {1}, 2, Full(ci, 7), OP_LOAD)
         [] f3 = {2}    -> JumpOrMove(ci)
         [] f3 = {1, 2} -> StoreWord(offSwsp, Full(ci, 2), {1})
         [] OTHER -> {}

expand_compressed(ci) ==
    LET f3 == Shr(ci, 13) \cap 0 .. 2 IN
    CASE ci \cap 0 .. 1 = {}  -> Quadrant0(ci, f3)
      [] ci \cap 0 .. 1 = {0} -> Quadrant1(ci, f3)
      [] ci \cap 0 .. 1 = {1} -> Quadrant2(ci, f3)

\* decode(): a word whose two low bits are not 11 is its low half only.
decode(w) ==
    IF {0, 1} \subseteq w THEN decode32(w)
    ELSE LET expanded == expand_compressed(w \cap 0 .. 15)
         IN [(IF expanded = {} THEN Blank ELSE decode32(expanded)) EXCEPT !.compressed = TRUE]
=============================================================================
