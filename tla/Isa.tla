-------------------------------- MODULE Isa --------------------------------
(***************************************************************************)
(* One turn of the ISS from the fetched word to the result: decode() of    *)
(* the word, and execute() for the instructions of the M extension.  The   *)
(* words are every 16-bit instruction and a sample of the 32-bit ones: for *)
(* every opcode and funct3 all words with at most two more bits (bit 0 is  *)
(* set in all of them), and the words of Samples.                          *)
(***************************************************************************)
EXTENDS Decode, Rv32m, RvcTable

CONSTANT Samples        \* Further 32-bit words
ASSUME SamplesAssumption == \A w \in Samples : w \in SUBSET Bits /\ {0, 1} \subseteq w

VARIABLES fetched,      \* Whether the turn has its word, or the last one is over
          raw,          \* The fetched word
          d,            \* The DecodedInstr
          result        \* <<rs1, rs2, the value put into rd>> of an M instruction

vars == <<fetched, raw, d, result>>

Opcodes == {OP_LUI, OP_AUIPC, OP_JAL, OP_JALR, OP_BRANCH, OP_LOAD, OP_STORE, OP_IMM, OP_REG,
            OP_FENCE, OP_SYSTEM, OP_AMO}
F3Words    == SUBSET (12 .. 14)
OtherBits == {0} \cup (7 .. 11) \cup (15 .. 31)
LongWords ==
    {op \cup f3 \cup {b1, b2} : op \in Opcodes, f3 \in F3Words, b1, b2 \in OtherBits} \cup Samples
ShortWords == {w \in SUBSET (0 .. 15) : ~({0, 1} \subseteq w)}

None == <<>>

Init ==
    /\ fetched = FALSE /\ raw = {}
    /\ d = Blank
    /\ result = None

\* run() fetches a word and decodes it; a word means the same after every other,
\* so that the turns need not follow each other in every order.
Fetch ==
    /\ ~fetched /\ fetched' = TRUE
    /\ \E w \in ShortWords \cup LongWords :
            /\ raw' = w
            /\ d' = decode(w)
    /\ UNCHANGED result

\* The M cases of execute().
Value(type, a, b) ==
    CASE type = "MUL"    -> mul(a, b)
      [] type = "MULH"   -> mulh(a, b)
      [] type = "MULHSU" -> mulhsu(a, b)
      [] type = "MULHU"  -> mulhu(a, b)
      [] type = "DIV"    -> div(a, b)
      [] type = "DIVU"   -> divu(a, b)
      [] type = "REM"    -> rem(a, b)
      [] type = "REMU"   -> remu(a, b)

Execute ==
    /\ d.type \in {t[2] : t \in MulDivTypes}
    /\ result = None
    /\ \E a, b \in Regs : result' = <<a, b, Value(d.type, a, b)>>
    /\ UNCHANGED <<fetched, raw, d>>

EndTurn ==
    /\ fetched /\ fetched' = FALSE
    /\ raw' = {} /\ d' = Blank /\ result' = None

Next == Fetch \/ Execute \/ EndTurn

Spec == Init /\ [][Next]_vars
-----------------------------------------------------------------------------
\* What decode() returns for a 16-bit word, after the immediate has been scattered
\* into a 32-bit one and gathered again, is what the manual's tables say of it:
\* the same instruction, registers and immediate, with length 2, and the reserved
\* encodings, the word of zeros among them, illegal.
RvcMeaning ==
    fetched /\ ~({0, 1} \subseteq raw) =>
        /\ d.compressed
        /\ IF Reserved(raw) THEN d.type = "ILLEGAL"
           ELSE Op(d.type, d.rd, d.rs1, d.rs2, d.imm) = Rvc(raw)

\* The bits that an instruction leaves unused: funct3 of JALR, all of the fences,
\* aq and rl of the atomics, the register fields of the system instructions.
Unused(type) ==
    CASE type = "JALR" -> 12 .. 14
      [] type \in {"FENCE", "FENCEI"} -> 7 .. 31
      [] type \in {t[2] : t \in AmoTypes} -> {25, 26}
      [] type \in {t[2] : t \in PrivTypes} -> (7 .. 11) \cup (15 .. 19)
      [] type = "SFENCE_VMA" -> 7 .. 11
      [] OTHER -> {}
Flip(w, b) == (w \ {b}) \cup ({b} \ w)

\* No bit of a legal 32-bit word is lost in decode(): a word that differs in one
\* bit is another instruction, has another operand or is illegal, except in the
\* bits that the instruction does not use.  So no two bits of a scattered immediate
\* are taken from the same place and none is dropped.
EveryBitCounts ==
    {0, 1} \subseteq raw /\ d.type # "ILLEGAL" =>
        \A b \in 2 .. 31 \ Unused(d.type) : decode(Flip(raw, b)) # d

\* The manual's encodings: <<b, hi, lo>> for each piece of the immediate, bits hi .. lo
\* of it being in the word from bit b downwards; the piece at bit 31 has the sign.
Encoding(type) ==
    CASE type \in {"LUI", "AUIPC"} -> {<<31, 31, 12>>}
      [] type = "JAL" -> {<<31, 20, 20>>, <<30, 10, 1>>, <<20, 11, 11>>, <<19, 19, 12>>}
      [] type \in {t[2] : t \in BranchTypes} ->
             {<<31, 12, 12>>, <<30, 10, 5>>, <<11, 4, 1>>, <<7, 11, 11>>}
      [] type \in {t[2] : t \in StoreTypes} -> {<<31, 11, 5>>, <<11, 4, 0>>}
      [] type \in {t[2] : t \in LoadTypes \cup ImmTypes} \cup {"JALR"} -> {<<31, 11, 0>>}
      [] type \in {"SLLI", "SRLI", "SRAI"} -> {<<24, 4, 0>>}
      [] type \in {t[2] : t \in CsrTypes} -> {<<19, 4, 0>>}
      [] OTHER -> {}
Gathered(pieces, w) ==
    {i \in Bits : \E p \in pieces :
        \/ i \in p[3] .. p[2] /\ p[1] - p[2] + i \in w
        \/ p[1] = 31 /\ i > p[2] /\ 31 \in w}

\* Every bit of the immediate of a legal 32-bit word is the bit of the word that the
\* manual puts it in, sign-extended: no two of them are exchanged, and an instruction
\* without immediate has 0.
ImmediateInPlace ==
    {0, 1} \subseteq raw /\ d.type # "ILLEGAL" => d.imm = Gathered(Encoding(d.type), raw)

\* The M instructions are exact for every pair of operands, zero divisors and the
\* overflowing quotient included, and never reach the division that the host does
\* not define: the high products are the upper half of the double-width product
\* in the signedness that their name says, quotient and remainder satisfy
\* rs1 = q * rs2 + r with r smaller than rs2 and of the sign of rs1.
MulDivExact ==
    result # None =>
        LET a == result[1]
            b == result[2]
            v == result[3]
            UpperHalf(product, h) == product - h * Size \in Regs
            Divides(x, y, q, r) == x = q * y + r /\ AbsVal(r) < AbsVal(y) /\ r * x >= 0
        IN /\ v \in Regs
           /\ CASE d.type = "MUL"    -> (a * b - v) % Size = 0
                [] d.type = "MULH"   -> UpperHalf(SInt(a) * SInt(b), SInt(v))
                [] d.type = "MULHSU" -> UpperHalf(SInt(a) * b, SInt(v))
                [] d.type = "MULHU"  -> UpperHalf(a * b, v)
                [] d.type = "DIV" ->
                       IF b = 0 THEN SInt(v) = -1
                       ELSE IF SInt(a) = MIN /\ SInt(b) = -1 THEN SInt(v) = MIN
                       ELSE \E r \in Regs : Divides(SInt(a), SInt(b), SInt(v), SInt(r))
                [] d.type = "DIVU" ->
                       IF b = 0 THEN v = Size - 1 ELSE \E r \in Regs : Divides(a, b, v, r)
                [] d.type = "REM" ->
                       IF b = 0 THEN v = a
                       ELSE \E q \in -Size .. Size : Divides(SInt(a), SInt(b), q, SInt(v))
                [] d.type = "REMU" ->
                       IF b = 0 THEN v = a ELSE \E q \in Regs : Divides(a, b, q, v)
=============================================================================
