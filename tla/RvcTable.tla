------------------------------ MODULE RvcTable ------------------------------
(***************************************************************************)
(* What every 16-bit instruction of RV32C means, written from the tables   *)
(* of the instruction set manual and independently of the decoder: the     *)
(* manual's list of the immediate's bits, read from the left, is the       *)
(* sequence that At takes.  It is the reference that Isa.RvcMeaning holds  *)
(* the decoder of module Decode against.  Words are sets of bit numbers.   *)
(***************************************************************************)
EXTENDS Integers, Sequences

\* Bits top, top - 1, ... of ci are the bits order[1], order[2], ... of the immediate.
At(ci, top, order) == {order[i] : i \in {j \in DOMAIN order : top - j + 1 \in ci}}
Signed(w, s) == w \cup (IF s \in w THEN s .. 31 ELSE {})

Slice(ci, hi, lo) == {b - lo : b \in ci \cap lo .. hi}
\* The registers x8 to x15 of the three-bit fields.
Popular(ci, lo) == {3} \cup Slice(ci, lo + 2, lo)

sp == {1}
ra == {0}
zero == {}

Op(type, dest, src1, src2, imm) ==
    [type |-> type, rd |-> dest, rs1 |-> src1, rs2 |-> src2, imm |-> imm]

\* The formats' immediates.
ImmCI(ci)  == At(ci, 12, <<5>>) \cup At(ci, 6, <<4, 3, 2, 1, 0>>)
ImmCIW(ci) == At(ci, 12, <<5, 4, 9, 8, 7, 6, 2, 3>>)
ImmCL(ci)  == At(ci, 12, <<5, 4, 3>>) \cup At(ci, 6, <<2, 6>>)
ImmCJ(ci)  == Signed(At(ci, 12, <<11, 4, 9, 8, 10, 6, 7, 3, 2, 1, 5>>), 11)
ImmCB(ci)  == Signed(At(ci, 12, <<8, 4, 3>>) \cup At(ci, 6, <<7, 6, 2, 1, 5>>), 8)
Imm16sp(ci) == Signed(At(ci, 12, <<9>>) \cup At(ci, 6, <<4, 6, 8, 7, 5>>), 9)
ImmLui(ci)  == Signed(At(ci, 12, <<17>>) \cup At(ci, 6, <<16, 15, 14, 13, 12>>), 17)
ImmLwsp(ci) == At(ci, 12, <<5>>) \cup At(ci, 6, <<4, 3, 2, 7, 6>>)
ImmSwsp(ci) == At(ci, 12, <<5, 4, 3, 2, 7, 6>>)

\* Encodings that the manual reserves, or that belong to another extension.
Reserved(ci) ==
    LET f3 == Slice(ci, 15, 13)
        r  == Slice(ci, 11, 7)
        q  == ci \cap 0 .. 1
    IN \/ q = {} /\ f3 \notin {{}, {1}, {1, 2}}
       \/ q = {} /\ f3 = {} /\ ImmCIW(ci) = {}
       \/ q = {0} /\ f3 = {0, 1} /\ ImmCI(ci) = {}
       \/ q = {0} /\ f3 = {2} /\ 11 \notin ci /\ 12 \in ci
       \/ q = {0} /\ f3 = {2} /\ {10, 11, 12} \subseteq ci
       \/ q = {1} /\ f3 \notin {{}, {1}, {2}, {1, 2}}
       \/ q = {1} /\ f3 = {} /\ 12 \in ci
       \/ q = {1} /\ f3 = {1} /\ r = zero
       \/ q = {1} /\ f3 = {2} /\ ci \cap 2 .. 12 = {}

Load0(ci, f3) ==
    LET base == Popular(ci, 7)
        data == Popular(ci, 2)
    IN CASE f3 = {}  -> Op("ADDI", data, sp, zero, ImmCIW(ci))
         [] f3 = {1} -> Op("LW", data, base, zero, ImmCL(ci))
         [] OTHER    -> Op("SW", zero, base, data, ImmCL(ci))

Arith1(ci) ==
    LET r == Popular(ci, 7)
        Two(type) == Op(type, r, r, Popular(ci, 2), {})
        One(type, imm) == Op(type, r, r, zero, imm)
    IN CASE Slice(ci, 11, 10) = {}  -> One("SRLI", ImmCI(ci))
         [] Slice(ci, 11, 10) = {0} -> One("SRAI", ImmCI(ci))
         [] Slice(ci, 11, 10) = {1} -> One("ANDI", Signed(ImmCI(ci), 5))
         [] OTHER -> CASE Slice(ci, 6, 5) = {}  -> Two("SUB")
                       [] Slice(ci, 6, 5) = {0} -> Two("XOR")
                       [] Slice(ci, 6, 5) = {1} -> Two("OR")
                       [] OTHER                 -> Two("AND")

Control1(ci, f3) ==
    LET r == Slice(ci, 11, 7) IN
    CASE f3 = {}     -> Op("ADDI", r, r, zero, Signed(ImmCI(ci), 5))
      [] f3 = {0}    -> Op("JAL", ra, zero, zero, ImmCJ(ci))
      [] f3 = {1}    -> Op("ADDI", r, zero, zero, Signed(ImmCI(ci), 5))
      [] f3 = {0, 1} -> IF r = sp THEN Op("ADDI", sp, sp, zero, Imm16sp(ci))
                                  ELSE Op("LUI", r, zero, zero, ImmLui(ci))
      [] f3 = {2}    -> Arith1(ci)
      [] f3 = {0, 2} -> Op("JAL", zero, zero, zero, ImmCJ(ci))
      [] f3 = {1, 2} -> Op("BEQ", zero, Popular(ci, 7), zero, ImmCB(ci))
      [] OTHER       -> Op("BNE", zero, Popular(ci, 7), zero, ImmCB(ci))

Stack2(ci, f3) ==
    LET r == Slice(ci, 11, 7)
        s == Slice(ci, 6, 2)
    IN CASE f3 = {}     -> Op("SLLI", r, r, zero, ImmCI(ci))
         [] f3 = {1}    -> Op("LW", r, sp, zero, ImmLwsp(ci))
         [] f3 = {1, 2} -> Op("SW", zero, sp, s, ImmSwsp(ci))
         [] f3 = {2} /\ s # zero -> Op("ADD", r, IF 12 \in ci THEN r ELSE zero, s, {})
         [] f3 = {2} /\ s = zero /\ r # zero ->
                Op("JALR", IF 12 \in ci THEN ra ELSE zero, r, zero, {})
         [] OTHER -> Op("EBREAK", zero, zero, zero, {})

Rvc(ci) ==
    LET f3 == Slice(ci, 15, 13) IN
    CASE ci \cap 0 .. 1 = {}  -> Load0(ci, f3)
      [] ci \cap 0 .. 1 = {0} -> Control1(ci, f3)
      [] ci \cap 0 .. 1 = {1} -> Stack2(ci, f3)
=============================================================================
