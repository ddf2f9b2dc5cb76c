-------------------------------- MODULE Hart --------------------------------
(***************************************************************************)
(* The privileged architecture of the ISS: interrupt selection and trap    *)
(* entry (src/src/cpu/trap.cpp), the CSR file (csr.{h,cpp}), and the        *)
(* system instructions of execute.cpp.  One step is one turn of the loop   *)
(* of ISS::run: take the selected interrupt, or else execute one           *)
(* instruction of an arbitrary program, which may raise an exception.      *)
(*                                                                         *)
(* Words of flags are sets: mstatus is the set of its one-bit fields that  *)
(* are set (the two-bit MPP is apart), mie, mideleg and mip are sets of    *)
(* interrupt numbers, medeleg a set of exception codes.  A code address is *)
(* <<base, n>>, the n-th word from base, so that vectored entry            *)
(* (base + 4 * cause) differs from direct entry.  General registers,       *)
(* memory and the CSRs no trap reads (mtval, mscratch, counters, satp ...) *)
(* are left out: an instruction that touches only them is Plain.           *)
(***************************************************************************)
EXTENDS Integers, FiniteSets

CONSTANTS Code,          \* code addresses the program uses
          ResetPC,       \* reset_pc_
          NullPC,        \* address 0, the reset value of the CSRs
          Ints,          \* interrupt numbers the program enables or delegates
          Excs,          \* exception codes the program raises (besides
                         \* ECALL) and delegates
          TvecModes,     \* values the program writes to the MODE field of xtvec
          StatusWrites,  \* bound: the values the program writes to mstatus and
                         \* sstatus, as sets of one-bit fields
          Csrs,          \* the CSRs the program writes
          Lines          \* the levels the platform toggles

PRV_U == 0
PRV_S == 1
PRV_M == 3
Privs == {PRV_U, PRV_S, PRV_M}

StatusBits == {"SIE", "MIE", "SPIE", "MPIE", "SPP",
               "MPRV", "SUM", "MXR", "TVM", "TW", "TSR"}
SSTATUS_MASK == {"SIE", "SPIE", "SPP", "SUM", "MXR"}
S_INT_MASK   == {1, 5, 9}              \* SSI, STI, SEI
AllInts      == {1, 3, 5, 7, 9, 11}
ExcCodes     == 0 .. 15
ILLEGAL_INSTR == 2

\* Minimum privilege, from bits 9:8 of the CSR number.
CsrPriv == [mstatus |-> PRV_M, mie |-> PRV_M, mip |-> PRV_M, mideleg |-> PRV_M,
            medeleg |-> PRV_M, mtvec |-> PRV_M, mepc |-> PRV_M, mcause |-> PRV_M,
            sstatus |-> PRV_S, sie |-> PRV_S, sip |-> PRV_S, stvec |-> PRV_S,
            sepc |-> PRV_S, scause |-> PRV_S]

ASSUME HartAssumption ==
    /\ ResetPC \in Code /\ NullPC \in Code
    /\ Ints \subseteq AllInts /\ Excs \subseteq ExcCodes
    /\ TvecModes \subseteq 0 .. 3
    /\ StatusWrites \subseteq SUBSET StatusBits
    /\ Csrs \subseteq DOMAIN CsrPriv
    /\ Lines \subseteq {3, 7, 11}

VARIABLES priv,                    \* current privilege
          pc,
          mstatus, mpp,            \* mstatus: one-bit fields, and MPP
          mie, mideleg, medeleg,
          swmip,                   \* sw_mip: SSIP only
          meip, mtip, msip,        \* hw_mip: the bits the platform drives
          mtvec, stvec,
          mepc, sepc, mcause, scause

statusVars == <<mstatus, mpp>>
delegVars  == <<mie, mideleg, medeleg>>
lineVars   == <<meip, mtip, msip>>
mtrapVars  == <<mtvec, mepc, mcause>>
strapVars  == <<stvec, sepc, scause>>
hartVars   == <<priv, pc, statusVars, delegVars, swmip, lineVars, mtrapVars, strapVars>>

Addr  == Code \X (0 .. 15)
Tvec  == [base : Code, mode : 0 .. 3]
Cause == [int : BOOLEAN, code : 0 .. 15]
-----------------------------------------------------------------------------
(* Interrupt selection and trap entry. *)

\* get_mip(): the software bit and the levels the platform drives.
get_mip == swmip \cup {i \in {11} : meip} \cup {i \in {7} : mtip} \cup {i \in {3} : msip}

\* Position in the fixed order MEI > MSI > MTI > SEI > SSI > STI.
IntRank == [i \in AllInts |->
    CASE i = 11 -> 1 [] i = 3 -> 2 [] i = 7 -> 3 [] i = 9 -> 4 [] i = 1 -> 5 [] i = 5 -> 6]

\* The pending interrupts that the current mode lets through: the ones kept by
\* M below M or with MIE, the delegated ones below S or in S with SIE.
ActiveInts ==
    LET pend == get_mip \cap mie IN
    (IF priv < PRV_M \/ "MIE" \in mstatus THEN pend \ mideleg ELSE {})
    \cup
    (IF priv < PRV_S \/ (priv = PRV_S /\ "SIE" \in mstatus) THEN pend \cap mideleg ELSE {})

\* check_pending_interrupts(): the first in the fixed order, 0 for none.
check_pending_interrupts ==
    IF ActiveInts = {} THEN 0
    ELSE CHOOSE i \in ActiveInts : \A j \in ActiveInts : IntRank[i] <= IntRank[j]

\* Entry address: vectored mode applies to interrupts only.
Entry(tvec, int, code) ==
    IF tvec.mode = 1 /\ int THEN <<tvec.base, code>> ELSE <<tvec.base, 0>>

\* The bits b of mstatus with bit d made a copy of bit b0 and b0 cleared.
StackEnable(bits, en, prev) ==
    ((bits \ {prev}) \cup {p \in {prev} : en \in bits}) \ {en}

\* Mutant of Delegated: the check that the trap comes from S or U is dropped.
Delegated_FromM(int, code) == code \in (IF int THEN mideleg ELSE medeleg)

Delegated(int, code) ==
    priv <= PRV_S /\ code \in (IF int THEN mideleg ELSE medeleg)

\* Mutant of TrapToS: the interrupted enable is stacked in MPIE.
TrapToS_WrongStack(int, code) ==
    /\ sepc' = pc
    /\ scause' = [int |-> int, code |-> code]
    /\ mstatus' = (StackEnable(mstatus, "SIE", "MPIE") \ {"SPP"})
                  \cup {p \in {"SPP"} : priv = PRV_S}
    /\ priv' = PRV_S
    /\ pc' = Entry(stvec, int, code)
    /\ UNCHANGED <<mpp, delegVars, swmip, lineVars, mtrapVars, stvec>>

\* Mutant of TrapToS: interrupts stay enabled in the S-mode handler.
TrapToS_KeepsSie(int, code) ==
    /\ sepc' = pc
    /\ scause' = [int |-> int, code |-> code]
    /\ mstatus' = (mstatus \ {"SPP"}) \cup {p \in {"SPP"} : priv = PRV_S}
    /\ priv' = PRV_S
    /\ pc' = Entry(stvec, int, code)
    /\ UNCHANGED <<mpp, delegVars, swmip, lineVars, mtrapVars, stvec>>

\* take_trap() when the cause is delegated to S mode.
TrapToS(int, code) ==
    /\ sepc' = pc
    /\ scause' = [int |-> int, code |-> code]
    /\ mstatus' = (StackEnable(mstatus, "SIE", "SPIE") \ {"SPP"})
                  \cup {p \in {"SPP"} : priv = PRV_S}
    /\ priv' = PRV_S
    /\ pc' = Entry(stvec, int, code)
    /\ UNCHANGED <<mpp, delegVars, swmip, lineVars, mtrapVars, stvec>>

\* take_trap() into M mode.
TrapToM(int, code) ==
    /\ mepc' = pc
    /\ mcause' = [int |-> int, code |-> code]
    /\ mstatus' = StackEnable(mstatus, "MIE", "MPIE")
    /\ mpp' = priv
    /\ priv' = PRV_M
    /\ pc' = Entry(mtvec, int, code)
    /\ UNCHANGED <<delegVars, swmip, lineVars, mtvec, strapVars>>

take_trap(int, code) ==
    \/ Delegated(int, code) /\ TrapToS(int, code)
    \/ ~Delegated(int, code) /\ TrapToM(int, code)
-----------------------------------------------------------------------------
(* Instructions of the program, one per step, when no interrupt is taken. *)

EcallCause == CASE priv = PRV_U -> 8 [] priv = PRV_S -> 9 [] priv = PRV_M -> 11

\* What may raise a trap at the current pc: the selected interrupt, which goes
\* first, or the instruction.  Any instruction may fault; ILLEGAL_INSTR also
\* stands for an MRET, SRET, SFENCE.VMA or CSR access the current mode is denied.
TrapCause(int, code) ==
    \/ int /\ code = check_pending_interrupts /\ code # 0
    \/ ~int /\ check_pending_interrupts = 0 /\ (code \in Excs \/ code = EcallCause)

\* The program goes anywhere.
Goto == \E a \in Code : pc' = <<a, 0>>

\* set_mip_meip/mtip/msip: the interrupt controllers drive the levels.
DriveLines ==
    /\ meip' \in BOOLEAN /\ (11 \notin Lines => UNCHANGED meip)
    /\ mtip' \in BOOLEAN /\ (7 \notin Lines => UNCHANGED mtip)
    /\ msip' \in BOOLEAN /\ (3 \notin Lines => UNCHANGED msip)

\* An instruction that touches none of the CSRs modelled here.
Ordinary ==
    /\ Goto
    /\ UNCHANGED <<priv, statusVars, delegVars, swmip, mtrapVars, strapVars>>

\* A store to a controller's register may change a level within the instruction.
Plain == Ordinary /\ DriveLines

\* MRET restores the stacked enable and mode, and leaves MPIE set and MPP = U.
Mret ==
    /\ priv = PRV_M
    /\ pc' = mepc
    /\ mstatus' = (mstatus \ {"MIE"}) \cup {e \in {"MIE"} : "MPIE" \in mstatus} \cup {"MPIE"}
    /\ priv' = mpp
    /\ mpp' = PRV_U
    /\ UNCHANGED <<delegVars, swmip, lineVars, mtrapVars, strapVars>>

\* SRET, which mstatus.TSR denies to S mode; M mode may execute it too.
Sret ==
    /\ priv >= PRV_S
    /\ ~("TSR" \in mstatus /\ priv = PRV_S)
    /\ pc' = sepc
    /\ mstatus' = ((mstatus \ {"SIE", "SPP"})
                    \cup {e \in {"SIE"} : "SPIE" \in mstatus}) \cup {"SPIE"}
    /\ priv' = IF "SPP" \in mstatus THEN PRV_S ELSE PRV_U
    /\ UNCHANGED <<mpp, delegVars, swmip, lineVars, mtrapVars, strapVars>>

\* Mutant of CsrOk: every mode may reach every CSR.
CsrOk_Always(csr) == csr \in Csrs

\* priv_ok(): the current mode may reach this CSR.
CsrOk(csr) == csr \in Csrs /\ priv >= CsrPriv[csr]

\* Mutant of LegalMpp: the reserved encoding is stored.
LegalMpp_Unchecked(m) == m

\* The reserved encoding 2 of MPP is stored as U.
LegalMpp(m) == IF m = 2 THEN PRV_U ELSE m

WriteMstatus ==
    /\ CsrOk("mstatus")
    /\ \E bits \in StatusWrites, m \in 0 .. 3 :
          mstatus' = bits /\ mpp' = LegalMpp(m)
    /\ Goto
    /\ UNCHANGED <<priv, delegVars, swmip, lineVars, mtrapVars, strapVars>>

WriteSstatus ==
    /\ CsrOk("sstatus")
    /\ \E bits \in StatusWrites :
          mstatus' = (mstatus \ SSTATUS_MASK) \cup (bits \cap SSTATUS_MASK)
    /\ Goto
    /\ UNCHANGED <<priv, mpp, delegVars, swmip, lineVars, mtrapVars, strapVars>>

\* mie and its S-mode view sie; mideleg and medeleg keep whatever is written.
WriteEnables ==
    /\ \/ CsrOk("mie") /\ mie' \in SUBSET Ints /\ UNCHANGED <<mideleg, medeleg>>
       \/ /\ CsrOk("sie")
          /\ \E val \in SUBSET Ints : mie' = (mie \ S_INT_MASK) \cup (val \cap S_INT_MASK)
          /\ UNCHANGED <<mideleg, medeleg>>
       \/ CsrOk("mideleg") /\ mideleg' \in SUBSET Ints /\ UNCHANGED <<mie, medeleg>>
       \/ CsrOk("medeleg") /\ medeleg' \in SUBSET Excs /\ UNCHANGED <<mie, mideleg>>
    /\ Goto
    /\ UNCHANGED <<priv, statusVars, swmip, lineVars, mtrapVars, strapVars>>

\* A write of mip or sip reaches SSIP only.
WriteSsip ==
    /\ CsrOk("mip") \/ CsrOk("sip")
    /\ swmip' \in SUBSET {1}
    /\ Goto
    /\ UNCHANGED <<priv, statusVars, delegVars, lineVars, mtrapVars, strapVars>>

\* mtvec, mepc and mcause; the low bit of mepc is always 0.
WriteMtrap ==
    /\ \/ CsrOk("mtvec") /\ mtvec' \in [base : Code, mode : TvecModes] /\ UNCHANGED <<mepc, mcause>>
       \/ CsrOk("mepc") /\ mepc' \in Code \X {0} /\ UNCHANGED <<mtvec, mcause>>
       \/ /\ CsrOk("mcause")
          /\ mcause' \in [int : BOOLEAN, code : Excs]
          /\ UNCHANGED <<mtvec, mepc>>
    /\ Goto
    /\ UNCHANGED <<priv, statusVars, delegVars, swmip, lineVars, strapVars>>

WriteStrap ==
    /\ \/ CsrOk("stvec") /\ stvec' \in [base : Code, mode : TvecModes] /\ UNCHANGED <<sepc, scause>>
       \/ CsrOk("sepc") /\ sepc' \in Code \X {0} /\ UNCHANGED <<stvec, scause>>
       \/ /\ CsrOk("scause")
          /\ scause' \in [int : BOOLEAN, code : Excs]
          /\ UNCHANGED <<stvec, sepc>>
    /\ Goto
    /\ UNCHANGED <<priv, statusVars, delegVars, swmip, lineVars, mtrapVars>>

CsrWrite == WriteMstatus \/ WriteSstatus \/ WriteEnables \/ WriteSsip \/ WriteMtrap \/ WriteStrap

Instruction == Plain \/ Mret \/ Sret \/ CsrWrite

\* A device or a tick changes the levels while the ISS has yielded.
SetLines ==
    /\ DriveLines
    /\ UNCHANGED <<priv, pc, statusVars, delegVars, swmip, mtrapVars, strapVars>>
-----------------------------------------------------------------------------
Init ==
    /\ priv = PRV_M
    /\ pc = <<ResetPC, 0>>
    /\ mstatus = {} /\ mpp = PRV_U
    /\ mie = {} /\ mideleg = {} /\ medeleg = {}
    /\ swmip = {}
    /\ meip = FALSE /\ mtip = FALSE /\ msip = FALSE
    /\ mtvec = [base |-> NullPC, mode |-> 0] /\ stvec = [base |-> NullPC, mode |-> 0]
    /\ mepc = <<NullPC, 0>> /\ sepc = <<NullPC, 0>>
    /\ mcause = [int |-> FALSE, code |-> 0] /\ scause = [int |-> FALSE, code |-> 0]

Next ==
    \/ \E int \in BOOLEAN, code \in 0 .. 15 : TrapCause(int, code) /\ take_trap(int, code)
    \/ check_pending_interrupts = 0 /\ Instruction
    \/ SetLines

Spec == Init /\ [][Next]_hartVars
-----------------------------------------------------------------------------
\* The hart is always in a mode it has, and MPP never holds the reserved
\* encoding, so MRET cannot enter a mode that does not exist.
TypeOK ==
    /\ priv \in Privs /\ mpp \in Privs
    /\ pc \in Addr /\ mepc \in Addr /\ sepc \in Addr
    /\ mstatus \in SUBSET StatusBits
    /\ mie \in SUBSET AllInts /\ mideleg \in SUBSET AllInts /\ medeleg \in SUBSET ExcCodes
    /\ swmip \in SUBSET {1}
    /\ meip \in BOOLEAN /\ mtip \in BOOLEAN /\ msip \in BOOLEAN
    /\ mtvec \in Tvec /\ stvec \in Tvec
    /\ mcause \in Cause /\ scause \in Cause

\* What belongs to M mode: S code can neither read it through sstatus, sie and
\* sip nor change it.
MachineView == <<mstatus \ SSTATUS_MASK, mpp, mie \ S_INT_MASK, mideleg, medeleg,
                 mtvec, mepc, mcause>>

\* What belongs to S mode.
SupervisorView == <<mstatus \cap SSTATUS_MASK, mie \cap S_INT_MASK, stvec, sepc, scause>>

\* Privilege separation: no step that starts and ends below M changes anything
\* M mode owns, and no step that starts and ends in U changes anything S or M
\* owns.  The CSR file's masks and checks, delegated traps and SRET all have to
\* respect it.
Isolation ==
    [][/\ priv < PRV_M /\ priv' < PRV_M => UNCHANGED MachineView
       /\ priv = PRV_U /\ priv' = PRV_U => UNCHANGED <<MachineView, SupervisorView>>]_hartVars

\* The mode is raised by trap entry only: the step lands on the handler the
\* higher mode installed and records where it came from.  It is lowered by a
\* return only: a trap taken in M never ends in a lower mode, whatever is
\* delegated.
ModeDiscipline ==
    [][/\ priv' > priv =>
            \/ /\ priv' = PRV_M /\ mpp' = priv /\ mepc' = pc
               /\ pc' = Entry(mtvec, mcause'.int, mcause'.code)
            \/ /\ priv' = PRV_S /\ "SPP" \notin mstatus' /\ sepc' = pc
               /\ pc' = Entry(stvec, scause'.int, scause'.code)
       /\ priv' < priv => UNCHANGED <<mepc, mcause, sepc, scause>>]_hartVars
=============================================================================
