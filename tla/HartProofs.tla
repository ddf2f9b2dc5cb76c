----------------------------- MODULE HartProofs -----------------------------
(***************************************************************************)
(* The privileged architecture for every program: any code, any interrupt  *)
(* and exception sets, any CSR writes.                                     *)
(***************************************************************************)
EXTENDS HartContext, TLAPS

-----------------------------------------------------------------------------
(* Type correctness. *)

\* Entry addresses are code addresses.
LEMMA EntryType ==
    ASSUME NEW tvec \in Tvec, NEW int \in BOOLEAN, NEW code \in 0 .. 15
    PROVE  Entry(tvec, int, code) \in Addr
  BY DEF Entry, Tvec, Addr

\* What the program may write to the trap registers is well typed.
LEMMA WrittenTypes ==
    /\ [base : Code, mode : TvecModes] \subseteq Tvec
    /\ Code \X {0} \subseteq Addr
    /\ [int : BOOLEAN, code : Excs] \subseteq Cause
<1>1. TvecModes \subseteq 0 .. 3 /\ Excs \subseteq 0 .. 15
  BY HartAssumption DEF ExcCodes
<1>2. [base : Code, mode : TvecModes] \subseteq Tvec
  BY <1>1 DEF Tvec
<1>3. Code \X {0} \subseteq Addr
  BY DEF Addr
<1>4. [int : BOOLEAN, code : Excs] \subseteq Cause
  BY <1>1 DEF Cause
<1>5. QED BY <1>2, <1>3, <1>4

\* Trap entry preserves the types.
LEMMA TrapType ==
    ASSUME TypeOK, NEW int \in BOOLEAN, NEW code \in 0 .. 15, take_trap(int, code)
    PROVE  TypeOK'
<1>1. CASE TrapToS(int, code)
  <2>1. mstatus' \subseteq StatusBits
    BY <1>1 DEF TrapToS, StackEnable, TypeOK, StatusBits
  <2>2. pc' \in Addr /\ sepc' \in Addr
    BY <1>1, EntryType DEF TrapToS, TypeOK
  <2>3. scause' \in Cause /\ priv' \in Privs
    BY <1>1 DEF TrapToS, Cause, Privs
  <2>4. QED
    BY <1>1, <2>1, <2>2, <2>3
       DEF TrapToS, TypeOK, delegVars, lineVars, mtrapVars
<1>2. CASE TrapToM(int, code)
  <2>1. mstatus' \subseteq StatusBits
    BY <1>2 DEF TrapToM, StackEnable, TypeOK, StatusBits
  <2>2. pc' \in Addr /\ mepc' \in Addr
    BY <1>2, EntryType DEF TrapToM, TypeOK
  <2>3. mcause' \in Cause /\ priv' \in Privs /\ mpp' \in Privs
    BY <1>2 DEF TrapToM, Cause, Privs, TypeOK
  <2>4. QED
    BY <1>2, <2>1, <2>2, <2>3
       DEF TrapToM, TypeOK, delegVars, lineVars, strapVars
<1>3. QED BY <1>1, <1>2 DEF take_trap

\* Every instruction preserves the types.
LEMMA InstructionType ==
    ASSUME TypeOK, Instruction
    PROVE  TypeOK'
<1> USE DEF statusVars, delegVars, lineVars, mtrapVars, strapVars
<1>0. Goto => pc' \in Addr
  BY DEF Goto, Addr
<1>1. CASE Plain
  BY <1>1, <1>0 DEF Plain, Ordinary, DriveLines, TypeOK
<1>2. CASE Mret
  <2>1. mstatus' \subseteq StatusBits
    BY <1>2 DEF Mret, TypeOK, StatusBits
  <2>2. QED BY <1>2, <2>1 DEF Mret, TypeOK, Privs
<1>3. CASE Sret
  <2>1. mstatus' \subseteq StatusBits
    BY <1>3 DEF Sret, TypeOK, StatusBits
  <2>2. QED BY <1>3, <2>1 DEF Sret, TypeOK, Privs
<1>4. CASE WriteMstatus
  <2>1. mstatus' \subseteq StatusBits /\ mpp' \in Privs
    BY <1>4, HartAssumption DEF WriteMstatus, LegalMpp, Privs, PRV_U, PRV_S, PRV_M
  <2>2. QED BY <1>4, <2>1, <1>0 DEF WriteMstatus, TypeOK
<1>5. CASE WriteSstatus
  <2>1. mstatus' \subseteq StatusBits
    BY <1>5, HartAssumption DEF WriteSstatus, TypeOK
  <2>2. QED BY <1>5, <2>1, <1>0 DEF WriteSstatus, TypeOK
<1>6. CASE WriteEnables
  <2>1. mie' \subseteq AllInts /\ mideleg' \subseteq AllInts /\ medeleg' \subseteq ExcCodes
    BY <1>6, HartAssumption DEF WriteEnables, TypeOK
  <2>2. QED BY <1>6, <2>1, <1>0 DEF WriteEnables, TypeOK
<1>7. CASE WriteSsip
  BY <1>7, <1>0 DEF WriteSsip, TypeOK
<1>8. CASE WriteMtrap
  <2>1. mtvec' \in Tvec /\ mepc' \in Addr /\ mcause' \in Cause
    BY <1>8, WrittenTypes DEF WriteMtrap, TypeOK
  <2>2. QED BY <1>8, <2>1, <1>0 DEF WriteMtrap, TypeOK
<1>9. CASE WriteStrap
  <2>1. stvec' \in Tvec /\ sepc' \in Addr /\ scause' \in Cause
    BY <1>9, WrittenTypes DEF WriteStrap, TypeOK
  <2>2. QED BY <1>9, <2>1, <1>0 DEF WriteStrap, TypeOK
<1>10. QED
  BY <1>1, <1>2, <1>3, <1>4, <1>5, <1>6, <1>7, <1>8, <1>9 DEF Instruction, CsrWrite

\* One step of the hart preserves the types.
LEMMA StepType == TypeOK /\ [Next]_hartVars => TypeOK'
<1> SUFFICES ASSUME TypeOK, [Next]_hartVars PROVE TypeOK'
  OBVIOUS
<1>1. CASE \E int \in BOOLEAN, code \in 0 .. 15 : TrapCause(int, code) /\ take_trap(int, code)
  BY <1>1, TrapType
<1>2. CASE Instruction
  BY <1>2, InstructionType
<1>3. CASE SetLines
  BY <1>3 DEF SetLines, DriveLines, TypeOK, statusVars, delegVars, mtrapVars, strapVars
<1>4. CASE UNCHANGED hartVars
  BY <1>4 DEF hartVars, TypeOK, statusVars, delegVars, lineVars, mtrapVars, strapVars
<1>5. QED BY <1>1, <1>2, <1>3, <1>4 DEF Next

\* The reset state is well typed.
LEMMA InitType == Init => TypeOK
<1>1. <<ResetPC, 0>> \in Addr /\ <<NullPC, 0>> \in Addr
  BY HartAssumption DEF Addr
<1>2. [base |-> NullPC, mode |-> 0] \in Tvec
  BY HartAssumption DEF Tvec
<1>3. [int |-> FALSE, code |-> 0] \in Cause
  BY DEF Cause
<1>4. QED BY <1>1, <1>2, <1>3 DEF Init, TypeOK, Privs

\* Every reachable state of the hart is well typed; in particular the mode and
\* MPP are legal (TypeOK).
THEOREM HartTypeCorrect == Spec => []TypeOK
<1>1. QED BY InitType, StepType, PTL DEF Spec

-----------------------------------------------------------------------------
(* Privilege separation. *)

\* A CSR write below M reaches only S-mode CSRs, and none below S.
LEMMA CsrReach ==
    ASSUME TypeOK
    PROVE  /\ priv < PRV_M => \A c \in {"mstatus", "mie", "mip", "mideleg", "medeleg",
                                        "mtvec", "mepc", "mcause"} : ~CsrOk(c)
           /\ priv < PRV_S => \A c \in {"sstatus", "sie", "sip", "stvec", "sepc",
                                        "scause"} : ~CsrOk(c)
  BY DEF TypeOK, CsrOk, CsrPriv, Privs, PRV_U, PRV_S, PRV_M

\* What an instruction executed below M, or in U, leaves alone.
LEMMA InstructionIsolated ==
    ASSUME TypeOK, Instruction, priv < PRV_M
    PROVE  /\ UNCHANGED MachineView
           /\ priv = PRV_U => UNCHANGED <<MachineView, SupervisorView>>
<1> USE DEF statusVars, delegVars, lineVars, mtrapVars, strapVars, MachineView, SupervisorView
<1>0. priv \in {0, 1} /\ (priv = PRV_U => priv < PRV_S)
  BY DEF TypeOK, Privs, PRV_U, PRV_S, PRV_M
<1>1. CASE Plain
  BY <1>1 DEF Plain, Ordinary
<1>2. CASE Mret
  BY <1>2 DEF Mret, PRV_M
<1>3. CASE Sret
  <2>1. priv # PRV_U
    BY <1>3 DEF Sret, PRV_U, PRV_S
  <2>2. mstatus' \ SSTATUS_MASK = mstatus \ SSTATUS_MASK
    BY <1>3 DEF Sret, SSTATUS_MASK
  <2>3. QED BY <1>3, <2>1, <2>2 DEF Sret
<1>4. CASE WriteMstatus
  BY <1>4, CsrReach DEF WriteMstatus
<1>5. CASE WriteSstatus
  <2>1. priv # PRV_U
    BY <1>0, <1>5, CsrReach DEF WriteSstatus
  <2>2. mstatus' \ SSTATUS_MASK = mstatus \ SSTATUS_MASK
    BY <1>5 DEF WriteSstatus
  <2>3. QED BY <1>5, <2>1, <2>2 DEF WriteSstatus
<1>6. CASE WriteEnables
  <2>1. priv # PRV_U /\ UNCHANGED <<mideleg, medeleg>>
    BY <1>0, <1>6, CsrReach DEF WriteEnables
  <2>2. mie' \ S_INT_MASK = mie \ S_INT_MASK
    BY <1>6, CsrReach DEF WriteEnables
  <2>3. QED BY <1>6, <2>1, <2>2 DEF WriteEnables
<1>7. CASE WriteSsip
  BY <1>7 DEF WriteSsip
<1>8. CASE WriteMtrap
  BY <1>8, CsrReach DEF WriteMtrap
<1>9. CASE WriteStrap
  <2>1. priv # PRV_U
    BY <1>0, <1>9, CsrReach DEF WriteStrap
  <2>2. QED BY <1>9, <2>1 DEF WriteStrap
<1>10. QED
  BY <1>1, <1>2, <1>3, <1>4, <1>5, <1>6, <1>7, <1>8, <1>9 DEF Instruction, CsrWrite

\* A trap into S changes nothing that M mode owns, and it does not end in U.
LEMMA TrapIsolated ==
    ASSUME TypeOK, NEW int, NEW code, take_trap(int, code), priv' < PRV_M
    PROVE  UNCHANGED MachineView /\ priv' # PRV_U
<1>1. TrapToS(int, code)
  BY DEF take_trap, TrapToM, PRV_M
<1>2. mstatus' \ SSTATUS_MASK = mstatus \ SSTATUS_MASK
  BY <1>1 DEF TrapToS, StackEnable, SSTATUS_MASK
<1>3. priv' # PRV_U
  BY <1>1 DEF TrapToS, PRV_S, PRV_U
<1>4. QED BY <1>1, <1>2, <1>3 DEF TrapToS, MachineView, delegVars, mtrapVars

\* No program running below M changes what M owns, and none in U what S or M
\* owns, unless it traps into that mode (Isolation).
THEOREM HartIsolation == Spec => Isolation
<1> DEFINE Iso == /\ priv < PRV_M /\ priv' < PRV_M => UNCHANGED MachineView
                  /\ priv = PRV_U /\ priv' = PRV_U => UNCHANGED <<MachineView, SupervisorView>>
<1>1. TypeOK /\ [Next]_hartVars => [Iso]_hartVars
  <2> SUFFICES ASSUME TypeOK, Next PROVE Iso
    OBVIOUS
  <2>0. (priv = PRV_U => priv < PRV_M) /\ (priv' = PRV_U => priv' < PRV_M)
    BY DEF PRV_U, PRV_M
  <2>1. CASE \E int \in BOOLEAN, code \in 0 .. 15 : TrapCause(int, code) /\ take_trap(int, code)
    BY <2>0, <2>1, TrapIsolated
  <2>2. CASE Instruction
    BY <2>0, <2>2, InstructionIsolated
  <2>3. CASE SetLines
    BY <2>3 DEF SetLines, MachineView, SupervisorView, statusVars, delegVars, mtrapVars, strapVars
  <2>4. QED BY <2>1, <2>2, <2>3 DEF Next
<1>2. QED BY <1>1, HartTypeCorrect, PTL DEF Spec, Isolation

\* The mode rises by trap entry only and falls by a return only (ModeDiscipline).
THEOREM HartModeDiscipline == Spec => ModeDiscipline
<1> DEFINE Disc ==
      /\ priv' > priv =>
            \/ /\ priv' = PRV_M /\ mpp' = priv /\ mepc' = pc
               /\ pc' = Entry(mtvec, mcause'.int, mcause'.code)
            \/ /\ priv' = PRV_S /\ "SPP" \notin mstatus' /\ sepc' = pc
               /\ pc' = Entry(stvec, scause'.int, scause'.code)
      /\ priv' < priv => UNCHANGED <<mepc, mcause, sepc, scause>>
<1> USE DEF statusVars, delegVars, lineVars, mtrapVars, strapVars
<1>1. TypeOK /\ [Next]_hartVars => [Disc]_hartVars
  <2> SUFFICES ASSUME TypeOK, Next PROVE Disc
    OBVIOUS
  <2>0. priv \in {0, 1, 3} /\ mpp \in {0, 1, 3}
    BY DEF TypeOK, Privs, PRV_U, PRV_S, PRV_M
  <2>1. ASSUME NEW int \in BOOLEAN, NEW code \in 0 .. 15, take_trap(int, code)
        PROVE  Disc
    <3>1. CASE Delegated(int, code) /\ TrapToS(int, code)
      <4>1. priv' = 1 /\ priv \in {0, 1} /\ sepc' = pc
        BY <2>0, <3>1 DEF TrapToS, Delegated, PRV_S
      <4>2. scause'.int = int /\ scause'.code = code
        BY <3>1 DEF TrapToS
      <4>3. pc' = Entry(stvec, scause'.int, scause'.code)
        BY <3>1, <4>2 DEF TrapToS
      <4>4. priv # 1 => "SPP" \notin mstatus'
        BY <3>1 DEF TrapToS, PRV_S
      <4>5. QED BY <4>1, <4>3, <4>4 DEF PRV_S
    <3>2. CASE TrapToM(int, code)
      <4>1. priv' = 3 /\ mepc' = pc /\ mpp' = priv
        BY <3>2 DEF TrapToM, PRV_M
      <4>2. mcause'.int = int /\ mcause'.code = code
        BY <3>2 DEF TrapToM
      <4>3. pc' = Entry(mtvec, mcause'.int, mcause'.code)
        BY <3>2, <4>2 DEF TrapToM
      <4>4. QED BY <2>0, <4>1, <4>3 DEF PRV_M
    <3>3. QED BY <2>1, <3>1, <3>2 DEF take_trap
  <2>2. CASE Mret
    BY <2>0, <2>2 DEF Mret, PRV_M
  <2>3. CASE Sret
    BY <2>0, <2>3 DEF Sret, PRV_S, PRV_U
  <2>4. CASE Plain \/ CsrWrite \/ SetLines
    <3>1. priv' = priv
      BY <2>4 DEF Plain, Ordinary, CsrWrite, WriteMstatus, WriteSstatus, WriteEnables, WriteSsip,
                  WriteMtrap, WriteStrap, SetLines
    <3>2. QED BY <2>0, <3>1
  <2>5. QED BY <2>1, <2>2, <2>3, <2>4 DEF Next, Instruction
<1>2. QED BY <1>1, HartTypeCorrect, PTL DEF Spec, ModeDiscipline

-----------------------------------------------------------------------------
(* The history of HartContext. *)

\* The history variables observe the hart and add no behaviour to it.
LEMMA CtxImplementsHart == CtxSpec => Spec
<1>1. CtxInit => Init
  BY DEF CtxInit
<1>2. [CtxNext]_ctxVars => [Next]_hartVars
  BY DEF CtxNext, CtxTrap, CtxInstruction, Next, take_trap, Instruction, CsrWrite,
         ctxVars
<1>3. QED BY <1>1, <1>2, PTL DEF CtxSpec, Spec

\* Both contexts survive a step, M's half.
LEMMA MachineContextStep ==
    ASSUME TypeOK, ContextKept, CtxNext, mctx'.live
    PROVE  mepc' = mctx'.pc /\ mpp' = mctx'.priv /\ (("MPIE" \in mstatus') <=> mctx'.ie)
<1> USE DEF statusVars, delegVars, lineVars, mtrapVars, strapVars
<1>1. ASSUME NEW int \in BOOLEAN, NEW code \in 0 .. 15, CtxTrap(int, code)
      PROVE  mepc' = mctx'.pc /\ mpp' = mctx'.priv /\ (("MPIE" \in mstatus') <=> mctx'.ie)
  <2>1. CASE TrapToS(int, code) /\ UNCHANGED mctx
    <3>1. ("MPIE" \in mstatus') <=> ("MPIE" \in mstatus)
      BY <2>1 DEF TrapToS, StackEnable
    <3>2. QED BY <2>1, <3>1 DEF TrapToS, ContextKept
  <2>2. CASE TrapToM(int, code) /\ mctx' = Live("MIE")
    <3>1. ("MPIE" \in mstatus') <=> ("MIE" \in mstatus)
      BY <2>2 DEF TrapToM, StackEnable
    <3>2. mctx'.pc = pc /\ mctx'.priv = priv /\ (mctx'.ie <=> ("MIE" \in mstatus))
      BY <2>2 DEF Live
    <3>3. QED BY <2>2, <3>1, <3>2 DEF TrapToM
  <2>3. QED BY <1>1, <2>1, <2>2 DEF CtxTrap
<1>2. CASE mctx' = Dead
  BY <1>2 DEF Dead
<1>3. CASE UNCHANGED <<mepc, mpp, mctx>> /\ (("MPIE" \in mstatus') <=> ("MPIE" \in mstatus))
  BY <1>3 DEF ContextKept
<1>4. CASE CtxInstruction
  <2>1. CASE Sret /\ UNCHANGED mctx
    <3>1. ("MPIE" \in mstatus') <=> ("MPIE" \in mstatus)
      BY <2>1 DEF Sret
    <3>2. QED BY <1>3, <2>1, <3>1 DEF Sret
  <2>2. CASE WriteSstatus /\ UNCHANGED mctx
    <3>1. ("MPIE" \in mstatus') <=> ("MPIE" \in mstatus)
      BY <2>2 DEF WriteSstatus, SSTATUS_MASK
    <3>2. QED BY <1>3, <2>2, <3>1 DEF WriteSstatus
  <2>3. CASE WriteMtrap /\ mctx' = (IF mepc' = mepc THEN mctx ELSE Dead)
    BY <1>2, <1>3, <2>3 DEF WriteMtrap
  <2>4. CASE (WriteStrap \/ Plain \/ WriteEnables \/ WriteSsip) /\ UNCHANGED mctx
    BY <1>3, <2>4 DEF WriteStrap, Plain, Ordinary, WriteEnables, WriteSsip
  <2>5. QED BY <1>2, <1>4, <2>1, <2>2, <2>3, <2>4 DEF CtxInstruction
<1>5. CASE SetLines /\ UNCHANGED <<mctx, sctx, burst>>
  BY <1>3, <1>5 DEF SetLines
<1>6. QED BY <1>1, <1>4, <1>5 DEF CtxNext

\* Both contexts survive a step, S's half.
LEMMA SupervisorContextStep ==
    ASSUME TypeOK, ContextKept, CtxNext, sctx'.live
    PROVE  /\ sepc' = sctx'.pc
           /\ IF "SPP" \in mstatus' THEN sctx'.priv = PRV_S ELSE sctx'.priv = PRV_U
           /\ ("SPIE" \in mstatus') <=> sctx'.ie
<1> USE DEF statusVars, delegVars, lineVars, mtrapVars, strapVars
<1> DEFINE Goal == /\ sepc' = sctx'.pc
                   /\ IF "SPP" \in mstatus' THEN sctx'.priv = PRV_S ELSE sctx'.priv = PRV_U
                   /\ ("SPIE" \in mstatus') <=> sctx'.ie
           Kept == /\ UNCHANGED <<sepc, sctx>>
                   /\ ("SPIE" \in mstatus') <=> ("SPIE" \in mstatus)
                   /\ ("SPP" \in mstatus') <=> ("SPP" \in mstatus)
<1>1. CASE Kept
  BY <1>1 DEF ContextKept
<1>2. CASE sctx' = Dead
  BY <1>2 DEF Dead
<1>3. ASSUME NEW int \in BOOLEAN, NEW code \in 0 .. 15, CtxTrap(int, code)
      PROVE  Goal
  <2>1. CASE TrapToM(int, code) /\ UNCHANGED sctx
    <3>1. Kept
      BY <2>1 DEF TrapToM, StackEnable
    <3>2. QED BY <3>1, <1>1
  <2>2. CASE Delegated(int, code) /\ TrapToS(int, code) /\ sctx' = Live("SIE")
    <3>1. ("SPIE" \in mstatus') <=> ("SIE" \in mstatus)
      BY <2>2 DEF TrapToS, StackEnable
    <3>2. ("SPP" \in mstatus') <=> (priv = PRV_S)
      BY <2>2 DEF TrapToS
    <3>3. sctx'.pc = pc /\ sctx'.priv = priv /\ (sctx'.ie <=> ("SIE" \in mstatus))
      BY <2>2 DEF Live
    <3>4. priv \in {PRV_U, PRV_S}
      BY <2>2 DEF Delegated, TypeOK, Privs, PRV_U, PRV_S, PRV_M
    <3>5. sepc' = pc
      BY <2>2 DEF TrapToS
    <3>6. QED BY <3>1, <3>2, <3>3, <3>4, <3>5
  <2>3. QED BY <1>3, <2>1, <2>2 DEF CtxTrap
<1>4. CASE CtxInstruction
  <2>1. CASE Mret /\ UNCHANGED sctx
    <3>1. Kept
      BY <2>1 DEF Mret
    <3>2. QED BY <3>1, <1>1
  <2>2. CASE WriteStrap /\ sctx' = (IF sepc' = sepc THEN sctx ELSE Dead)
    BY <1>1, <1>2, <2>2 DEF WriteStrap
  <2>3. CASE (WriteMtrap \/ Plain \/ WriteEnables \/ WriteSsip) /\ UNCHANGED sctx
    <3>1. Kept
      BY <2>3 DEF WriteMtrap, Plain, Ordinary, WriteEnables, WriteSsip
    <3>2. QED BY <3>1, <1>1
  <2>4. QED BY <1>2, <1>4, <2>1, <2>2, <2>3 DEF CtxInstruction
<1>5. CASE SetLines /\ UNCHANGED <<mctx, sctx, burst>>
  BY <1>1, <1>5 DEF SetLines
<1>6. QED BY <1>3, <1>4, <1>5 DEF CtxNext

\* Trap nesting keeps both contexts in every reachable state (ContextKept).
THEOREM HartContextKept == CtxSpec => []ContextKept
<1>1. CtxInit => ContextKept
  BY DEF CtxInit, ContextKept, Dead
<1>2. TypeOK /\ ContextKept /\ [CtxNext]_ctxVars => ContextKept'
  <2> SUFFICES ASSUME TypeOK, ContextKept, [CtxNext]_ctxVars PROVE ContextKept'
    OBVIOUS
  <2>1. CASE CtxNext
    BY <2>1, MachineContextStep, SupervisorContextStep DEF ContextKept
  <2>2. CASE UNCHANGED ctxVars
    BY <2>2 DEF ctxVars, hartVars, ContextKept, statusVars, mtrapVars, strapVars
  <2>3. QED BY <2>1, <2>2
<1>3. QED BY <1>1, <1>2, CtxImplementsHart, HartTypeCorrect, PTL DEF CtxSpec

\* MRET and SRET resume the interrupted pc, mode and enable (ReturnResumes).
THEOREM HartReturnResumes == CtxSpec => ReturnResumes
<1> DEFINE Resumes ==
      /\ Mret /\ mctx.live =>
            pc' = mctx.pc /\ priv' = mctx.priv /\ (("MIE" \in mstatus') <=> mctx.ie)
      /\ Sret /\ sctx.live =>
            pc' = sctx.pc /\ priv' = sctx.priv /\ (("SIE" \in mstatus') <=> sctx.ie)
<1>1. ContextKept => Resumes
  <2>1. ASSUME ContextKept, Mret, mctx.live
        PROVE  pc' = mctx.pc /\ priv' = mctx.priv /\ (("MIE" \in mstatus') <=> mctx.ie)
    <3>1. ("MIE" \in mstatus') <=> ("MPIE" \in mstatus)
      BY <2>1 DEF Mret
    <3>2. QED BY <2>1, <3>1 DEF Mret, ContextKept
  <2>2. ASSUME ContextKept, Sret, sctx.live
        PROVE  pc' = sctx.pc /\ priv' = sctx.priv /\ (("SIE" \in mstatus') <=> sctx.ie)
    <3>1. ("SIE" \in mstatus') <=> ("SPIE" \in mstatus)
      BY <2>2 DEF Sret
    <3>2. QED BY <2>2, <3>1 DEF Sret, ContextKept
  <2>3. QED BY <2>1, <2>2
<1>2. ContextKept /\ [CtxNext]_ctxVars => [Resumes]_ctxVars
  BY <1>1
<1>3. QED BY <1>2, HartContextKept, PTL DEF CtxSpec, ReturnResumes

-----------------------------------------------------------------------------
(* Bursts of interrupts. *)

\* check_pending_interrupts returns 0 or one of the active interrupts.
LEMMA SelectedActive ==
    ASSUME TypeOK, check_pending_interrupts # 0
    PROVE  check_pending_interrupts \in ActiveInts
<1>1. ActiveInts # {}
  BY DEF check_pending_interrupts
<1>2. get_mip \subseteq AllInts
  BY DEF get_mip, TypeOK, AllInts
<1>3. ActiveInts \subseteq AllInts
  BY <1>2 DEF ActiveInts
<1>4. \E i \in ActiveInts : \A j \in ActiveInts : IntRank[i] <= IntRank[j]
  BY <1>1, <1>3 DEF AllInts, IntRank
<1>5. QED BY <1>1, <1>4, Zenon DEF check_pending_interrupts

\* Which interrupts can be active: from S or M with its own enable off, only
\* those the mode does not handle itself.
LEMMA ActiveBelow ==
    ASSUME TypeOK, NEW i \in ActiveInts
    PROVE  /\ priv = PRV_M => "MIE" \in mstatus
           /\ priv = PRV_S /\ "SIE" \notin mstatus => i \notin mideleg
  BY DEF ActiveInts, TypeOK, Privs, PRV_U, PRV_S, PRV_M

\* Taking an interrupt keeps BurstInv.
LEMMA BurstTrap ==
    ASSUME TypeOK, BurstInv, NEW int \in BOOLEAN, NEW code \in 0 .. 15, CtxTrap(int, code)
    PROVE  BurstInv'
<1>1. CASE ~int
  BY <1>1 DEF CtxTrap, BurstInv
<1>2. CASE int
  <2>1. code \in ActiveInts /\ burst' = burst + 1
    BY <1>2, SelectedActive DEF CtxTrap, TrapCause
  <2>2. CASE Delegated(int, code) /\ TrapToS(int, code)
    <3>1. priv' = PRV_S /\ "SIE" \notin mstatus'
      BY <2>2 DEF TrapToS, StackEnable
    <3>2. code \in mideleg /\ priv <= PRV_S
      BY <1>2, <2>2 DEF Delegated
    <3>3. ~(priv = PRV_M) /\ ~(priv = PRV_S /\ "SIE" \notin mstatus)
      BY <2>1, <3>2, ActiveBelow DEF PRV_M, PRV_S
    <3>4. burst = 0
      BY <3>3 DEF BurstInv
    <3>5. QED BY <2>1, <3>1, <3>4 DEF BurstInv
  <2>3. CASE TrapToM(int, code)
    <3>1. priv' = PRV_M /\ "MIE" \notin mstatus'
      BY <2>3 DEF TrapToM, StackEnable
    <3>2. ~(priv = PRV_M /\ "MIE" \notin mstatus)
      BY <2>1, ActiveBelow
    <3>3. burst \in {0, 1}
      BY <3>2 DEF BurstInv
    <3>4. QED BY <2>1, <3>1, <3>3 DEF BurstInv
  <2>4. QED BY <2>2, <2>3 DEF CtxTrap
<1>3. QED BY <1>1, <1>2

\* No more than two interrupts are ever taken in a row (BurstBound), by way of
\* BurstInv.
THEOREM HartBurstBound == CtxSpec => []BurstBound
<1>1. CtxInit => BurstInv
  BY DEF CtxInit, BurstInv
<1>2. TypeOK /\ BurstInv /\ [CtxNext]_ctxVars => BurstInv'
  <2> SUFFICES ASSUME TypeOK, BurstInv, [CtxNext]_ctxVars PROVE BurstInv'
    OBVIOUS
  <2>1. CASE \E int \in BOOLEAN, code \in 0 .. 15 : CtxTrap(int, code)
    BY <2>1, BurstTrap
  <2>2. CASE CtxInstruction
    BY <2>2 DEF CtxInstruction, BurstInv
  <2>3. CASE (SetLines /\ UNCHANGED <<mctx, sctx, burst>>) \/ UNCHANGED ctxVars
    BY <2>3 DEF SetLines, BurstInv, ctxVars, hartVars, statusVars
  <2>4. QED BY <2>1, <2>2, <2>3 DEF CtxNext
<1>3. BurstInv => BurstBound
  BY DEF BurstInv, BurstBound
<1>4. QED BY <1>1, <1>2, <1>3, CtxImplementsHart, HartTypeCorrect, PTL DEF CtxSpec
=============================================================================
