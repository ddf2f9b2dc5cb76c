--------------------------- MODULE PlatformProofs ---------------------------
(***************************************************************************)
(* The platform for every quantum: wherever the ISS yields, no interrupt   *)
(* is lost between a device, the PLIC and the handler, and the handler is  *)
(* never entered for nothing.                                              *)
(***************************************************************************)
EXTENDS Platform, TLAPS

\* The numbers of the sources and the groups of variables are expanded everywhere.
USE DEF IRQ_GPIO, IRQ_TIMER, IRQ_SD, IRQ_DMA, IRQ_VIDEO,
        gpioOwn, timerOwn, fbOwn, sdOwn, dmaOwn, memVars, plicOwn

-----------------------------------------------------------------------------
(* The transfers the firmware starts stay in the memories. *)

DmaFirst == [src |-> src_addr, dst |-> dst_addr, left |-> byte_count,
             answer |-> "ok", mem |-> mem]
DmaTurn(t) == IF t.left = 0 THEN t ELSE D!Burst(t)

\* The transfer of at most one byte is one turn of the loop.
LEMMA DmaOneTurn ==
    ASSUME byte_count \in {0, 1}
    PROVE  D!Transfer = IF byte_count = 0 THEN DmaFirst ELSE DmaTurn(DmaFirst)
<1> DEFINE Loop(g) == [n \in 0 .. byte_count |->
                       IF n = 0 THEN DmaFirst ELSE LET t == g[n - 1] IN DmaTurn(t)]
           h == [n \in 0 .. byte_count |-> IF n = 0 THEN DmaFirst ELSE DmaTurn(DmaFirst)]
<1>1. h = Loop(h)
  OBVIOUS
<1>2. D!Bursts = CHOOSE g : g = Loop(g)
  BY DEF D!Bursts, DmaFirst, DmaTurn
<1>3. D!Bursts = Loop(D!Bursts)
  BY <1>1, <1>2
<1> QED
  BY <1>3 DEF D!Transfer

\* Every access of one byte stays in the memory it starts in.
LEMMA DmaNoAbort ==
    ASSUME src_addr \in {0, 2}, dst_addr \in {0, 3}, byte_count \in {0, 1}
    PROVE  D!Transfer.answer # "abort"
<1>1. CASE byte_count = 0
  BY <1>1, DmaOneTurn DEF DmaFirst
<1>2. CASE byte_count = 1
  <2>1. D!Transfer = D!Burst(DmaFirst)
    BY <1>2, DmaOneTurn DEF DmaTurn, DmaFirst
  <2>2. D!BurstLen(DmaFirst.left) = 1 /\ DmaFirst.src = src_addr /\ DmaFirst.dst = dst_addr
    BY <1>2 DEF D!BurstLen, DmaFirst
  <2>3. D!Access(FALSE, src_addr, 1) # "abort" /\ D!Access(TRUE, dst_addr, 1) # "abort"
    BY DEF D!Access, D!Span
  <2> DEFINE r == D!Access(FALSE, src_addr, 1)
             w == D!Access(TRUE, dst_addr, 1)
  <2> HIDE DEF r, w
  <2>4. D!Burst(DmaFirst).answer = IF r # "ok" THEN r ELSE IF w # "ok" THEN w ELSE "ok"
    <3>1. DmaFirst.answer = "ok"
      BY DEF DmaFirst
    <3>2. CASE r # "ok"
      BY <2>2, <3>2 DEF D!Burst, r, DmaFirst
    <3>3. CASE r = "ok" /\ w # "ok"
      BY <2>2, <3>3 DEF D!Burst, r, w, DmaFirst
    <3>4. CASE r = "ok" /\ w = "ok"
      BY <2>2, <3>4 DEF D!Burst, r, w
    <3> QED BY <3>2, <3>3, <3>4
  <2> QED BY <2>1, <2>3, <2>4 DEF r, w
<1> QED
  BY <1>1, <1>2

SdFirst == [dest |-> data_addr, answer |-> "ok", good |-> card_good, mem |-> mem]

\* A command other than CMD18 moves one block.
LEMMA SdOneTurn ==
    ASSUME cmd = "other"
    PROVE  S!SdTransfer = S!OneBlock(SdFirst, 0)
<1> DEFINE Turn(t, i) == IF t.answer # "ok" THEN t ELSE S!OneBlock(t, i)
           Loop(g) == [n \in 0 .. 1 |->
                       IF n = 0 THEN SdFirst ELSE LET t == g[n - 1] IN Turn(t, n - 1)]
           h == [n \in 0 .. 1 |-> IF n = 0 THEN SdFirst ELSE Turn(SdFirst, 0)]
<1>1. h = Loop(h)
  <2> HIDE DEF Turn
  <2> QED OBVIOUS
<1>2. S!BlockCount = 1
  BY DEF S!BlockCount
<1>3. S!SdBlocks = CHOOSE g : g = Loop(g)
  BY <1>2 DEF S!SdBlocks, SdFirst
<1>4. S!SdBlocks = Loop(S!SdBlocks)
  BY <1>1, <1>3
<1>5. S!SdBlocks[0] = SdFirst
  BY <1>4
<1>6. S!SdBlocks[1] = Turn(SdFirst, 0)
  <2> HIDE DEF Turn
  <2> QED BY <1>4, <1>5
<1> QED
  BY <1>2, <1>6 DEF S!SdTransfer, SdFirst

\* A block of one byte stays in the memory it starts in.
LEMMA SdNoAbort ==
    ASSUME cmd = "other", data_addr \in {0, 2}
    PROVE  S!SdTransfer.answer # "abort"
<1>1. S!Access(TRUE, data_addr, 1) # "abort"
  BY DEF S!Access, S!Span
<1>2. S!OneBlock(SdFirst, 0).answer \in {"error", S!Access(TRUE, data_addr, 1)}
  <2>1. CASE S!Readable(arg + 0, SdFirst.good)
    BY <2>1 DEF S!OneBlock, SdFirst
  <2>2. CASE ~S!Readable(arg + 0, SdFirst.good)
    BY <2>2 DEF S!OneBlock, SdFirst
  <2> QED BY <2>1, <2>2
<1> QED
  BY <1>1, <1>2, SdOneTurn
-----------------------------------------------------------------------------
(* The hart and the ISS. *)

\* The only interrupt is the external one, and it is taken in the main loop.
LEMMA OnlyExternal ==
    ASSUME HartInv, H!check_pending_interrupts # 0
    PROVE  H!check_pending_interrupts = 11 /\ meip /\ pc[1] \in Ready
<1>1. H!get_mip \subseteq {11}
  BY DEF HartInv, H!get_mip
<1>2. H!ActiveInts \subseteq {11} /\ H!ActiveInts # {}
  BY <1>1 DEF H!check_pending_interrupts, H!ActiveInts
<1>3. H!ActiveInts = {11}
  BY <1>2
<1>4. meip
  BY <1>3 DEF HartInv, H!ActiveInts, H!get_mip
<1>5. pc[1] \in Ready
  BY <1>3 DEF HartInv, H!ActiveInts, H!PRV_M, H!PRV_S
<1>6. H!check_pending_interrupts = 11
  BY <1>3 DEF H!check_pending_interrupts
<1> QED
  BY <1>4, <1>5, <1>6

\* Which labels an instruction that leaves the CSRs alone may join.
SamePhase(from, to) ==
    /\ from \in Labels /\ to \in Labels
    /\ from \in Ready <=> to \in Ready
    /\ to \in Handler => from \in Handler
    /\ to \in {"boot_mie", "boot_on"} => FALSE

\* An instruction within a phase keeps what the hart promises.
LEMMA ExecHart ==
    ASSUME HartInv, NEW from, NEW to, SamePhase(from, to), Exec(from, to)
    PROVE  HartInv' /\ pc = <<from, 0>> /\ pc' = <<to, 0>> /\ pc[1] = from /\ pc'[1] = to
<1>1. pc = <<from, 0>> /\ pc[1] = from
  BY DEF HartInv, Exec, At
<1>2. pc' = <<to, 0>> /\ pc'[1] = to
  BY DEF Exec, Jump
<1>3. UNCHANGED <<priv, mstatus, mpp, mie, mideleg, swmip, mtvec, mepc, mtip, msip>>
  BY DEF Exec, H!Ordinary, H!statusVars, H!delegVars, H!mtrapVars
<1> QED
  BY <1>1, <1>2, <1>3 DEF HartInv, SamePhase, Ready, Handler

\* It ends with the processor, or at the end of the quantum.
LEMMA ExecIss ==
    ASSUME IssInv, NEW from, NEW to, Exec(from, to), pc'[1] = to, to # "isr"
    PROVE  IssInv' /\ cpu' \in {"run", "sync"}
<1>1. cpu' \in {"run", "sync"} /\ used' \in Nat
  BY DEF IssInv, Exec, EndInstr
<1> QED
  BY <1>1 DEF IssInv

\* The line stays exact while nothing of the PLIC changes.
LEMMA LineKept ==
    ASSUME UNCHANGED plicOwn
    PROVE  P!Actionable' = P!Actionable
  BY DEF P!Actionable, P!Beats
-----------------------------------------------------------------------------
(* The PLIC. *)

\* The labels before the enables are written.
Early == {"boot_prio", "boot_en"}

\* The winner of the arbitration is one of the candidates.
LEMMA ClaimWins ==
    ASSUME PlicInv, P!Actionable # {}
    PROVE  P!claim_best \in P!Actionable
<1> DEFINE A == P!Actionable
           Best(i, k) == i \in A /\ \A j \in A : j <= k =>
                            priority[i] > priority[j] \/ (priority[i] = priority[j] /\ i <= j)
<1>1. A \subseteq 1 .. 5 /\ A # {} /\ (\A i \in A : priority[i] \in Nat)
  BY DEF P!Actionable, P!Beats, P!Sources, PlicInv
<1> HIDE DEF A
<1>2. \A k \in 0 .. 4 : ((\A j \in A : j > k) \/ \E i : Best(i, k))
                        => ((\A j \in A : j > k + 1) \/ \E i : Best(i, k + 1))
  <2> SUFFICES ASSUME NEW k \in 0 .. 4, (\A j \in A : j > k) \/ \E i : Best(i, k)
               PROVE  (\A j \in A : j > k + 1) \/ \E i : Best(i, k + 1)
    OBVIOUS
  <2>1. CASE k + 1 \notin A
    BY <1>1, <2>1
  <2>2. CASE k + 1 \in A /\ \A j \in A : j > k
    <3>1. Best(k + 1, k + 1)
      BY <1>1, <2>2
    <3> QED BY <3>1
  <2>3. CASE k + 1 \in A /\ \E i : Best(i, k)
    <3>1. PICK i : Best(i, k)
      BY <2>3
    <3>2. CASE priority[k + 1] > priority[i]
      <4>1. Best(k + 1, k + 1)
        BY <1>1, <2>3, <3>1, <3>2
      <4> QED BY <4>1
    <3>3. CASE priority[k + 1] <= priority[i] /\ i <= k + 1
      <4>1. Best(i, k + 1)
        BY <1>1, <2>3, <3>1, <3>3
      <4> QED BY <4>1
    <3>4. CASE priority[k + 1] < priority[i]
      <4>1. Best(i, k + 1)
        BY <1>1, <2>3, <3>1, <3>4
      <4> QED BY <4>1
    <3>5. CASE priority[k + 1] = priority[i] /\ k + 1 < i
      <4>1. Best(k + 1, k + 1)
        BY <1>1, <2>3, <3>1, <3>5
      <4> QED BY <4>1
    <3> QED
      BY <1>1, <2>3, <3>1, <3>2, <3>3, <3>4, <3>5
  <2> QED
    BY <2>1, <2>2, <2>3
<1>3. (\A j \in A : j > 5) \/ \E i : Best(i, 5)
  <2> DEFINE R(k) == (\A j \in A : j > k) \/ \E i : Best(i, k)
  <2>1. R(0)
    BY <1>1
  <2>2. \A k \in 0 .. 4 : R(k) => R(k + 1)
    BY <1>2
  <2> HIDE DEF R
  <2>3. R(5)
    BY <2>1, <2>2
  <2> QED
    BY <2>3 DEF R
<1>4. \E i \in A : \A j \in A :
         priority[i] > priority[j] \/ (priority[i] = priority[j] /\ i <= j)
  <2>1. PICK i : Best(i, 5)
    BY <1>1, <1>3
  <2> QED
    BY <1>1, <2>1
<1> QED
  BY <1>4 DEF A, P!claim_best

\* Nothing of the PLIC changes.
LEMMA PlicQuiet ==
    ASSUME PlicInv, UNCHANGED <<plicOwn, meip>>,
           pc'[1] = pc[1] \/ (pc[1] \notin Early /\ pc'[1] \notin Early)
    PROVE  PlicInv'
<1>1. P!Actionable' = P!Actionable
  BY LineKept
<1> QED
  BY <1>1 DEF PlicInv, Early

\* A device drives its line.
LEMMA PlicDriven ==
    ASSUME PlicInv, NEW d \in Devices, NEW level, P!set_pending(d, level),
           pc'[1] = pc[1] \/ (pc[1] \notin Early /\ pc'[1] \notin Early)
    PROVE  PlicInv'
  BY DEF PlicInv, P!set_pending, P!evaluate_irq, Early

-----------------------------------------------------------------------------
(* Steps that leave the PLIC and the devices alone. *)

\* The labels such a step may join.
Calm(from, to) ==
    \/ from = to
    \/ /\ to \in {"boot_mtvec", "boot_mie", "boot_on"} \cup Ready \cup Handler
       /\ from \in {"boot_in", "boot_mtvec", "boot_mie", "boot_on"} \cup Ready \cup Handler
       /\ from \in Serving <=> to \in Serving
       /\ from \in Ready \cup Handler => to \in Ready \cup Handler
       /\ to \notin {"ack", "read"} /\ from # "ack"

\* The pins that the firmware has seen are the ones it had seen, or the present
\* ones; it must look when it leaves boot_in and read.
LEMMA Quiet ==
    ASSUME PlatInv, UNCHANGED <<plicOwn, meip, cur, job>>, NoDevice, Calm(pc[1], pc'[1]),
           \/ seen' = input
           \/ seen' = seen /\ (pc'[1] = pc[1] \/ pc[1] \notin {"boot_in", "read"})
    PROVE  PlicInv' /\ ServiceInv' /\ Genuine' /\ DeviceInv' /\ NothingLost'
<1>1. PlicInv'
  BY PlicQuiet DEF PlatInv, Calm, Early, Ready, Handler
<1>2. ServiceInv'
  BY DEF PlatInv, ServiceInv, Calm, Serving, Ready, Handler
<1>3. Genuine'
  BY DEF PlatInv, Genuine, NoDevice, T!Geq
<1>4. DeviceInv'
  BY DEF PlatInv, DeviceInv, NoDevice, Calm, Ready, Handler
<1>5. NothingLost'
  BY DEF PlatInv, NothingLost, DeviceInv, InService, NoDevice, Calm, Ready, Handler, Serving,
     plicOwn, T!Geq, G!Changed
<1> QED
  BY <1>1, <1>2, <1>3, <1>4, <1>5

\* The program computes or goes to sleep.
LEMMA StepCompute == PlatInv /\ Compute => PlatInv'
<1> SUFFICES ASSUME PlatInv, Compute PROVE PlatInv'
  OBVIOUS
<1>1. PICK to \in {"main", "wfi"} : Exec("main", to)
  BY DEF Compute
<1>2. SamePhase("main", to)
  BY DEF SamePhase, Labels, Ready, Handler
<1>3. HartInv' /\ pc[1] = "main" /\ pc'[1] = to
  BY <1>1, <1>2, ExecHart DEF PlatInv
<1>4. IssInv'
  BY <1>1, <1>3, ExecIss DEF PlatInv
<1>5. Calm(pc[1], pc'[1])
  BY <1>3 DEF Calm, Ready, Handler, Serving
<1> QED
  BY <1>3, <1>4, <1>5, Quiet DEF PlatInv, Compute

\* The handler reads the pins after it has cleared their changes.
LEMMA StepReadPins == PlatInv /\ ReadPins => PlatInv'
<1> SUFFICES ASSUME PlatInv, ReadPins PROVE PlatInv'
  OBVIOUS
<1>1. SamePhase("read", "complete") /\ Exec("read", "complete")
  BY DEF SamePhase, Labels, Ready, Handler, ReadPins
<1>2. HartInv' /\ pc[1] = "read" /\ pc'[1] = "complete"
  BY <1>1, ExecHart DEF PlatInv
<1>3. IssInv'
  BY <1>1, <1>2, ExecIss DEF PlatInv
<1>4. Calm(pc[1], pc'[1])
  BY <1>2 DEF Calm, Ready, Handler, Serving
<1> QED
  BY <1>2, <1>3, <1>4, Quiet DEF PlatInv, ReadPins

\* The firmware looks at the pins after it has unmasked their changes.
LEMMA StepBootIn ==
    ASSUME PlatInv, Exec("boot_in", "boot_mtvec"), seen' = input,
           NoDevice, UNCHANGED <<plicOwn, meip, cur, job>>
    PROVE  PlatInv'
<1>1. SamePhase("boot_in", "boot_mtvec")
  BY DEF SamePhase, Labels, Ready, Handler
<1>2. HartInv' /\ pc[1] = "boot_in" /\ pc'[1] = "boot_mtvec"
  BY <1>1, ExecHart DEF PlatInv
<1>3. IssInv'
  BY <1>1, <1>2, ExecIss DEF PlatInv
<1>4. Calm(pc[1], pc'[1])
  BY <1>2 DEF Calm, Ready, Handler, Serving
<1> QED
  BY <1>2, <1>3, <1>4, Quiet DEF PlatInv

\* The firmware sets the handler, the enable of the interrupt and, last, MIE.
LEMMA StepBootHart == PlatInv /\ BootHart => PlatInv'
<1> SUFFICES ASSUME PlatInv, BootHart PROVE PlatInv'
  OBVIOUS
<1>1. PICK from \in {"boot_mtvec", "boot_mie", "boot_on"},
           to \in {"boot_mie", "boot_on", "main"} :
         /\ pc = <<from, 0>> /\ pc[1] = from /\ pc' = <<to, 0>> /\ pc'[1] = to
         /\ \/ from = "boot_mtvec" /\ to = "boot_mie" /\ H!WriteMtrap /\ mtvec'.base = "isr"
            \/ from = "boot_mie" /\ to = "boot_on" /\ H!WriteEnables /\ mie' = {11}
            \/ from = "boot_on" /\ to = "main" /\ H!WriteMstatus
  BY DEF BootHart, At, Jump, PlatInv, HartInv
<1>2. UNCHANGED <<priv, mideleg, swmip, mtip, msip, meip>> /\ to \in Labels
  <2>1. CASE H!WriteMtrap
    BY <2>1 DEF H!WriteMtrap, H!statusVars, H!delegVars, H!lineVars, H!strapVars, Labels
  <2>2. CASE H!WriteMstatus
    BY <2>2 DEF H!WriteMstatus, H!delegVars, H!lineVars, H!mtrapVars, H!strapVars, Labels
  <2>3. CASE H!WriteEnables /\ mie' = {11} /\ from = "boot_mie"
    BY <2>3 DEF H!WriteEnables, H!CsrOk, H!statusVars, H!lineVars, H!mtrapVars, H!strapVars,
       Labels
  <2> QED
    BY <1>1, <2>1, <2>2, <2>3
<1>3. HartInv'
  <2>1. CASE from = "boot_mtvec"
    <3>1. mtvec' \in [base : Labels, mode : {0}] /\ mtvec'.base = "isr" /\ UNCHANGED mstatus
      BY <1>1, <2>1 DEF H!WriteMtrap, H!CsrOk, H!statusVars
    <3>2. mtvec' = [base |-> "isr", mode |-> 0]
      BY <3>1
    <3> QED
      BY <1>1, <1>2, <2>1, <3>1, <3>2 DEF PlatInv, HartInv, Ready, Handler
  <2>2. CASE from = "boot_mie"
    <3>1. UNCHANGED <<mstatus, mtvec>>
      BY <1>1, <2>2 DEF H!WriteEnables, H!statusVars, H!mtrapVars
    <3> QED
      BY <1>1, <1>2, <2>2, <3>1 DEF PlatInv, HartInv, Ready, Handler
  <2>3. CASE from = "boot_on"
    <3>1. mstatus' = {"MIE"} /\ UNCHANGED <<mie, mtvec>>
      BY <1>1, <2>3 DEF H!WriteMstatus, H!delegVars, H!mtrapVars
    <3> QED
      BY <1>1, <1>2, <2>3, <3>1 DEF PlatInv, HartInv, Ready, Handler
  <2> QED
    BY <2>1, <2>2, <2>3
<1>4. IssInv'
  BY <1>1 DEF PlatInv, IssInv, BootHart, EndInstr
<1>5. Calm(pc[1], pc'[1])
  BY <1>1 DEF Calm, Ready, Handler, Serving
<1> QED
  BY <1>1, <1>2, <1>3, <1>4, <1>5, Quiet DEF PlatInv, BootHart

\* WFI waits where it is.
LEMMA StepWfi == PlatInv /\ Wfi => PlatInv'
<1> SUFFICES ASSUME PlatInv, Wfi PROVE PlatInv'
  OBVIOUS
<1>1. HartInv' /\ pc' = pc /\ pc[1] = "wfi"
  BY DEF PlatInv, Wfi, At, HartInv, hartCore
<1>2. IssInv'
  BY <1>1 DEF PlatInv, IssInv, Wfi
<1> QED
  BY <1>1, <1>2, Quiet DEF PlatInv, Wfi, Calm

\* MRET goes back to the main loop with interrupts enabled.
LEMMA StepMret == PlatInv /\ Mret => PlatInv'
<1> SUFFICES ASSUME PlatInv, Mret PROVE PlatInv'
  OBVIOUS
<1>1. pc[1] = "mret" /\ pc' \in Ready \X {0} /\ pc'[1] \in Ready /\ "MIE" \in mstatus'
      /\ priv' = H!PRV_M
      /\ UNCHANGED <<mie, mideleg, swmip, mtip, msip, meip, mtvec>>
  BY DEF PlatInv, HartInv, Mret, At, H!Mret, H!delegVars, H!lineVars, H!mtrapVars, Handler
<1>2. HartInv'
  BY <1>1 DEF PlatInv, HartInv, Labels, Ready, Handler
<1>3. IssInv'
  BY <1>1 DEF PlatInv, IssInv, Mret, EndInstr, Ready
<1>4. Calm(pc[1], pc'[1])
  BY <1>1 DEF Calm, Ready, Handler, Serving
<1> QED
  BY <1>1, <1>2, <1>3, <1>4, Quiet DEF PlatInv, Mret

\* The line is up when the interrupt is taken, so that there is something to claim.
LEMMA StepTakeInterrupt == PlatInv /\ TakeInterrupt => PlatInv'
<1> SUFFICES ASSUME PlatInv, TakeInterrupt PROVE PlatInv'
  OBVIOUS
<1>1. H!check_pending_interrupts = 11 /\ meip /\ pc[1] \in Ready
  BY OnlyExternal DEF PlatInv, TakeInterrupt
<1>2. H!TrapToM(TRUE, 11)
  BY <1>1 DEF TakeInterrupt, H!take_trap, H!Delegated, PlatInv, HartInv
<1>3. /\ pc' = <<"isr", 0>> /\ pc'[1] = "isr" /\ mepc' = pc /\ mpp' = H!PRV_M /\ priv' = H!PRV_M
      /\ UNCHANGED <<mie, mideleg, swmip, mtip, msip, meip, mtvec>>
  BY <1>1, <1>2 DEF H!TrapToM, H!Entry, H!delegVars, H!lineVars, PlatInv, HartInv
<1>4. "MIE" \notin mstatus' /\ "MPIE" \in mstatus'
  BY <1>1, <1>2 DEF H!TrapToM, H!StackEnable, PlatInv, HartInv
<1>5. HartInv'
  <2>1. pc \in Ready \X {0}
    BY <1>1 DEF PlatInv, HartInv
  <2> QED
    BY <1>1, <1>3, <1>4, <2>1 DEF PlatInv, HartInv, Labels, Ready, Handler
<1>6. IssInv'
  <2>1. P!Actionable' # {}
    BY <1>1, LineKept DEF TakeInterrupt, PlatInv, PlicInv
  <2> QED
    BY <1>3, <2>1 DEF PlatInv, IssInv, TakeInterrupt, issVars
<1>7. Calm(pc[1], pc'[1])
  BY <1>1, <1>3 DEF Calm, Ready, Handler, Serving
<1> QED
  BY <1>1, <1>3, <1>5, <1>6, <1>7, Quiet DEF PlatInv, TakeInterrupt, issVars, Ready

\* The ISS gets the processor back, or a WFI goes on to its second wait.
LEMMA StepSynced == PlatInv /\ Synced => PlatInv'
<1> SUFFICES ASSUME PlatInv, Synced PROVE PlatInv'
  OBVIOUS
<1>1. HartInv' /\ pc' = pc
  BY DEF PlatInv, Synced, HartInv, hartCore
<1>2. IssInv'
  BY <1>1 DEF PlatInv, IssInv, Synced
<1> QED
  BY <1>1, <1>2, Quiet DEF PlatInv, Synced, Calm

\* A WFI ends, notified or not, and the main loop goes on.
LEMMA StepWfiReturn == PlatInv /\ WfiReturn => PlatInv'
<1> SUFFICES ASSUME PlatInv, WfiReturn PROVE PlatInv'
  OBVIOUS
<1>1. pc[1] = "wfi" /\ pc' = <<"main", 0>> /\ pc'[1] = "main"
  BY DEF PlatInv, IssInv, WfiReturn, Jump
<1>2. HartInv'
  BY <1>1 DEF PlatInv, HartInv, WfiReturn, H!Ordinary, H!statusVars, H!delegVars, H!mtrapVars,
     Labels, Ready, Handler
<1>3. IssInv'
  BY <1>1 DEF PlatInv, IssInv, WfiReturn, EndInstr
<1>4. Calm(pc[1], pc'[1])
  BY <1>1 DEF Calm, Ready, Handler, Serving
<1> QED
  BY <1>1, <1>2, <1>3, <1>4, Quiet DEF PlatInv, WfiReturn
-----------------------------------------------------------------------------
(* The firmware sets up the PLIC. *)

\* The last priority is written before the enables, and those before any device.
LEMMA StepBootPlic == PlatInv /\ BootPlic => PlatInv'
<1> SUFFICES ASSUME PlatInv, BootPlic PROVE PlatInv'
  OBVIOUS
<1>1. PICK from \in Early, to \in {"boot_prio", "boot_en", "boot_dma"} : Exec(from, to)
  BY DEF BootPlic, Early
<1>2. SamePhase(from, to)
  BY DEF SamePhase, Labels, Ready, Handler, Early
<1>3. HartInv' /\ pc[1] = from /\ pc'[1] = to
  BY <1>1, <1>2, ExecHart DEF PlatInv
<1>4. IssInv'
  BY <1>1, <1>3, ExecIss DEF PlatInv
<1>5. PlicInv' /\ UNCHANGED <<pending, claimed>>
  <2>1. ASSUME NEW d \in Devices, priority[d] = 0, \A e \in Devices : e < d => priority[e] # 0,
               Exec("boot_prio", IF d = IRQ_VIDEO THEN "boot_en" ELSE "boot_prio"),
               NEW v \in Ranks(d), P!WritePriority(d, v)
        PROVE  PlicInv' /\ UNCHANGED <<pending, claimed>>
    <3>1. d \in 1 .. 5 /\ v % 4 \in {1, 2, 3}
      BY <2>1 DEF Ranks, Devices
    <3>2. /\ priority' = [priority EXCEPT ![d] = v % 4]
          /\ UNCHANGED <<pending, enabled, threshold, claimed>> /\ meip' = (P!Actionable' # {})
      BY <2>1, <3>1 DEF P!WritePriority, P!evaluate_irq
    <3>3. pc[1] = "boot_prio" /\ pc'[1] = IF d = IRQ_VIDEO THEN "boot_en" ELSE "boot_prio"
      BY <2>1 DEF Exec, At, Jump
    <3>4. pc'[1] # "boot_prio" => \A e \in Devices : priority'[e] > 0
      <4> SUFFICES ASSUME d = IRQ_VIDEO, NEW e \in Devices PROVE priority'[e] > 0
        BY <3>3
      <4>1. CASE e = d
        BY <3>1, <3>2, <4>1 DEF PlatInv, PlicInv
      <4>2. CASE e # d
        <5>1. e \in 1 .. 4
          BY <4>2 DEF Devices
        <5>2. priority[e] # 0 /\ priority[e] \in Nat
          BY <2>1, <5>1 DEF PlatInv, PlicInv, IRQ_VIDEO
        <5> QED BY <3>1, <3>2, <4>2, <5>1, <5>2 DEF PlatInv, PlicInv
      <4> QED BY <4>1, <4>2
    <3>5. priority' \in [0 .. 5 -> Nat]
      BY <3>1, <3>2 DEF PlatInv, PlicInv
    <3>6. threshold' = 0 /\ pending' \subseteq Devices /\ enabled' = {}
      BY <3>2, <3>3 DEF PlatInv, PlicInv
    <3> QED
      BY <3>2, <3>3, <3>4, <3>5, <3>6 DEF PlicInv
  <2>2. ASSUME Exec("boot_en", "boot_dma"), P!WriteEnable(Devices)
        PROVE  PlicInv' /\ UNCHANGED <<pending, claimed>>
    <3>1. pc[1] = "boot_en" /\ pc'[1] = "boot_dma"
      BY <2>2 DEF Exec, At, Jump
    <3> QED
      BY <2>2, <3>1 DEF PlatInv, PlicInv, P!WriteEnable, P!evaluate_irq
  <2> QED
    BY <2>1, <2>2 DEF BootPlic
<1>6. ServiceInv'
  BY <1>3, <1>5 DEF PlatInv, ServiceInv, BootPlic, Serving, Ready, Handler, Early
<1>7. Genuine'
  BY <1>5 DEF PlatInv, Genuine, BootPlic, NoDevice, T!Geq
<1>8. DeviceInv'
  BY <1>3 DEF PlatInv, DeviceInv, BootPlic, NoDevice, Early
<1>9. NothingLost'
  BY <1>3, <1>5, <1>8 DEF PlatInv, NothingLost, ServiceInv, DeviceInv, BootPlic, Keys, Early,
     Ready, Handler
<1> QED
  BY <1>3, <1>4, <1>5, <1>6, <1>7, <1>8, <1>9 DEF PlatInv

-----------------------------------------------------------------------------
(* The firmware sets up the devices. *)

\* Stores to the registers of the DMA engine and of the SD controller.
LEMMA StepBootTransfer ==
    ASSUME PlatInv,
           \/ (D!WriteSrc(2) \/ D!WriteDst(3)) /\ Exec("boot_dma", "boot_dma") /\ NotDma
           \/ D!WriteCount(1) /\ Exec("boot_dma", "boot_sd") /\ NotDma
           \/ S!WriteDataAddr(2) /\ Exec("boot_sd", "boot_cmp") /\ NotSd,
           UNCHANGED <<plicOwn, meip, seen, cur, job>>
    PROVE  PlatInv'
<1>1. PICK from \in {"boot_dma", "boot_sd"}, to \in {"boot_dma", "boot_sd", "boot_cmp"} :
         Exec(from, to)
  OBVIOUS
<1>2. SamePhase(from, to)
  BY DEF SamePhase, Labels, Ready, Handler
<1>3. HartInv' /\ pc[1] = from /\ pc'[1] = to
  BY <1>1, <1>2, ExecHart DEF PlatInv
<1>4. IssInv'
  BY <1>1, <1>3, ExecIss DEF PlatInv
<1>5. PlicInv'
  BY <1>3, PlicQuiet DEF PlatInv, Early
<1>6. ServiceInv'
  BY <1>3 DEF PlatInv, ServiceInv, Serving, Ready, Handler
<1>7. /\ UNCHANGED <<irq_mask, input, irq_status, timer_ctrl, time, cmp, sd_status, sd_start,
                     dma_status, dma_start, vsync_pending, alive, irq_enable, cmd, arg>>
      /\ src_addr' \in {src_addr, 2} /\ dst_addr' \in {dst_addr, 3}
      /\ byte_count' \in {byte_count, 1} /\ data_addr' \in {data_addr, 2}
  BY DEF NotDma, NotSd, D!WriteSrc, D!WriteDst, D!WriteCount, S!WriteDataAddr
<1>8. Genuine'
  BY <1>7 DEF PlatInv, Genuine, T!Geq
<1>9. DeviceInv'
  BY <1>3, <1>7 DEF PlatInv, DeviceInv
<1>10. NothingLost'
  BY <1>3, <1>9 DEF PlatInv, NothingLost, ServiceInv, DeviceInv, Keys, Ready, Handler
<1> QED
  BY <1>3, <1>4, <1>5, <1>6, <1>8, <1>9, <1>10 DEF PlatInv

\* Stores to the comparator: the timer is not enabled yet.
LEMMA StepBootTimer ==
    ASSUME PlatInv,
           \/ T!WriteCmpHi(0) /\ Exec("boot_cmp", "boot_cmp")
           \/ T!WriteCmpLo(1) /\ Exec("boot_cmp", "boot_mask"),
           TimerIrq, NotTimer, UNCHANGED <<seen, cur, job>>
    PROVE  PlatInv'
<1>1. PICK to \in {"boot_cmp", "boot_mask"} : Exec("boot_cmp", to)
  OBVIOUS
<1>2. SamePhase("boot_cmp", to)
  BY DEF SamePhase, Labels, Ready, Handler
<1>3. HartInv' /\ pc[1] = "boot_cmp" /\ pc'[1] = to
  BY <1>1, <1>2, ExecHart DEF PlatInv
<1>4. IssInv'
  BY <1>1, <1>3, ExecIss DEF PlatInv
<1>5. PlicInv'
  BY <1>3, PlicDriven DEF PlatInv, Early, TimerIrq, Devices
<1>6. job = {} /\ timer_ctrl = FALSE /\ timer_ctrl' = FALSE /\ timer_irq' = FALSE
  BY <1>3 DEF PlatInv, ServiceInv, DeviceInv, T!WriteCmpHi, T!WriteCmpLo, T!update_irq, Ready,
     Handler
<1>7. pending' = pending \ {IRQ_TIMER} /\ claimed' = claimed
  BY <1>6 DEF TimerIrq, P!set_pending
<1>8. ServiceInv'
  BY <1>3, <1>7 DEF PlatInv, ServiceInv, Serving, Ready, Handler
<1>9. Genuine'
  BY <1>7 DEF PlatInv, Genuine, NotTimer
<1>10. DeviceInv'
  BY <1>3, <1>6 DEF PlatInv, DeviceInv, NotTimer
<1>11. NothingLost'
  BY <1>3, <1>6, <1>10 DEF NothingLost, DeviceInv, Keys
<1> QED
  BY <1>3, <1>4, <1>5, <1>8, <1>9, <1>10, <1>11 DEF PlatInv

\* The store that unmasks the changes of the pins.
LEMMA StepBootMask ==
    ASSUME PlatInv, Exec("boot_mask", "boot_in"), G!WriteMask(Keys), GpioIrq, NotGpio,
           UNCHANGED <<seen, cur, job>>
    PROVE  PlatInv'
<1>1. SamePhase("boot_mask", "boot_in")
  BY DEF SamePhase, Labels, Ready, Handler
<1>2. HartInv' /\ pc[1] = "boot_mask" /\ pc'[1] = "boot_in"
  BY <1>1, ExecHart DEF PlatInv
<1>3. IssInv'
  BY <1>2, ExecIss DEF PlatInv
<1>4. PlicInv'
  BY <1>2, PlicDriven DEF PlatInv, Early, GpioIrq, Devices
<1>5. /\ pending' = IF irq_status \cap Keys # {} THEN pending \cup {IRQ_GPIO}
                                               ELSE pending \ {IRQ_GPIO}
      /\ irq_mask' = Keys /\ UNCHANGED <<claimed, irq_status, input>>
  BY DEF GpioIrq, P!set_pending, G!WriteMask, G!check_irq
<1>6. ServiceInv'
  BY <1>2, <1>5 DEF PlatInv, ServiceInv, Serving, Ready, Handler
<1>7. Genuine'
  BY <1>5 DEF PlatInv, Genuine, NotGpio, T!Geq
<1>8. DeviceInv'
  BY <1>2, <1>5 DEF PlatInv, DeviceInv, NotGpio
<1>9. NothingLost'
  BY <1>2 DEF PlatInv, NothingLost, ServiceInv, Ready, Handler
<1> QED
  BY <1>2, <1>3, <1>4, <1>6, <1>7, <1>8, <1>9 DEF PlatInv

\* The four kinds of store together.
LEMMA StepBootDevices == PlatInv /\ BootDevices => PlatInv'
<1> SUFFICES ASSUME PlatInv, BootDevices PROVE PlatInv'
  OBVIOUS
<1>1. \/ /\ \/ (D!WriteSrc(2) \/ D!WriteDst(3)) /\ Exec("boot_dma", "boot_dma") /\ NotDma
            \/ D!WriteCount(1) /\ Exec("boot_dma", "boot_sd") /\ NotDma
            \/ S!WriteDataAddr(2) /\ Exec("boot_sd", "boot_cmp") /\ NotSd
         /\ UNCHANGED <<plicOwn, meip, seen, cur, job>>
      \/ /\ \/ T!WriteCmpHi(0) /\ Exec("boot_cmp", "boot_cmp")
            \/ T!WriteCmpLo(1) /\ Exec("boot_cmp", "boot_mask")
         /\ TimerIrq /\ NotTimer /\ UNCHANGED <<seen, cur, job>>
      \/ /\ Exec("boot_mask", "boot_in") /\ G!WriteMask(Keys) /\ GpioIrq /\ NotGpio
         /\ UNCHANGED <<seen, cur, job>>
      \/ /\ Exec("boot_in", "boot_mtvec") /\ seen' = input /\ NoDevice
         /\ UNCHANGED <<plicOwn, meip, cur, job>>
  BY DEF BootDevices
<1> QED
  BY <1>1, StepBootTransfer, StepBootTimer, StepBootMask, StepBootIn
-----------------------------------------------------------------------------
(* The timer. *)

\* After every call of update_irq the bit of the timer is its level: up exactly when
\* the timer is enabled and the deadline has passed.
LEMMA TimerBit ==
    ASSUME TimerIrq, T!update_irq, PlatInv, PlicInv', NotTimer, seen' = seen, cur' = cur,
           (timer_ctrl' <=> IRQ_TIMER \in job'), job' \in {job, job \cup {IRQ_TIMER}},
           pc'[1] = pc[1] \/ (pc[1] \in Ready /\ pc'[1] \in Ready)
    PROVE  UNCHANGED claimed /\ Genuine' /\ DeviceInv' /\ NothingLost'
<1>1. UNCHANGED claimed /\ pending' \subseteq Devices
  BY DEF TimerIrq, P!set_pending, PlicInv
<1>2. /\ IRQ_TIMER \in pending' <=> (IRQ_TIMER \in job' /\ T!Geq(time', cmp'))
      /\ \A d \in Devices \ {IRQ_TIMER} : d \in pending' <=> d \in pending
  <2>1. timer_irq' <=> (IRQ_TIMER \in job' /\ T!Geq(time', cmp'))
    BY DEF T!update_irq
  <2>2. CASE timer_irq'
    BY <2>1, <2>2 DEF TimerIrq, P!set_pending
  <2>3. CASE ~timer_irq'
    BY <2>1, <2>3 DEF TimerIrq, P!set_pending
  <2> QED
    BY <2>2, <2>3
<1>3. UNCHANGED <<irq_status, irq_mask, input, sd_status, sd_start, dma_status, dma_start,
                  vsync_pending, src_addr, dst_addr, byte_count, irq_enable, cmd, arg, data_addr,
                  alive>>
  BY DEF NotTimer
<1>4. Genuine'
  <2>1. pending' \subseteq job' \cup {IRQ_GPIO}
    BY <1>1, <1>2 DEF PlatInv, Genuine, PlicInv
  <2>2. IRQ_TIMER \in pending' => timer_ctrl' /\ T!Geq(time', cmp')
    BY <1>2
  <2> QED
    BY <1>2, <1>3, <2>1, <2>2 DEF PlatInv, Genuine, Devices, T!Geq
<1>5. DeviceInv'
  BY <1>3 DEF PlatInv, DeviceInv, Ready
<1>6. NothingLost'
  <2>1. pc'[1] = "boot_in" <=> pc[1] = "boot_in"
    BY DEF Ready
  <2>2. pc'[1] \in {"ack", "read"} <=> pc[1] \in {"ack", "read"}
    BY DEF Ready
  <2>3. \A d \in job' : d # IRQ_TIMER => d \in job /\ d \in Devices
    BY DEF PlatInv, ServiceInv
  <2>4. IRQ_TIMER \in job' => timer_ctrl' /\ (IRQ_TIMER \in pending' \/ ~T!Geq(time', cmp'))
    BY <1>2
  <2>5. IRQ_GPIO \in pending => IRQ_GPIO \in pending'
    BY <1>2 DEF Devices
  <2>6. \A d \in job' : (\/ d = IRQ_DMA /\ dma_start
                         \/ d = IRQ_SD /\ sd_start
                         \/ d = IRQ_TIMER /\ timer_ctrl /\ ~T!Geq(time, cmp)
                         \/ d \in pending
                         \/ InService(d))'
    <3> SUFFICES ASSUME NEW d \in job', d # IRQ_TIMER
                 PROVE  \/ d = IRQ_DMA /\ dma_start'
                        \/ d = IRQ_SD /\ sd_start'
                        \/ d \in pending' \/ InService(d)'
      BY <2>4 DEF T!Geq
    <3>1. d \in job /\ d \in Devices
      BY <2>3
    <3>2. \/ d = IRQ_DMA /\ dma_start
          \/ d = IRQ_SD /\ sd_start
          \/ d \in pending \/ InService(d)
      BY <3>1 DEF PlatInv, NothingLost
    <3> QED
      BY <1>1, <1>2, <1>3, <3>1, <3>2 DEF InService
  <2> QED
    BY <1>1, <1>3, <2>1, <2>2, <2>5, <2>6 DEF PlatInv, NothingLost, InService, G!Changed
<1> QED
  BY <1>1, <1>4, <1>5, <1>6

-----------------------------------------------------------------------------
(* The firmware starts the devices. *)

\* A start is noted, and the bit of the source is down.
LEMMA StepStartDma == PlatInv /\ StartDma => PlatInv'
<1> SUFFICES ASSUME PlatInv, StartDma PROVE PlatInv'
  OBVIOUS
<1>1. SamePhase("main", "main") /\ Exec("main", "main")
  BY DEF SamePhase, Labels, Ready, Handler, StartDma
<1>2. HartInv' /\ pc[1] = "main" /\ pc'[1] = "main"
  BY <1>1, ExecHart DEF PlatInv
<1>3. IssInv'
  BY <1>1, <1>2, ExecIss DEF PlatInv
<1>4. PlicInv'
  BY <1>2, PlicQuiet DEF PlatInv, StartDma
<1>5. /\ IRQ_DMA \notin job /\ job' = job \cup {IRQ_DMA} /\ IRQ_DMA \notin pending
      /\ dma_start' = TRUE /\ irq_enable' = TRUE /\ dma_start \in BOOLEAN
      /\ UNCHANGED <<src_addr, dst_addr, byte_count, dma_status, alive>>
  <2>1. IRQ_DMA \notin job /\ IRQ_DMA \notin pending /\ job' = job \cup {IRQ_DMA}
    BY DEF StartDma, PlatInv, Genuine
  <2>2. dma_start \in BOOLEAN /\ D!WriteCtrl(TRUE, TRUE)
    BY DEF StartDma, PlatInv, DeviceInv
  <2> QED
    BY <2>1, <2>2 DEF D!WriteCtrl
<1>6. ServiceInv'
  BY <1>2, <1>5 DEF PlatInv, ServiceInv, StartDma, Serving, Ready, Handler, Devices
<1>7. Genuine'
  BY <1>5 DEF PlatInv, Genuine, StartDma, NotDma, T!Geq
<1>8. DeviceInv'
  BY <1>2, <1>5 DEF PlatInv, DeviceInv, StartDma, NotDma
<1>9. NothingLost'
  BY <1>2, <1>5 DEF PlatInv, NothingLost, InService, StartDma, NotDma, T!Geq, G!Changed
<1> QED
  BY <1>2, <1>3, <1>4, <1>6, <1>7, <1>8, <1>9 DEF PlatInv

\* The same for the SD controller.
LEMMA StepStartSd == PlatInv /\ StartSd => PlatInv'
<1> SUFFICES ASSUME PlatInv, StartSd PROVE PlatInv'
  OBVIOUS
<1>1. SamePhase("main", "main") /\ Exec("main", "main")
  BY DEF SamePhase, Labels, Ready, Handler, StartSd
<1>2. HartInv' /\ pc[1] = "main" /\ pc'[1] = "main"
  BY <1>1, ExecHart DEF PlatInv
<1>3. IssInv'
  BY <1>1, <1>2, ExecIss DEF PlatInv
<1>4. PlicInv'
  BY <1>2, PlicQuiet DEF PlatInv, StartSd
<1>5. /\ IRQ_SD \notin job /\ job' = job \cup {IRQ_SD} /\ IRQ_SD \notin pending
      /\ sd_start' = TRUE
      /\ UNCHANGED <<cmd, arg, data_addr, sd_status, alive>>
  BY DEF StartSd, S!WriteSdCtrl, S!sdRegs, PlatInv, Genuine
<1>6. ServiceInv'
  BY <1>2, <1>5 DEF PlatInv, ServiceInv, StartSd, Serving, Ready, Handler, Devices
<1>7. Genuine'
  BY <1>5 DEF PlatInv, Genuine, StartSd, NotSd, T!Geq
<1>8. DeviceInv'
  BY <1>2, <1>5 DEF PlatInv, DeviceInv, StartSd, NotSd
<1>9. NothingLost'
  BY <1>2, <1>5 DEF PlatInv, NothingLost, InService, StartSd, NotSd, T!Geq, G!Changed
<1> QED
  BY <1>2, <1>3, <1>4, <1>6, <1>7, <1>8, <1>9 DEF PlatInv

\* A store to the timer gives its level to the PLIC again.
LEMMA StepArmTimer == PlatInv /\ ArmTimer => PlatInv'
<1> SUFFICES ASSUME PlatInv, ArmTimer PROVE PlatInv'
  OBVIOUS
<1>1. PICK from \in {"main", "arm"}, to \in {"main", "arm"} : Exec(from, to)
  BY DEF ArmTimer
<1>2. SamePhase(from, to)
  BY DEF SamePhase, Labels, Ready, Handler
<1>3. HartInv' /\ pc[1] = from /\ pc'[1] = to
  BY <1>1, <1>2, ExecHart DEF PlatInv
<1>4. IssInv'
  BY <1>1, <1>3, ExecIss DEF PlatInv
<1>5. PlicInv'
  BY <1>3, PlicDriven DEF PlatInv, ArmTimer, TimerIrq, Devices, Early
<1>6. (timer_ctrl' <=> IRQ_TIMER \in job') /\ job' \in {job, job \cup {IRQ_TIMER}}
  BY DEF ArmTimer, T!WriteTimeLo, T!WriteTimerCtrl, PlatInv, DeviceInv
<1>7. T!update_irq /\ TimerIrq /\ NotTimer /\ seen' = seen /\ cur' = cur
  BY DEF ArmTimer, T!WriteTimeLo, T!WriteTimerCtrl
<1>8. UNCHANGED claimed /\ Genuine' /\ DeviceInv' /\ NothingLost'
  BY <1>3, <1>5, <1>6, <1>7, TimerBit DEF Ready
<1>9. ServiceInv'
  BY <1>3, <1>6, <1>7, <1>8 DEF PlatInv, ServiceInv, Serving, Ready, Handler, Devices
<1> QED
  BY <1>3, <1>4, <1>5, <1>8, <1>9 DEF PlatInv

\* The store that swaps the buffers raises the bit itself.
LEMMA StepSwapBuffers == PlatInv /\ SwapBuffers => PlatInv'
<1> SUFFICES ASSUME PlatInv, SwapBuffers PROVE PlatInv'
  OBVIOUS
<1>1. SamePhase("main", "main") /\ Exec("main", "main")
  BY DEF SamePhase, Labels, Ready, Handler, SwapBuffers
<1>2. HartInv' /\ pc[1] = "main" /\ pc'[1] = "main"
  BY <1>1, ExecHart DEF PlatInv
<1>3. IssInv'
  BY <1>1, <1>2, ExecIss DEF PlatInv
<1>4. PlicInv'
  BY <1>2, PlicDriven DEF PlatInv, SwapBuffers, FbIrq, Devices
<1>5. /\ pending' = pending \cup {IRQ_VIDEO} /\ job' = job \cup {IRQ_VIDEO}
      /\ vsync_pending' = TRUE /\ UNCHANGED claimed
  BY DEF SwapBuffers, FbIrq, P!set_pending, F!WriteVsyncCtrl
<1>6. ServiceInv'
  BY <1>2, <1>5 DEF PlatInv, ServiceInv, SwapBuffers, Serving, Ready, Handler, Devices
<1>7. Genuine'
  BY <1>5 DEF PlatInv, Genuine, SwapBuffers, NotFb, T!Geq
<1>8. DeviceInv'
  BY <1>2, <1>5 DEF PlatInv, DeviceInv, SwapBuffers, NotFb
<1>9. NothingLost'
  BY <1>2, <1>5 DEF PlatInv, NothingLost, InService, SwapBuffers, NotFb, T!Geq, G!Changed
<1> QED
  BY <1>2, <1>3, <1>4, <1>6, <1>7, <1>8, <1>9 DEF PlatInv

-----------------------------------------------------------------------------
(* The handler. *)

\* The claim moves one pending source into service.
LEMMA StepClaim == PlatInv /\ Claim => PlatInv'
<1> SUFFICES ASSUME PlatInv, Claim PROVE PlatInv'
  OBVIOUS
<1>1. SamePhase("isr", "ack") /\ Exec("isr", "ack")
  BY DEF SamePhase, Labels, Ready, Handler, Claim
<1>2. HartInv' /\ pc[1] = "isr" /\ pc'[1] = "ack"
  BY <1>1, ExecHart DEF PlatInv
<1>3. IssInv'
  BY <1>1, <1>2, ExecIss DEF PlatInv
<1> DEFINE d == P!claim_best
<1>4. d \in P!Actionable
  BY <1>2, ClaimWins DEF PlatInv, IssInv
<1> HIDE DEF d
<1>5. d \in pending /\ d \in Devices /\ d # 0 /\ claimed = {}
  BY <1>2, <1>4 DEF P!Actionable, P!Beats, PlatInv, PlicInv, ServiceInv, Serving, Devices
<1>6. /\ cur' = d /\ claimed' = {d} /\ pending' = pending \ {d}
      /\ UNCHANGED <<priority, enabled, threshold>> /\ meip' = (P!Actionable' # {})
  BY <1>5 DEF d, Claim, P!ReadClaim, P!evaluate_irq
<1>7. PlicInv'
  BY <1>2, <1>6 DEF PlatInv, PlicInv, Claim
<1>8. ServiceInv'
  BY <1>2, <1>5, <1>6 DEF PlatInv, ServiceInv, Claim, Serving, Ready, Handler
<1>9. Genuine'
  BY <1>6 DEF PlatInv, Genuine, Claim, NoDevice, T!Geq
<1>10. DeviceInv'
  BY <1>2, <1>5, <1>6 DEF PlatInv, DeviceInv, Genuine, Claim, NoDevice
<1>11. NothingLost'
  BY <1>2, <1>5, <1>6 DEF PlatInv, NothingLost, InService, Claim, NoDevice, T!Geq, G!Changed
<1> QED
  BY <1>2, <1>3, <1>7, <1>8, <1>9, <1>10, <1>11 DEF PlatInv

\* The device takes its level back, and is no longer waited for; the pins are read next.
LEMMA StepAck == PlatInv /\ Ack => PlatInv'
<1> SUFFICES ASSUME PlatInv, Ack PROVE PlatInv'
  OBVIOUS
<1>1. PICK to \in {"read", "complete"} :
         Exec("ack", to) /\ (to = "read" <=> cur = IRQ_GPIO)
  BY DEF Ack
<1>2. SamePhase("ack", to)
  BY DEF SamePhase, Labels, Ready, Handler
<1>3. HartInv' /\ pc[1] = "ack" /\ pc'[1] = to
  BY <1>1, <1>2, ExecHart DEF PlatInv
<1>4. IssInv'
  BY <1>1, <1>3, ExecIss DEF PlatInv
<1>5. cur \in Devices /\ claimed = {cur} /\ job' = job \ {cur} /\ cur' = cur /\ seen' = seen
  BY <1>3 DEF PlatInv, ServiceInv, Serving, Ack
<1>6. \/ cur = IRQ_GPIO  /\ G!WriteGpioStatus(Keys) /\ GpioIrq /\ NotGpio
      \/ cur = IRQ_TIMER /\ T!WriteTimerCtrl(FALSE) /\ TimerIrq /\ NotTimer
      \/ cur = IRQ_SD    /\ S!WriteSdStatus /\ SdIrq(FALSE) /\ NotSd
      \/ cur = IRQ_DMA   /\ D!WriteStatus /\ DmaIrq(FALSE) /\ NotDma
      \/ cur = IRQ_VIDEO /\ F!WriteVsyncStatus /\ FbIrq /\ NotFb
  BY DEF Ack
<1> DEFINE Back == /\ PlicInv' /\ pending' = pending \ {cur} /\ claimed' = claimed
                   /\ cur # IRQ_GPIO => UNCHANGED irq_status
                   /\ cur # IRQ_TIMER => UNCHANGED timer_ctrl
                   /\ cur = IRQ_TIMER => timer_ctrl' = FALSE
                   /\ cur # IRQ_SD => UNCHANGED sd_status
                   /\ cur # IRQ_DMA => UNCHANGED dma_status
                   /\ cur # IRQ_VIDEO => UNCHANGED vsync_pending
                   /\ irq_status' \subseteq irq_status
                   /\ UNCHANGED <<time, cmp, sd_start, dma_start, irq_mask, input, src_addr,
                                  dst_addr, byte_count, irq_enable, cmd, arg, data_addr, alive>>
<1>8. Back
  <2>1. CASE cur = IRQ_GPIO  /\ G!WriteGpioStatus(Keys) /\ GpioIrq /\ NotGpio
    <3>1. PlicInv'
      BY <1>3, <2>1, PlicDriven DEF PlatInv, Early, GpioIrq, Devices
    <3>2. irq_status' = {} /\ gpio_irq' = FALSE
      BY <2>1 DEF G!WriteGpioStatus, G!check_irq, PlatInv, DeviceInv
    <3>3. pending' = pending \ {cur} /\ claimed' = claimed
      BY <2>1, <3>2 DEF GpioIrq, P!set_pending
    <3> QED
      BY <2>1, <3>1, <3>2, <3>3 DEF G!WriteGpioStatus, NotGpio
  <2>2. CASE cur = IRQ_TIMER /\ T!WriteTimerCtrl(FALSE) /\ TimerIrq /\ NotTimer
    <3>1. PlicInv'
      BY <1>3, <2>2, PlicDriven DEF PlatInv, Early, TimerIrq, Devices
    <3>2. timer_ctrl' = FALSE /\ timer_irq' = FALSE
      BY <2>2 DEF T!WriteTimerCtrl, T!update_irq
    <3>3. pending' = pending \ {cur} /\ claimed' = claimed
      BY <2>2, <3>2 DEF TimerIrq, P!set_pending
    <3> QED
      BY <2>2, <3>1, <3>2, <3>3 DEF T!WriteTimerCtrl, NotTimer
  <2>3. CASE cur = IRQ_SD    /\ S!WriteSdStatus /\ SdIrq(FALSE) /\ NotSd
    <3>1. PlicInv'
      BY <1>3, <2>3, PlicDriven DEF PlatInv, Early, SdIrq, Devices
    <3>2. pending' = pending \ {cur} /\ claimed' = claimed
      BY <2>3 DEF SdIrq, P!set_pending
    <3> QED
      BY <2>3, <3>1, <3>2 DEF S!WriteSdStatus, S!sdRegs, NotSd
  <2>4. CASE cur = IRQ_DMA   /\ D!WriteStatus /\ DmaIrq(FALSE) /\ NotDma
    <3>1. PlicInv'
      BY <1>3, <2>4, PlicDriven DEF PlatInv, Early, DmaIrq, Devices
    <3>2. pending' = pending \ {cur} /\ claimed' = claimed
      BY <2>4 DEF DmaIrq, P!set_pending
    <3> QED
      BY <2>4, <3>1, <3>2 DEF D!WriteStatus, D!regVars, NotDma
  <2>5. CASE cur = IRQ_VIDEO /\ F!WriteVsyncStatus /\ FbIrq /\ NotFb
    <3>1. PlicInv'
      BY <1>3, <2>5, PlicDriven DEF PlatInv, Early, FbIrq, Devices
    <3>2. pending' = pending \ {cur} /\ claimed' = claimed
      BY <2>5 DEF FbIrq, F!WriteVsyncStatus, P!set_pending
    <3> QED
      BY <2>5, <3>1, <3>2 DEF F!WriteVsyncStatus, NotFb
  <2> QED
    BY <1>6, <2>1, <2>2, <2>3, <2>4, <2>5
<1>7. ServiceInv'
  BY <1>1, <1>3, <1>5, <1>8 DEF PlatInv, ServiceInv, Serving, Ready, Handler
<1>9. Genuine'
  BY <1>5, <1>8 DEF PlatInv, Genuine, T!Geq
<1>10. DeviceInv'
  <2>1. (timer_ctrl' <=> IRQ_TIMER \in job')
    <3>1. timer_ctrl <=> IRQ_TIMER \in job
      BY DEF PlatInv, DeviceInv
    <3>2. CASE cur = IRQ_TIMER
      BY <1>5, <1>8, <3>2
    <3>3. CASE cur # IRQ_TIMER
      BY <1>5, <1>8, <3>1, <3>3
    <3> QED BY <3>2, <3>3
  <2>2. (dma_start' => IRQ_DMA \in job') /\ (sd_start' => IRQ_SD \in job')
    BY <1>3, <1>5, <1>8 DEF PlatInv, DeviceInv
  <2> QED
    BY <1>1, <1>3, <1>5, <1>8, <2>1, <2>2 DEF PlatInv, DeviceInv
<1>11. NothingLost'
  BY <1>1, <1>3, <1>5, <1>8 DEF PlatInv, NothingLost, InService, T!Geq, G!Changed
<1> QED
  BY <1>3, <1>4, <1>7, <1>8, <1>9, <1>10, <1>11 DEF PlatInv

\* The completion ends the service of a source that is no longer waited for.
LEMMA StepComplete == PlatInv /\ Complete => PlatInv'
<1> SUFFICES ASSUME PlatInv, Complete PROVE PlatInv'
  OBVIOUS
<1>1. SamePhase("complete", "mret") /\ Exec("complete", "mret")
  BY DEF SamePhase, Labels, Ready, Handler, Complete
<1>2. HartInv' /\ pc[1] = "complete" /\ pc'[1] = "mret"
  BY <1>1, ExecHart DEF PlatInv
<1>3. IssInv'
  BY <1>1, <1>2, ExecIss DEF PlatInv
<1>4. cur \in Devices /\ claimed = {cur} /\ cur \notin job /\ cur < 6
  BY <1>2 DEF PlatInv, ServiceInv, Serving, Devices
<1>5. /\ claimed' = {} /\ cur' = 0 /\ UNCHANGED <<priority, pending, enabled, threshold>>
      /\ meip' = (P!Actionable' # {})
  BY <1>4 DEF Complete, P!WriteComplete, P!evaluate_irq
<1>6. PlicInv'
  BY <1>2, <1>5 DEF PlatInv, PlicInv
<1>7. ServiceInv'
  BY <1>2, <1>5 DEF PlatInv, ServiceInv, Complete, Serving, Ready, Handler
<1>8. Genuine'
  BY <1>5 DEF PlatInv, Genuine, Complete, NoDevice, T!Geq
<1>9. DeviceInv'
  BY <1>2, <1>5 DEF PlatInv, DeviceInv, Complete, NoDevice
<1>10. NothingLost'
  BY <1>2, <1>4, <1>5 DEF PlatInv, NothingLost, InService, Complete, NoDevice, T!Geq, G!Changed
<1> QED
  BY <1>2, <1>3, <1>6, <1>7, <1>8, <1>9, <1>10 DEF PlatInv

-----------------------------------------------------------------------------
(* The other threads run while the ISS has yielded. *)

\* Such a step leaves the hart where it is and may wake it from a WFI.
LEMMA Elsewhere ==
    ASSUME HartInv, IssInv, cpu # "run", UNCHANGED <<hartCore, used>>, notify_wfi \/ cpu' = cpu
    PROVE  HartInv' /\ IssInv' /\ pc' = pc
<1>1. HartInv' /\ pc' = pc
  BY DEF HartInv, hartCore
<1> QED
  BY <1>1 DEF IssInv, notify_wfi

\* A transfer the firmware starts does not abort, so that its end is always reported.
LEMMA StepDmaRun == PlatInv /\ DmaRun => PlatInv'
<1> SUFFICES ASSUME PlatInv, DmaRun PROVE PlatInv'
  OBVIOUS
<1>1. /\ dma_start /\ dma_start' = FALSE /\ dma_status' \in {D!DONE, D!DONE_ERROR}
      /\ alive' = alive /\ UNCHANGED <<src_addr, dst_addr, byte_count, irq_enable>>
  BY DmaNoAbort DEF PlatInv, DeviceInv, DmaRun, D!dma_thread, D!Report, D!regVars
<1>2. irq_enable /\ IRQ_DMA \in job /\ alive = TRUE
  BY <1>1 DEF PlatInv, DeviceInv
<1>3. DmaIrq(TRUE) /\ notify_wfi
  BY <1>1, <1>2 DEF DmaRun
<1>4. HartInv' /\ IssInv' /\ pc' = pc
  BY <1>3, Elsewhere DEF PlatInv, DmaRun
<1>5. PlicInv'
  BY <1>3, <1>4, PlicDriven DEF PlatInv, DmaIrq, Devices
<1>6. pending' = pending \cup {IRQ_DMA} /\ claimed' = claimed
  BY <1>3 DEF DmaIrq, P!set_pending
<1>7. ServiceInv'
  BY <1>4, <1>6 DEF PlatInv, ServiceInv, DmaRun
<1>8. Genuine'
  BY <1>1, <1>2, <1>6 DEF PlatInv, Genuine, DmaRun, NotDma, T!Geq, D!DONE, D!DONE_ERROR
<1>9. DeviceInv'
  BY <1>1, <1>2, <1>4 DEF PlatInv, DeviceInv, DmaRun, NotDma
<1>10. NothingLost'
  BY <1>4, <1>6 DEF PlatInv, NothingLost, InService, DmaRun, NotDma, T!Geq, G!Changed
<1> QED
  BY <1>4, <1>5, <1>7, <1>8, <1>9, <1>10 DEF PlatInv

\* The same for the SD controller.
LEMMA StepSdRun == PlatInv /\ SdRun => PlatInv'
<1> SUFFICES ASSUME PlatInv, SdRun PROVE PlatInv'
  OBVIOUS
<1>1. /\ sd_start /\ sd_start' = FALSE /\ sd_status' \in {S!SD_DONE, S!SD_DONE_ERROR}
      /\ alive' = alive /\ UNCHANGED <<cmd, arg, data_addr>>
  BY SdNoAbort DEF PlatInv, DeviceInv, SdRun, S!transfer_thread, S!SdReport, S!sdRegs
<1>2. IRQ_SD \in job /\ alive = TRUE
  BY <1>1 DEF PlatInv, DeviceInv
<1>3. SdIrq(TRUE) /\ notify_wfi
  BY <1>1, <1>2 DEF SdRun
<1>4. HartInv' /\ IssInv' /\ pc' = pc
  BY <1>3, Elsewhere DEF PlatInv, SdRun
<1>5. PlicInv'
  BY <1>3, <1>4, PlicDriven DEF PlatInv, SdIrq, Devices
<1>6. pending' = pending \cup {IRQ_SD} /\ claimed' = claimed
  BY <1>3 DEF SdIrq, P!set_pending
<1>7. ServiceInv'
  BY <1>4, <1>6 DEF PlatInv, ServiceInv, SdRun
<1>8. Genuine'
  BY <1>1, <1>2, <1>6 DEF PlatInv, Genuine, SdRun, NotSd, T!Geq, S!SD_DONE, S!SD_DONE_ERROR
<1>9. DeviceInv'
  BY <1>1, <1>2, <1>4 DEF PlatInv, DeviceInv, SdRun, NotSd
<1>10. NothingLost'
  BY <1>4, <1>6 DEF PlatInv, NothingLost, InService, SdRun, NotSd, T!Geq, G!Changed
<1> QED
  BY <1>4, <1>5, <1>7, <1>8, <1>9, <1>10 DEF PlatInv

\* A tick may raise the bit of a timer that is being served; it is awaited still.
LEMMA StepTimerRun == PlatInv /\ TimerRun => PlatInv'
<1> SUFFICES ASSUME PlatInv, TimerRun PROVE PlatInv'
  OBVIOUS
<1>1. HartInv' /\ IssInv' /\ pc' = pc
  BY Elsewhere DEF PlatInv, TimerRun
<1>2. PlicInv'
  BY <1>1, PlicDriven DEF PlatInv, TimerRun, TimerIrq, Devices
<1>3. (timer_ctrl' <=> IRQ_TIMER \in job') /\ job' = job
  BY DEF TimerRun, T!Tick, PlatInv, DeviceInv
<1>4. T!update_irq /\ TimerIrq /\ NotTimer /\ seen' = seen /\ cur' = cur
  BY DEF TimerRun, T!Tick
<1>5. UNCHANGED claimed /\ Genuine' /\ DeviceInv' /\ NothingLost'
  BY <1>1, <1>2, <1>3, <1>4, TimerBit
<1>6. ServiceInv'
  BY <1>1, <1>3, <1>4, <1>5 DEF PlatInv, ServiceInv
<1> QED
  BY <1>1, <1>2, <1>5, <1>6 DEF PlatInv

\* A change of a pin is latched once the mask lets it through.
LEMMA StepHostInput == PlatInv /\ HostInput => PlatInv'
<1> SUFFICES ASSUME PlatInv, HostInput PROVE PlatInv'
  OBVIOUS
<1>1. HartInv' /\ IssInv' /\ pc' = pc
  BY Elsewhere DEF PlatInv, HostInput
<1>2. PlicInv'
  BY <1>1, PlicDriven DEF PlatInv, HostInput, GpioIrq, Devices
<1>3. /\ pending' = IF irq_status' \cap irq_mask # {} THEN pending \cup {IRQ_GPIO}
                                                      ELSE pending \ {IRQ_GPIO}
      /\ UNCHANGED <<claimed, irq_mask>>
      /\ input' # input /\ input' \subseteq Keys
      /\ irq_status' = irq_status \cup (G!Changed(input, input') \cap irq_mask)
  BY DEF HostInput, GpioIrq, P!set_pending, G!set_input, G!check_irq
<1>4. ServiceInv'
  BY <1>1, <1>3 DEF PlatInv, ServiceInv, HostInput
<1>5. Genuine'
  BY <1>3 DEF PlatInv, Genuine, HostInput, NotGpio, T!Geq
<1>6. DeviceInv'
  <2>1. irq_status' \subseteq Keys
    BY <1>3 DEF PlatInv, DeviceInv
  <2> QED
    BY <1>1, <1>3, <2>1 DEF PlatInv, DeviceInv, HostInput, NotGpio
<1>7. NothingLost'
  <2>1. irq_mask = Keys => irq_status' = Keys /\ IRQ_GPIO \in pending'
    <3> SUFFICES ASSUME irq_mask = {0} PROVE irq_status' = {0} /\ IRQ_GPIO \in pending'
      BY DEF Keys
    <3>1. G!Changed(input, input') = {0}
      <4>1. input \in {{}, {0}} /\ input' \in {{}, {0}} /\ input # input'
        BY <1>3 DEF PlatInv, DeviceInv, Keys
      <4> QED
        BY <4>1 DEF G!Changed
    <3>2. irq_status' = {0}
      BY <1>3, <3>1 DEF PlatInv, DeviceInv, Keys
    <3> QED
      BY <1>3, <3>2
  <2>2. G!Changed(input', seen') \subseteq Keys
    BY <1>6 DEF DeviceInv, G!Changed
  <2>3. /\ \A d \in job : d \in pending => d \in pending'
        /\ UNCHANGED <<job, dma_start, sd_start, timer_ctrl, time, cmp, cur, claimed, irq_mask>>
    BY <1>3 DEF PlatInv, ServiceInv, HostInput, NotGpio
  <2> QED
    BY <1>1, <2>1, <2>2, <2>3 DEF PlatInv, NothingLost, InService, T!Geq
<1> QED
  BY <1>1, <1>2, <1>4, <1>5, <1>6, <1>7 DEF PlatInv
-----------------------------------------------------------------------------
(* The theorems. *)

\* At reset nothing is enabled, pending or awaited.
LEMMA PlatInit == Init => PlatInv
<1> SUFFICES ASSUME Init PROVE PlatInv
  OBVIOUS
<1>1. HartInv
  BY DEF Init, H!Init, HartInv, Labels, Ready, Handler
<1>2. IssInv
  BY <1>1 DEF Init, H!Init, IssInv
<1>3. P!Actionable = {} /\ pc[1] = "boot_prio"
  BY DEF Init, H!Init, P!Init, P!Actionable, P!Beats
<1>4. PlicInv
  BY <1>3 DEF Init, P!Init, PlicInv, P!Ids
<1>5. ServiceInv
  BY <1>3 DEF Init, P!Init, ServiceInv, Serving
<1>6. Genuine
  BY DEF Init, P!Init, Genuine
<1>7. DeviceInv
  BY <1>3 DEF Init, T!Init, G!Init, D!Init, S!SdInit, DeviceInv
<1>8. NothingLost
  BY DEF Init, G!Init, NothingLost, Keys
<1> QED
  BY <1>1, <1>2, <1>4, <1>5, <1>6, <1>7, <1>8 DEF PlatInv

\* Every step preserves the invariant.
LEMMA PlatStep == PlatInv /\ [Next]_platVars => PlatInv'
<1> SUFFICES ASSUME PlatInv, [Next]_platVars PROVE PlatInv'
  OBVIOUS
<1>1. CASE IssStep
  BY <1>1, StepBootPlic, StepBootDevices, StepBootHart, StepStartDma, StepStartSd,
     StepArmTimer, StepSwapBuffers, StepCompute, StepWfi, StepClaim, StepAck, StepReadPins,
     StepComplete, StepMret, StepTakeInterrupt DEF IssStep
<1>2. CASE UNCHANGED platVars
  <2>1. HartInv' /\ IssInv' /\ pc' = pc
    <3>1. UNCHANGED plicOwn /\ UNCHANGED hartCore /\ UNCHANGED <<cpu, used>>
      BY <1>2 DEF platVars, issVars
    <3>2. HartInv' /\ pc' = pc
      BY <3>1 DEF PlatInv, HartInv, hartCore
    <3> QED
      BY <3>1, <3>2, LineKept DEF PlatInv, IssInv
  <2> QED
    BY <1>2, <2>1, Quiet DEF PlatInv, Calm, platVars, issVars, NoDevice
<1> QED
  BY <1>1, <1>2, StepSynced, StepWfiReturn, StepDmaRun, StepSdRun, StepTimerRun, StepHostInput
     DEF Next

\* The phases of the firmware and the causes of the pending bits, wherever the quantum
\* ends (PlatInv).
THEOREM PlatformInvariant == Spec => []PlatInv
<1> QED
  BY PlatInit, PlatStep, PTL DEF Spec

\* No interrupt is lost between the device, the PLIC and the handler (NothingLost).
THEOREM PlatformNothingLost == Spec => []NothingLost
<1>1. PlatInv => NothingLost
  BY DEF PlatInv
<1> QED
  BY <1>1, PlatformInvariant, PTL

\* The handler is never entered for nothing (ClaimFindsWork): what wins the claim is
\* pending, and a pending bit has its cause in the device.
THEOREM PlatformClaimFindsWork == Spec => []ClaimFindsWork
<1>1. PlatInv => ClaimFindsWork
  <2> SUFFICES ASSUME PlatInv, pc[1] = "isr" PROVE ClaimFindsWork
    BY DEF ClaimFindsWork
  <2>1. P!claim_best \in P!Actionable
    BY ClaimWins DEF PlatInv, IssInv
  <2>2. P!claim_best \in pending
    BY <2>1 DEF P!Actionable, P!Beats
  <2> QED
    BY <2>2 DEF ClaimFindsWork, PlatInv, Genuine
<1> QED
  BY <1>1, PlatformInvariant, PTL
=============================================================================
