------------------------------ MODULE Platform ------------------------------
(***************************************************************************)
(* The platform of src/src/platform/gamingcpu_vp.cpp: the hart, the PLIC   *)
(* and five devices, joined by the callback wiring and scheduled by the    *)
(* SystemC kernel.  The threads are cooperative: ISS::run keeps the        *)
(* processor until its quantum is used up or a WFI waits, and only then do *)
(* dma_thread, transfer_thread, the timer's tick_thread and the host run.  *)
(* A delta notification (a start written by the program) is served before  *)
(* time advances.  The framebuffer controller has no thread: it raises its *)
(* line inside the store that swaps the buffers.                           *)
(*                                                                         *)
(* The program is interrupt-driven firmware: it configures the PLIC, the   *)
(* devices and the hart, starts transfers, arms the timer, swaps buffers   *)
(* and sleeps in WFI; its handler claims, acknowledges the device,         *)
(* completes and returns.  Labels of the firmware are the code addresses   *)
(* of the hart.                                                            *)
(***************************************************************************)
EXTENDS Integers, FiniteSets

CONSTANTS Quantum,      \* instructions per quantum (10000)
          MaxTime       \* bound: ticks of the timer after it is set to zero

ASSUME PlatformAssumption == Quantum \in Nat \ {0} /\ MaxTime \in 1 .. 2

\* The hart; mtip and msip stay low, the firmware does not use the CLINT.
VARIABLES priv, pc, mstatus, mpp, mie, mideleg, medeleg, swmip, meip, mtip, msip,
          mtvec, stvec, mepc, sepc, mcause, scause
\* The interrupt controller; meip is the bit of mip it drives.
VARIABLES priority, pending, enabled, threshold, claimed
\* The devices.
VARIABLES time, cmp, timer_ctrl, timer_irq,
          input, irq_mask, irq_status, gpio_irq,
          active_buf, vsync_pending, fb_irq,
          src_addr, dst_addr, byte_count, irq_enable, dma_status, dma_start, dma_irq,
          cmd, arg, data_addr, burst_len, sd_status, sd_start, sd_irq, card_good
\* The memory the bus masters share.
VARIABLES mem, alive
\* The ISS thread and the firmware.
VARIABLES cpu,          \* "run", "sync" in qk.sync(), "wfi_sync" in the qk.sync() of a
                        \* WFI, "wfi" in its timed wait, "woken" by wfi_event_
          used,         \* local time of the quantum keeper, in instructions
          cur,          \* the id the handler claimed
          job,          \* the sources whose interrupt the firmware waits for
          seen          \* the input pins as the firmware last read them

Labels == {"boot_prio", "boot_en", "boot_dma", "boot_sd", "boot_cmp", "boot_mask", "boot_in",
           "boot_mtvec", "boot_mie", "boot_on",
           "main", "arm", "wfi", "isr", "ack", "read", "complete", "mret"}

\* The sources of platform_config.h, without the UART and the audio output, in
\* the same order.
IRQ_GPIO  == 1
IRQ_TIMER == 2
IRQ_SD    == 3
IRQ_DMA   == 4
IRQ_VIDEO == 5
Devices == {IRQ_GPIO, IRQ_TIMER, IRQ_SD, IRQ_DMA, IRQ_VIDEO}

\* The host's pins.
Keys == {0}

H == INSTANCE Hart WITH Code <- Labels, ResetPC <- "boot_prio", NullPC <- "boot_prio",
       Ints <- {11}, Excs <- {}, TvecModes <- {0}, StatusWrites <- {{"MIE"}},
       Csrs <- {"mstatus", "mie", "mtvec"}, Lines <- {3, 7, 11}
P == INSTANCE PLIC WITH NumSources <- 6, WordBits <- 6, MaxPrio <- 3, MaxWrite <- 3
T == INSTANCE Timer WITH Half <- 3, ctrl <- timer_ctrl, irq <- timer_irq
G == INSTANCE Gpio WITH Pins <- Keys, irq <- gpio_irq
F == INSTANCE FbCtrl WITH irq <- fb_irq
D == INSTANCE Dma WITH Rom <- [lo |-> 0, hi |-> 0], Ram <- [lo |-> 2, hi |-> 3], Space <- 5,
       Bytes <- {1}, BurstSize <- 1, Counts <- {1},
       status <- dma_status, start_event <- dma_start, irq <- dma_irq
S == INSTANCE SdCtrl WITH Rom <- [lo |-> 0, hi |-> 0], Ram <- [lo |-> 2, hi |-> 3],
       Space <- 5, Bytes <- {1}, BlockSize <- 1, Image <- [b \in {0} |-> [j \in {0} |-> 1]],
       Blocks <- {0, 1}, HasCard <- TRUE

hartCore == <<priv, pc, mstatus, mpp, mie, mideleg, medeleg, swmip, mtip, msip, mtvec,
              stvec, mepc, sepc, mcause, scause>>
plicOwn  == <<priority, pending, enabled, threshold, claimed>>
timerOwn == <<time, cmp, timer_ctrl, timer_irq>>
gpioOwn  == <<input, irq_mask, irq_status, gpio_irq>>
fbOwn    == <<active_buf, vsync_pending, fb_irq>>
dmaOwn   == <<src_addr, dst_addr, byte_count, irq_enable, dma_status, dma_start, dma_irq>>
sdOwn    == <<cmd, arg, data_addr, burst_len, sd_status, sd_start, sd_irq, card_good>>
memVars  == <<mem, alive>>
issVars  == <<cpu, used, cur, job, seen>>
platVars == <<hartCore, meip, plicOwn, timerOwn, gpioOwn, fbOwn, dmaOwn, sdOwn, memVars,
              issVars>>

\* A step of one device leaves the others alone.
NotTimer == UNCHANGED <<gpioOwn, fbOwn, dmaOwn, sdOwn, memVars>>
NotGpio  == UNCHANGED <<timerOwn, fbOwn, dmaOwn, sdOwn, memVars>>
NotFb    == UNCHANGED <<timerOwn, gpioOwn, dmaOwn, sdOwn, memVars>>
NotDma   == UNCHANGED <<timerOwn, gpioOwn, fbOwn, sdOwn>>
NotSd    == UNCHANGED <<timerOwn, gpioOwn, fbOwn, dmaOwn>>
NoDevice == UNCHANGED <<timerOwn, gpioOwn, fbOwn, dmaOwn, sdOwn, memVars>>
-----------------------------------------------------------------------------
(* The wiring: every on_irq is a set_pending of the PLIC, whose own callback *)
(* sets mip.MEIP and notifies wfi_event_.                                    *)

TimerIrq == P!set_pending(IRQ_TIMER, timer_irq')
GpioIrq  == P!set_pending(IRQ_GPIO, gpio_irq')
FbIrq    == P!set_pending(IRQ_VIDEO, fb_irq')
DmaIrq(level) == P!set_pending(IRQ_DMA, level)
SdIrq(level)  == P!set_pending(IRQ_SD, level)

\* notify_wfi(): an immediate notification, which only reaches a thread that is
\* already waiting for it.
notify_wfi == cpu' = IF cpu = "wfi" THEN "woken" ELSE cpu

\* Nothing is scheduled for the next delta cycle, so time may advance.
Settled == ~dma_start /\ ~sd_start
-----------------------------------------------------------------------------
(* The ISS thread: one instruction of the firmware. *)

At(l) == cpu = "run" /\ pc[1] = l /\ H!check_pending_interrupts = 0
Jump(l) == pc' = <<l, 0>>

\* qk.inc() and qk.need_sync() at the end of an instruction.
EndInstr ==
    IF used + 1 >= Quantum THEN cpu' = "sync" /\ used' = 0
                           ELSE cpu' = "run" /\ used' = used + 1

\* An instruction that stores to a device or computes; which device is changed
\* is said by the caller.
Exec(from, to) == At(from) /\ H!Ordinary /\ Jump(to) /\ UNCHANGED <<mtip, msip>> /\ EndInstr

\* The firmware sets up the PLIC.  Host input ranks lowest: the host may change a
\* pin in every quantum, and would starve a source that does not rank higher.
Ranks(d) == CASE d = IRQ_GPIO -> {1} [] d = IRQ_VIDEO -> {2, 3} [] OTHER -> {2}

BootPlic ==
    /\ \/ \E d \in Devices :
             /\ priority[d] = 0 /\ \A e \in Devices : e < d => priority[e] # 0
             /\ Exec("boot_prio", IF d = IRQ_VIDEO THEN "boot_en" ELSE "boot_prio")
             /\ \E p \in Ranks(d) : P!WritePriority(d, p)
       \/ Exec("boot_en", "boot_dma") /\ P!WriteEnable(Devices)
    /\ NoDevice /\ UNCHANGED <<cur, job, seen>>

\* Then the devices; what the pins are is read after their changes are unmasked.
BootDevices ==
    /\ \/ /\ At("boot_dma")
          /\ \/ src_addr = 0 /\ Exec("boot_dma", "boot_dma") /\ D!WriteSrc(2)
             \/ src_addr # 0 /\ dst_addr = 0 /\ Exec("boot_dma", "boot_dma") /\ D!WriteDst(3)
             \/ dst_addr # 0 /\ Exec("boot_dma", "boot_sd") /\ D!WriteCount(1)
          /\ NotDma /\ UNCHANGED <<plicOwn, meip, seen>>
       \/ /\ Exec("boot_sd", "boot_cmp") /\ S!WriteDataAddr(2)
          /\ NotSd /\ UNCHANGED <<plicOwn, meip, seen>>
       \/ /\ At("boot_cmp")
          /\ \/ cmp.hi # 0 /\ Exec("boot_cmp", "boot_cmp") /\ T!WriteCmpHi(0)
             \/ cmp.hi = 0 /\ Exec("boot_cmp", "boot_mask") /\ T!WriteCmpLo(1)
          /\ TimerIrq /\ NotTimer /\ UNCHANGED seen
       \/ /\ Exec("boot_mask", "boot_in") /\ G!WriteMask(Keys) /\ GpioIrq
          /\ NotGpio /\ UNCHANGED seen
       \/ /\ Exec("boot_in", "boot_mtvec") /\ seen' = input
          /\ NoDevice /\ UNCHANGED <<plicOwn, meip>>
    /\ UNCHANGED <<cur, job>>

\* At last the hart.
BootHart ==
    /\ \/ At("boot_mtvec") /\ H!WriteMtrap /\ mtvec'.base = "isr" /\ Jump("boot_mie")
       \/ At("boot_mie") /\ H!WriteEnables /\ mie' = {11} /\ Jump("boot_on")
       \/ At("boot_on") /\ H!WriteMstatus /\ mpp' = 0 /\ Jump("main")
    /\ EndInstr
    /\ NoDevice /\ UNCHANGED <<plicOwn, cur, job, seen>>

\* The firmware starts what it is not already waiting for.
StartDma ==
    /\ IRQ_DMA \notin job /\ job' = job \cup {IRQ_DMA}
    /\ Exec("main", "main") /\ D!WriteCtrl(TRUE, TRUE)
    /\ NotDma /\ UNCHANGED <<plicOwn, meip, cur, seen>>

StartSd ==
    /\ IRQ_SD \notin job /\ job' = job \cup {IRQ_SD}
    /\ Exec("main", "main") /\ S!WriteSdCtrl
    /\ NotSd /\ UNCHANGED <<plicOwn, meip, cur, seen>>

\* The timer is armed by two stores: it counts from zero, and is enabled.
ArmTimer ==
    /\ \/ /\ IRQ_TIMER \notin job /\ UNCHANGED job
          /\ Exec("main", "arm") /\ T!WriteTimeLo(0)
       \/ /\ job' = job \cup {IRQ_TIMER}
          /\ Exec("arm", "main") /\ T!WriteTimerCtrl(TRUE)
    /\ TimerIrq
    /\ NotTimer /\ UNCHANGED <<cur, seen>>

\* The store of VSYNC_CTRL raises the line before the next instruction.
SwapBuffers ==
    /\ IRQ_VIDEO \notin job /\ job' = job \cup {IRQ_VIDEO}
    /\ Exec("main", "main") /\ F!WriteVsyncCtrl /\ FbIrq
    /\ NotFb /\ UNCHANGED <<cur, seen>>

\* The program computes, or decides to sleep.
Compute ==
    /\ Exec("main", "main") \/ Exec("main", "wfi")
    /\ NoDevice /\ UNCHANGED <<plicOwn, meip, cur, job, seen>>

\* WFI: first qk.sync(), then the timed wait, then the next instruction.
Wfi ==
    /\ At("wfi")
    /\ cpu' = "wfi_sync" /\ used' = 0
    /\ NoDevice /\ UNCHANGED <<hartCore, meip, plicOwn, cur, job, seen>>

\* The handler: claim, acknowledge the device, complete, return.
Claim ==
    /\ Exec("isr", "ack") /\ P!ReadClaim
    /\ cur' = P!claim_best
    /\ NoDevice /\ UNCHANGED <<job, seen>>

\* The timer is stopped, and the changed pins are cleared before they are read.
Ack ==
    /\ Exec("ack", IF cur = IRQ_GPIO THEN "read" ELSE "complete")
    /\ \/ cur = IRQ_GPIO  /\ G!WriteGpioStatus(Keys) /\ GpioIrq /\ NotGpio
       \/ cur = IRQ_TIMER /\ T!WriteTimerCtrl(FALSE) /\ TimerIrq /\ NotTimer
       \/ cur = IRQ_SD    /\ S!WriteSdStatus /\ SdIrq(FALSE) /\ NotSd
       \/ cur = IRQ_DMA   /\ D!WriteStatus /\ DmaIrq(FALSE) /\ NotDma
       \/ cur = IRQ_VIDEO /\ F!WriteVsyncStatus /\ FbIrq /\ NotFb
    /\ job' = job \ {cur}
    /\ UNCHANGED <<cur, seen>>

ReadPins ==
    /\ Exec("read", "complete") /\ seen' = input
    /\ NoDevice /\ UNCHANGED <<plicOwn, meip, cur, job>>

Complete ==
    /\ Exec("complete", "mret") /\ P!WriteComplete(cur)
    /\ cur' = 0
    /\ NoDevice /\ UNCHANGED <<job, seen>>

Mret ==
    /\ At("mret") /\ H!Mret /\ EndInstr
    /\ NoDevice /\ UNCHANGED <<plicOwn, cur, job, seen>>

\* The loop of run() takes a pending interrupt before it fetches; no time passes.
TakeInterrupt ==
    /\ cpu = "run" /\ H!check_pending_interrupts # 0
    /\ H!take_trap(TRUE, H!check_pending_interrupts)
    /\ NoDevice /\ UNCHANGED <<plicOwn, issVars>>

IssStep == BootPlic \/ BootDevices \/ BootHart \/ StartDma \/ StartSd \/ ArmTimer
           \/ SwapBuffers \/ Compute \/ Wfi \/ Claim \/ Ack \/ ReadPins \/ Complete
           \/ Mret \/ TakeInterrupt
-----------------------------------------------------------------------------
(* The kernel resumes the ISS, or runs another thread while it waits. *)

\* The wait of qk.sync() ends; a WFI goes on to its second wait.  Local time may
\* be zero in a WFI, and then its first wait is a delta cycle only.
Synced ==
    /\ \/ cpu = "sync" /\ Settled /\ cpu' = "run"
       \/ cpu = "wfi_sync" /\ cpu' = "wfi"
    /\ NoDevice /\ UNCHANGED <<hartCore, meip, plicOwn, used, cur, job, seen>>

\* Mutant of WfiReturn: the wait goes on until an interrupt is pending.
WfiReturn_Pending ==
    /\ cpu = "woken" /\ H!check_pending_interrupts # 0
    /\ EndInstr
    /\ Jump("main") /\ H!Ordinary
    /\ NoDevice /\ UNCHANGED <<meip, mtip, msip, plicOwn, cur, job, seen>>

\* wait(quantum, wfi_event_) returns: notified, or timed out.
WfiReturn ==
    /\ cpu = "woken" \/ (cpu = "wfi" /\ Settled)
    /\ EndInstr
    /\ Jump("main") /\ H!Ordinary
    /\ NoDevice /\ UNCHANGED <<meip, mtip, msip, plicOwn, cur, job, seen>>

\* dma_thread and transfer_thread raise their line as their last act.
DmaRun ==
    /\ cpu # "run" /\ alive
    /\ D!dma_thread
    /\ IF irq_enable /\ alive' THEN DmaIrq(TRUE) /\ notify_wfi
                               ELSE UNCHANGED <<plicOwn, meip, cpu>>
    /\ NotDma /\ UNCHANGED <<hartCore, used, cur, job, seen>>

SdRun ==
    /\ cpu # "run" /\ alive
    /\ S!transfer_thread
    /\ IF alive' THEN SdIrq(TRUE) /\ notify_wfi ELSE UNCHANGED <<plicOwn, meip, cpu>>
    /\ NotSd /\ UNCHANGED <<hartCore, used, cur, job, seen>>

\* tick_thread of the timer.  Every tick reaches the PLIC and the hart, expired
\* or not.  Bound: the low half of the time is not passed.
TimerRun ==
    /\ cpu # "run" /\ Settled
    /\ time.lo < MaxTime
    /\ T!Tick /\ TimerIrq /\ notify_wfi
    /\ NotTimer /\ UNCHANGED <<hartCore, used, cur, job, seen>>

\* The host changes the pins.
HostInput ==
    /\ cpu # "run"
    /\ \E pins \in SUBSET Keys : pins # input /\ G!set_input(pins)
    /\ GpioIrq /\ notify_wfi
    /\ NotGpio /\ UNCHANGED <<hartCore, used, cur, job, seen>>
-----------------------------------------------------------------------------
Init ==
    /\ H!Init /\ P!Init /\ T!Init /\ G!Init /\ F!Init /\ D!Init /\ S!SdInit
    /\ cpu = "run" /\ used = 0 /\ cur = 0 /\ job = {} /\ seen = {}

Next == IssStep \/ Synced \/ WfiReturn \/ DmaRun \/ SdRun \/ TimerRun \/ HostInput

\* The ISS keeps executing while it has the processor; the kernel runs every
\* thread whose event has been notified or whose time has come.  The timer's
\* next tick is an instant of simulated time, which every sync moves on: it is
\* reached although the ISS takes the processor back again and again.  The host
\* may change the pins as often as it likes, or never.
Fairness ==
    /\ WF_platVars(IssStep) /\ WF_platVars(Synced) /\ WF_platVars(WfiReturn)
    /\ WF_platVars(DmaRun) /\ WF_platVars(SdRun) /\ SF_platVars(TimerRun)

Spec == Init /\ [][Next]_platVars /\ Fairness
-----------------------------------------------------------------------------
\* Being served: claimed by the handler that is running.
InService(d) == d \in claimed /\ d = cur

\* No interrupt is lost between the device, the PLIC and the handler, wherever
\* the quantum ends: what the firmware waits for is still to come from the
\* device, or pending in the PLIC, or in service; and a pin that differs from
\* what the firmware has read has been latched and is pending, or will be read
\* by the handler that is running.
NothingLost ==
    /\ \A d \in job :
          \/ d = IRQ_DMA /\ dma_start
          \/ d = IRQ_SD /\ sd_start
          \/ d = IRQ_TIMER /\ timer_ctrl /\ ~T!Geq(time, cmp)
          \/ d \in pending
          \/ InService(d)
    /\ irq_mask = Keys /\ pc[1] # "boot_in" /\ input # seen =>
          \/ IRQ_GPIO \in pending /\ G!Changed(input, seen) \subseteq irq_status
          \/ InService(IRQ_GPIO) /\ pc[1] \in {"ack", "read"}

\* The handler is never entered for nothing: when it reads the claim register
\* some source wins, and the device it belongs to has something to acknowledge.
\* A level that is given to the PLIC once more while the source is in service
\* must have been taken back by the time it is completed.
ClaimFindsWork ==
    pc[1] = "isr" =>
        /\ P!claim_best \in job \cup {IRQ_GPIO}
        /\ P!claim_best = IRQ_GPIO => irq_status # {}
        /\ P!claim_best = IRQ_TIMER => timer_ctrl /\ T!Geq(time, cmp)
        /\ P!claim_best = IRQ_SD => sd_status # 0
        /\ P!claim_best = IRQ_DMA => dma_status # 0
        /\ P!claim_best = IRQ_VIDEO => vsync_pending

\* What was started is served and a changed pin is noticed, wherever the quantum
\* ends and whatever the other devices and the host do.
JobServed ==
    /\ \A d \in Devices : (d \in job) ~> (d \notin job)
    /\ (input # seen) ~> (input = seen)

\* WFI returns, although the notification may come while the ISS is still in
\* qk.sync() and reach nobody.
WfiReturns == (cpu \in {"wfi_sync", "wfi", "woken"}) ~> (cpu \in {"run", "sync"})
-----------------------------------------------------------------------------
(* What makes NothingLost and ClaimFindsWork inductive: the phases of the    *)
(* firmware, and for each device what its bit of pending_ stands for.        *)

Ready   == {"main", "arm", "wfi"}               \* interrupts are enabled
Handler == {"isr", "ack", "read", "complete", "mret"}
Serving == {"ack", "read", "complete"}          \* a source has been claimed

\* Interrupts are enabled in the main loop only, and return to it.
HartInv ==
    /\ priv = H!PRV_M /\ mideleg = {} /\ swmip = {} /\ mtip = FALSE /\ msip = FALSE
    /\ pc \in Labels \X {0}
    /\ pc[1] \in Ready \cup Handler \cup {"boot_mie", "boot_on"}
         => mtvec = [base |-> "isr", mode |-> 0]
    /\ pc[1] \in Ready \cup Handler \cup {"boot_on"} => mie = {11}
    /\ "MIE" \in mstatus <=> pc[1] \in Ready
    /\ pc[1] \in Handler => "MPIE" \in mstatus /\ mpp = H!PRV_M /\ mepc \in Ready \X {0}

\* The handler is entered with the processor and with something to claim.
IssInv ==
    /\ used \in Nat
    /\ cpu \in {"run", "sync", "wfi_sync", "wfi", "woken"}
    /\ cpu \in {"wfi_sync", "wfi", "woken"} => pc[1] = "wfi"
    /\ pc[1] = "isr" => cpu = "run" /\ P!Actionable # {}

\* The registers of the PLIC as the firmware sets them up, and the line.
PlicInv ==
    /\ priority \in [0 .. 5 -> Nat] /\ threshold = 0 /\ pending \subseteq Devices
    /\ enabled = IF pc[1] \in {"boot_prio", "boot_en"} THEN {} ELSE Devices
    /\ pc[1] # "boot_prio" => \A d \in Devices : priority[d] > 0
    /\ meip <=> P!Actionable # {}

\* One source is in service, from the claim to the completion, and it is no
\* longer waited for once it has been acknowledged.
ServiceInv ==
    /\ pc[1] \in Serving => cur \in Devices /\ claimed = {cur}
    /\ pc[1] \notin Serving => cur = 0 /\ claimed = {}
    /\ pc[1] = "read" => cur = IRQ_GPIO
    /\ pc[1] \in {"read", "complete"} => cur \notin job
    /\ job \subseteq Devices \ {IRQ_GPIO}
    /\ pc[1] \notin Ready \cup Handler => job = {}

\* A pending bit has its cause in the device, and is awaited.
Genuine ==
    /\ pending \subseteq job \cup {IRQ_GPIO}
    /\ IRQ_GPIO \in pending => irq_status # {}
    /\ IRQ_TIMER \in pending => timer_ctrl /\ T!Geq(time, cmp)
    /\ IRQ_SD \in pending => sd_status # 0 /\ ~sd_start
    /\ IRQ_DMA \in pending => dma_status # 0 /\ ~dma_start
    /\ IRQ_VIDEO \in pending => vsync_pending

\* The devices, as the firmware uses them: no transfer can leave the memories.
DeviceInv ==
    /\ timer_ctrl <=> IRQ_TIMER \in job
    /\ irq_mask = IF pc[1] \in {"boot_prio", "boot_en", "boot_dma", "boot_sd", "boot_cmp",
                                "boot_mask"} THEN {} ELSE Keys
    /\ input \subseteq Keys /\ seen \subseteq Keys /\ irq_status \subseteq Keys
    /\ src_addr \in {0, 2} /\ dst_addr \in {0, 3} /\ byte_count \in {0, 1}
    /\ dma_start \in BOOLEAN /\ (dma_start => irq_enable /\ IRQ_DMA \in job)
    /\ cmd = "other" /\ arg = 0 /\ data_addr \in {0, 2}
    /\ sd_start \in BOOLEAN /\ (sd_start => IRQ_SD \in job)
    /\ pc[1] = "ack" => (cur = IRQ_DMA => ~dma_start) /\ (cur = IRQ_SD => ~sd_start)
    /\ alive = TRUE

PlatInv == HartInv /\ IssInv /\ PlicInv /\ ServiceInv /\ Genuine /\ DeviceInv /\ NothingLost
=============================================================================
