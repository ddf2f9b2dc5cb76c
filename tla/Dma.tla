-------------------------------- MODULE Dma ---------------------------------
(***************************************************************************)
(* The DMA engine, src/src/dma/dma_engine.{h,cpp}, as master of the bus    *)
(* over the boot ROM and the RAM.                                          *)
(*                                                                         *)
(* Software programs the registers and writes CTRL.  The start bit only    *)
(* schedules a delta notification: dma_thread runs when the writing thread *)
(* next yields, reads the registers as they are THEN, and makes the whole  *)
(* transfer in one go, because no target of the bus waits.  A second start *)
(* before that merges with the first.                                      *)
(***************************************************************************)
EXTENDS BusMem

CONSTANTS BurstSize,    \* BURST_SIZE
          Counts        \* bound: the byte counts software programs

ASSUME DmaAssumption ==
    /\ BurstSize \in Nat \ {0}
    /\ Counts \subseteq 0 .. Space - 1

VARIABLES src_addr, dst_addr, byte_count,
          irq_enable,   \* bit 1 of ctrl_; bit 0 is not looked at after the write
          status,       \* status_: 0, DONE or DONE_ERROR; BUSY is never seen from outside
          start_event,  \* a notification is pending
          irq           \* the level last given to on_irq

regVars == <<src_addr, dst_addr, byte_count, irq_enable>>
dmaVars == <<regVars, status, start_event, irq, mem, alive>>

IDLE == 0
DONE == 2
DONE_ERROR == 6
-----------------------------------------------------------------------------
(* A transfer. *)

\* Mutant of BurstLen: the last burst is as long as the others.
BurstLen_Full(left) == BurstSize

BurstLen(left) == IF left < BurstSize THEN left ELSE BurstSize

\* One turn of the loop: a burst is read into the buffer and written from it.
Burst(t) ==
    LET n == BurstLen(t.left)
        r == Access(FALSE, t.src, n)
        w == Access(TRUE, t.dst, n) IN
    IF r # "ok" THEN [t EXCEPT !.left = 0, !.answer = r]
    ELSE IF w # "ok" THEN [t EXCEPT !.left = 0, !.answer = w]
    ELSE [src |-> (t.src + n) % Space, dst |-> (t.dst + n) % Space, left |-> t.left - n,
          answer |-> "ok", mem |-> Put(t.mem, t.dst, n, [i \in 0 .. n - 1 |-> t.mem[t.src + i]])]

\* The transfer that the registers describe, after n bursts.
Bursts[n \in 0 .. byte_count] ==
    IF n = 0 THEN [src |-> src_addr, dst |-> dst_addr, left |-> byte_count,
                   answer |-> "ok", mem |-> mem]
    ELSE LET t == Bursts[n - 1] IN IF t.left = 0 THEN t ELSE Burst(t)

\* No transfer has more bursts than bytes.
Transfer == Bursts[byte_count]
-----------------------------------------------------------------------------
Init ==
    /\ src_addr = 0 /\ dst_addr = 0 /\ byte_count = 0 /\ irq_enable = FALSE
    /\ status = IDLE /\ start_event = FALSE /\ irq = FALSE
    /\ mem \in [Cells -> Bytes]
    /\ alive = TRUE

WriteSrc(val) ==
    /\ src_addr' = val
    /\ UNCHANGED <<dst_addr, byte_count, irq_enable, status, start_event, irq, mem, alive>>

WriteDst(val) ==
    /\ dst_addr' = val
    /\ UNCHANGED <<src_addr, byte_count, irq_enable, status, start_event, irq, mem, alive>>

WriteCount(val) ==
    /\ byte_count' = val
    /\ UNCHANGED <<src_addr, dst_addr, irq_enable, status, start_event, irq, mem, alive>>

\* The whole of ctrl_ is replaced; STATUS and the line are left as they were.
WriteCtrl(start, en) ==
    /\ irq_enable' = en
    /\ start_event' = (start_event \/ start)
    /\ UNCHANGED <<src_addr, dst_addr, byte_count, status, irq, mem, alive>>

\* Mutant of WriteStatus: the level stays up.
WriteStatus_KeepsIrq ==
    /\ status' = IDLE
    /\ UNCHANGED <<regVars, irq, start_event, mem, alive>>

\* Mutant of WriteStatus: a start that has not been served yet is dropped.
WriteStatus_Cancels ==
    /\ status' = IDLE
    /\ irq' = FALSE
    /\ start_event' = FALSE
    /\ UNCHANGED <<regVars, mem, alive>>

\* Any write of STATUS acknowledges: the flags and the line go down together.
WriteStatus ==
    /\ status' = IDLE
    /\ irq' = FALSE
    /\ UNCHANGED <<regVars, start_event, mem, alive>>

Report(answer) == IF answer = "ok" THEN DONE ELSE DONE_ERROR

\* dma_thread from one wait(start_event_) to the next.
dma_thread ==
    /\ start_event
    /\ start_event' = FALSE
    /\ \E t \in {Transfer} :
          /\ mem' = t.mem
          /\ \/ /\ t.answer = "abort"
                /\ alive' = FALSE
                /\ UNCHANGED <<status, irq>>
             \/ /\ t.answer # "abort"
                /\ status' = Report(t.answer)
                /\ irq' = (irq \/ irq_enable)
                /\ UNCHANGED alive
    /\ UNCHANGED regVars

\* Reads, and accesses to an unmapped offset, change nothing.
Next ==
    /\ alive
    /\ \/ \E val \in Addrs : WriteSrc(val) \/ WriteDst(val)
       \/ \E val \in Counts : WriteCount(val)
       \/ \E start, en \in BOOLEAN : WriteCtrl(start, en)
       \/ WriteStatus
       \/ dma_thread

Spec == Init /\ [][Next]_dmaVars /\ WF_dmaVars(alive /\ dma_thread)
-----------------------------------------------------------------------------
\* The registers, the flags and the memory have their types.
TypeOK ==
    /\ src_addr \in Addrs /\ dst_addr \in Addrs /\ byte_count \in Counts \cup {0}
    /\ irq_enable \in BOOLEAN /\ start_event \in BOOLEAN /\ irq \in BOOLEAN
    /\ alive \in BOOLEAN
    /\ status \in {IDLE, DONE, DONE_ERROR}
    /\ mem \in [Cells -> Bytes]

\* The interrupt line never outlives the report it stands for: while it is up,
\* STATUS says done, so the handler it wakes finds something to acknowledge.
IrqHasReport == irq => status # IDLE

\* The step of dma_thread: nothing else consumes a start.
Served == start_event /\ ~start_event'

\* The bytes the registers ask for, and where they go.
Sources == {src_addr + i : i \in 0 .. byte_count - 1}
Targets == {dst_addr + i : i \in 0 .. byte_count - 1}

\* A burst that is read before an earlier burst has been written over it: the
\* only overlap that copying in bursts survives.
SafeOverlap == \/ Sources \cap Targets = {}
               \/ dst_addr <= src_addr
               \/ byte_count <= BurstSize

\* A transfer reported as DONE moved exactly the requested bytes: every target
\* byte is the source byte as it was before the start, although the copy is done
\* in bursts and the last one may be short; overlapping ranges count when the
\* copy never reads what it has written.
DoneMeansCopied ==
    [][Served /\ alive' /\ status' = DONE /\ SafeOverlap =>
        \A i \in 0 .. byte_count - 1 : mem'[dst_addr + i] = mem[src_addr + i]]_dmaVars

\* Whatever the outcome, a transfer touches nothing but its target range and
\* never the ROM; one that fails leaves whole bursts behind, never part of one.
OnlyTargets ==
    [][Served =>
        /\ \A a \in Cells \ (Targets \cap Span(Ram)) : mem'[a] = mem[a]
        /\ alive' /\ status' = DONE_ERROR =>
             \E k \in 0 .. byte_count : k % BurstSize = 0 /\ k < byte_count /\
                \A i \in k .. byte_count - 1 :
                    dst_addr + i \in Cells => mem'[dst_addr + i] = mem[dst_addr + i]]_dmaVars

\* Every start is answered: a pending start ends in a report, unless the
\* transfer ran off the end of a memory and stopped the simulation.
StartAnswered == (start_event /\ alive) ~> (status # IDLE \/ ~alive)
=============================================================================
