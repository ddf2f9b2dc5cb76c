------------------------------- MODULE CLINT --------------------------------
(***************************************************************************)
(* The core-local interruptor, src/src/irq/clint.{h,cpp}.  tick_thread     *)
(* advances mtime; the bus writes the halves of mtime and mtimecmp and the *)
(* msip register.  mtip and msip_line are the levels last given to         *)
(* on_timer_irq and on_sw_irq, which drive mip.MTIP and mip.MSIP.          *)
(***************************************************************************)
EXTENDS Word64

CONSTANT MsipWrites     \* bound: the values software writes to msip

ASSUME MsipAssumption == MsipWrites \subseteq Nat

VARIABLES mtime, mtimecmp, msip, mtip, msip_line

clintVars == <<mtime, mtimecmp, msip, mtip, msip_line>>

\* Mutant of update_timer_irq: the comparison is strict.
update_timer_irq_Strict == mtip' = (Geq(mtime', mtimecmp') /\ mtime' # mtimecmp')

\* update_timer_irq(), called at the end of the tick and of every half-write.
update_timer_irq == mtip' = Geq(mtime', mtimecmp')
-----------------------------------------------------------------------------
\* mtimecmp starts at its maximum "so no spurious IRQ at boot".
ClintInit ==
    /\ mtime = ZeroWord
    /\ mtimecmp = MaxWord
    /\ msip = 0
    /\ mtip = FALSE /\ msip_line = FALSE

\* tick_thread, once per tick period.
Tick ==
    /\ mtime' = Inc(mtime)
    /\ UNCHANGED <<mtimecmp, msip, msip_line>>
    /\ update_timer_irq

\* Only bit 0 of msip is kept, and on_sw_irq follows it.
WriteMsip(val) ==
    /\ msip' = val % 2
    /\ msip_line' = (msip' # 0)
    /\ UNCHANGED <<mtime, mtimecmp, mtip>>

WriteMtimecmpLo(val) ==
    /\ mtimecmp' = SetLo(mtimecmp, val)
    /\ UNCHANGED <<mtime, msip, msip_line>>
    /\ update_timer_irq

WriteMtimecmpHi(val) ==
    /\ mtimecmp' = SetHi(mtimecmp, val)
    /\ UNCHANGED <<mtime, msip, msip_line>>
    /\ update_timer_irq

WriteMtimeLo(val) ==
    /\ mtime' = SetLo(mtime, val)
    /\ UNCHANGED <<mtimecmp, msip, msip_line>>
    /\ update_timer_irq

WriteMtimeHi(val) ==
    /\ mtime' = SetHi(mtime, val)
    /\ UNCHANGED <<mtimecmp, msip, msip_line>>
    /\ update_timer_irq

\* Register reads, and accesses answered with a TLM error, change nothing.
BusWrite ==
    \/ \E val \in MsipWrites : WriteMsip(val)
    \/ \E val \in Halves :
          \/ WriteMtimecmpLo(val) \/ WriteMtimecmpHi(val)
          \/ WriteMtimeLo(val)    \/ WriteMtimeHi(val)

ClintNext == Tick \/ BusWrite

ClintSpec == ClintInit /\ [][ClintNext]_clintVars
-----------------------------------------------------------------------------
\* The counters stay 64-bit words and msip keeps one bit.
ClintTypeOK ==
    /\ mtime \in Word /\ mtimecmp \in Word
    /\ msip \in {0, 1}
    /\ mtip \in BOOLEAN /\ msip_line \in BOOLEAN

\* Neither level is ever stale: after the tick and after every half-write, MTIP
\* is high exactly when mtime >= mtimecmp as 64-bit numbers (a half-written
\* comparator included), and MSIP follows the msip bit.
LinesExact ==
    /\ mtip <=> Geq(mtime, mtimecmp)
    /\ msip_line <=> (msip = 1)
=============================================================================
