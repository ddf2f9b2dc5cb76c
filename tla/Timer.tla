-------------------------------- MODULE Timer -------------------------------
(***************************************************************************)
(* The 64-bit timer peripheral, src/src/io/timer.{h,cpp}: the comparator   *)
(* of the CLINT with an enable bit, wired to a PLIC source.  Its line is a *)
(* level that is given to on_irq again after every tick and every write,   *)
(* also when it has not changed.                                           *)
(***************************************************************************)
EXTENDS Word64

VARIABLES time, cmp,
          ctrl,         \* bit 0 of ctrl_, the only one that is read
          irq           \* the level last given to on_irq

timerVars == <<time, cmp, ctrl, irq>>

\* Mutant of update_irq: the line is raised but never taken back.
update_irq_OnlyRaises == irq' = (irq \/ (ctrl' /\ Geq(time', cmp')))

\* update_irq(), at the end of the tick and of every register write.
update_irq == irq' = (ctrl' /\ Geq(time', cmp'))
-----------------------------------------------------------------------------
Init ==
    /\ time = ZeroWord /\ cmp = MaxWord
    /\ ctrl = FALSE /\ irq = FALSE

\* tick_thread, once per tick period.
Tick ==
    /\ time' = Inc(time)
    /\ UNCHANGED <<cmp, ctrl>>
    /\ update_irq

WriteTimeLo(val) ==
    /\ time' = SetLo(time, val)
    /\ UNCHANGED <<cmp, ctrl>>
    /\ update_irq

WriteTimeHi(val) ==
    /\ time' = SetHi(time, val)
    /\ UNCHANGED <<cmp, ctrl>>
    /\ update_irq

WriteCmpLo(val) ==
    /\ cmp' = SetLo(cmp, val)
    /\ UNCHANGED <<time, ctrl>>
    /\ update_irq

WriteCmpHi(val) ==
    /\ cmp' = SetHi(cmp, val)
    /\ UNCHANGED <<time, ctrl>>
    /\ update_irq

WriteTimerCtrl(en) ==
    /\ ctrl' = en
    /\ UNCHANGED <<time, cmp>>
    /\ update_irq
=============================================================================
