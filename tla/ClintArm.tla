------------------------------ MODULE ClintArm ------------------------------
(***************************************************************************)
(* The CLINT under the firmware that arms it for a 64-bit deadline with    *)
(* three 32-bit stores: low half to its maximum, then the high half, then  *)
(* the low half.  The ISS may reach a quantum boundary between any two of  *)
(* the stores, so the tick thread may run there.  Before the first one     *)
(* software stores anything anywhere; msip it may write at any time.       *)
(***************************************************************************)
EXTENDS CLINT

VARIABLES phase,        \* which store of the sequence comes next
          deadline      \* the value being written to mtimecmp

armVars == <<clintVars, phase, deadline>>

ArmInit == ClintInit /\ phase = "idle" /\ deadline = MaxWord

\* First store: no smaller than the old comparator.  The deadline is ahead.
ArmLowMax ==
    /\ phase \in {"idle", "armed"}
    /\ \E d \in Word : ~Geq(mtime, d) /\ deadline' = d
    /\ phase' = "high"
    /\ WriteMtimecmpLo(Half - 1)

\* Second store: the high half of the deadline.
ArmHigh ==
    /\ phase = "high"
    /\ phase' = "low"
    /\ WriteMtimecmpHi(deadline.hi)
    /\ UNCHANGED deadline

\* Third store: the low half of the deadline.
ArmLow ==
    /\ phase = "low"
    /\ phase' = "armed"
    /\ WriteMtimecmpLo(deadline.lo)
    /\ UNCHANGED deadline

\* Boot code, and software interrupts meanwhile.
OtherStore ==
    /\ BusWrite
    /\ phase = "idle" \/ UNCHANGED <<mtime, mtimecmp>>
    /\ UNCHANGED <<phase, deadline>>

TickStep == Tick /\ UNCHANGED <<phase, deadline>>

ArmNext == ArmLowMax \/ ArmHigh \/ ArmLow \/ OtherStore \/ TickStep

\* The kernel keeps advancing time whenever the ISS yields, and the ISS keeps
\* executing the sequence it has begun.
ArmSpec == /\ ArmInit /\ [][ArmNext]_armVars
           /\ WF_armVars(TickStep) /\ WF_armVars(ArmHigh \/ ArmLow)

\* Once armed, MTIP tells exactly whether the deadline has passed, although the
\* comparator was written in pieces with ticks in between.
ArmedExact == phase = "armed" => (mtip <=> Geq(mtime, deadline))

\* The deadline fires when it is due: no store of the sequence raises MTIP while the
\* deadline is still ahead, whatever the counters and the old comparator are, and
\* after the last one MTIP is exact.
ArmQuiet ==
    [][/\ phase' # phase /\ mtip' => mtip \/ Geq(mtime, deadline')
       /\ ArmedExact']_armVars

\* Between two stores the comparator holds the parts of the deadline already
\* written: the strengthening from which ArmedExact follows.
ArmInv ==
    /\ phase \in {"idle", "high", "low", "armed"}
    /\ deadline \in Word
    /\ phase = "high" => mtimecmp.lo = Half - 1
    /\ phase = "low" => mtimecmp = [hi |-> deadline.hi, lo |-> Half - 1]
    /\ phase = "armed" => mtimecmp = deadline

\* An armed deadline is not missed: the tick reaches it unless the firmware
\* starts to arm again first.
AlarmFires == phase = "armed" ~> mtip \/ phase # "armed"
=============================================================================
