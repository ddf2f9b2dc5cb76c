---------------------------- MODULE HartContext -----------------------------
(***************************************************************************)
(* Hart with history: what each mode's trap entry has to be able to undo,  *)
(* and how many interrupts have been taken since the last instruction.     *)
(* The history observes the steps of Hart and disables none of them.       *)
(***************************************************************************)
EXTENDS Hart

VARIABLES mctx, sctx,   \* the context interrupted by the last trap to M (to S),
                        \* live until a return or a write of the registers that hold it
          burst         \* interrupts taken in a row, with no instruction between

ctxVars == <<hartVars, mctx, sctx, burst>>

Dead == [live |-> FALSE, pc |-> <<NullPC, 0>>, priv |-> PRV_U, ie |-> FALSE]
Live(en) == [live |-> TRUE, pc |-> pc, priv |-> priv, ie |-> en \in mstatus]

CtxInit == Init /\ mctx = Dead /\ sctx = Dead /\ burst = 0

\* Trap entry opens a context of its mode and leaves the other mode's alone.
CtxTrap(int, code) ==
    /\ TrapCause(int, code)
    /\ burst' = IF int THEN burst + 1 ELSE 0
    /\ \/ Delegated(int, code) /\ TrapToS(int, code) /\ sctx' = Live("SIE") /\ UNCHANGED mctx
       \/ ~Delegated(int, code) /\ TrapToM(int, code) /\ mctx' = Live("MIE") /\ UNCHANGED sctx

\* Software that writes a register holding a context gives that context up.
CtxInstruction ==
    /\ check_pending_interrupts = 0
    /\ burst' = 0
    /\ \/ Mret /\ mctx' = Dead /\ UNCHANGED sctx
       \/ Sret /\ sctx' = Dead /\ UNCHANGED mctx
       \/ WriteMstatus /\ mctx' = Dead /\ sctx' = Dead
       \/ WriteSstatus /\ sctx' = Dead /\ UNCHANGED mctx
       \/ WriteMtrap /\ mctx' = (IF mepc' = mepc THEN mctx ELSE Dead) /\ UNCHANGED sctx
       \/ WriteStrap /\ sctx' = (IF sepc' = sepc THEN sctx ELSE Dead) /\ UNCHANGED mctx
       \/ (Plain \/ WriteEnables \/ WriteSsip) /\ UNCHANGED <<mctx, sctx>>

CtxNext ==
    \/ \E int \in BOOLEAN, code \in 0 .. 15 : CtxTrap(int, code)
    \/ CtxInstruction
    \/ SetLines /\ UNCHANGED <<mctx, sctx, burst>>

CtxSpec == CtxInit /\ [][CtxNext]_ctxVars
-----------------------------------------------------------------------------
\* Trap nesting keeps contexts: while a handler of one mode leaves its own
\* registers alone, nothing else (traps to the other mode and their returns,
\* S-mode CSR writes, interrupts taken back to back) disturbs the registers its
\* return will use.
ContextKept ==
    /\ mctx.live => mepc = mctx.pc /\ mpp = mctx.priv /\ (("MPIE" \in mstatus) <=> mctx.ie)
    /\ sctx.live => /\ sepc = sctx.pc
                    /\ IF "SPP" \in mstatus THEN sctx.priv = PRV_S ELSE sctx.priv = PRV_U
                    /\ ("SPIE" \in mstatus) <=> sctx.ie

\* A return resumes what was interrupted: the same pc, mode and interrupt enable.
ReturnResumes ==
    [][/\ Mret /\ mctx.live =>
            pc' = mctx.pc /\ priv' = mctx.priv /\ (("MIE" \in mstatus') <=> mctx.ie)
       /\ Sret /\ sctx.live =>
            pc' = sctx.pc /\ priv' = sctx.priv /\ (("SIE" \in mstatus') <=> sctx.ie)]_ctxVars

\* At most two interrupts are taken in a row (one to S, then one to M): the
\* path of ISS::run that takes an interrupt advances no time and yields to
\* nobody, so an unbounded run of them would stop the simulation.
BurstBound == burst <= 2

\* The strengthening that makes BurstBound inductive: inside a burst the mode
\* just entered has its own interrupts off.
BurstInv ==
    \/ burst = 0
    \/ burst = 1 /\ priv = PRV_S /\ "SIE" \notin mstatus
    \/ burst \in {1, 2} /\ priv = PRV_M /\ "MIE" \notin mstatus
=============================================================================
