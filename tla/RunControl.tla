---------------------------- MODULE RunControl ------------------------------
(***************************************************************************)
(* ISS::run() of src/src/cpu/iss.cpp with its run control: halt(),         *)
(* resume(), step(), the stop at EBREAK and the single step.  An           *)
(* instruction is what its parcels say as far as the debugger is           *)
(* concerned: EBREAK, the program's own or one the debugger put there, or  *)
(* something else, which may be any instruction.  SystemC threads are not  *)
(* preempted: between two waits of run() nothing else runs, and "run" is   *)
(* the state in which it holds the processor or has been woken.            *)
(***************************************************************************)
EXTENDS MemSys

CONSTANTS StopOnEbreak,     \* ISS::stop_on_ebreak
          ResetPc, Handler, \* The reset address and the trap vector
          Jumps,            \* Where jumps go
          Stores,           \* Where the program, and the debugger, store
          MaxBurst          \* Turns in a row that retire nothing: see Unretired

ASSUME RunControlAssumption ==
    /\ StopOnEbreak \in BOOLEAN
    /\ ResetPc \in Addrs /\ Handler \in Addrs
    /\ Jumps \subseteq Addrs /\ Stores \subseteq Addrs
    /\ MaxBurst \in Nat

VARIABLES mem, dmi, alive,  \* The memories, the cached region, and whether sc_start still runs
          iss,              \* Where run() is: IssStates
          pc, halted_, single_step_,
          burst,            \* Turns since an instruction retired or run() stopped
          retired           \* insn_count since run() last stopped, 2 for more

memVars == <<mem, dmi, alive>>
issVars == <<iss, pc, halted_, single_step_, burst, retired>>

RunInit ==
    /\ mem = Image /\ dmi = NoDmi /\ alive = TRUE
    /\ iss = "start" /\ pc = 0
    /\ halted_ = FALSE /\ single_step_ = FALSE
    /\ burst = 0 /\ retired = 0

More(n) == IF n = 2 THEN 2 ELSE n + 1

\* halt(), resume() and step(); the notification wakes run() only if it waits.
Woken == IF iss = "halted" THEN "run" ELSE iss

halt == halted_' = TRUE /\ UNCHANGED <<single_step_, iss>>

\* Mutant of resume: a step that was pending when EBREAK stopped the ISS stays so.
resume_KeepsStep == halted_' = FALSE /\ UNCHANGED single_step_ /\ iss' = Woken

resume == halted_' = FALSE /\ single_step_' = FALSE /\ iss' = Woken
step   == halted_' = FALSE /\ single_step_' = TRUE /\ iss' = Woken
-----------------------------------------------------------------------------
\* The thread starts, whatever pc the loader has stored.
Start ==
    /\ iss = "start"
    /\ iss' = "run" /\ pc' = ResetPc
    /\ UNCHANGED <<memVars, halted_, single_step_, burst, retired>>

\* The kernel gets back to the thread when the quantum is over.
Synced ==
    /\ iss = "sync"
    /\ iss' = "run"
    /\ UNCHANGED <<memVars, pc, halted_, single_step_, burst, retired>>

\* The top of the loop; the two counts of the model begin again.
Stop ==
    /\ iss = "run" /\ halted_
    /\ iss' = "halted" /\ burst' = 0 /\ retired' = 0
    /\ UNCHANGED <<memVars, pc, halted_, single_step_>>

Turn == iss = "run" /\ ~halted_

\* An interrupt, a misaligned pc and a page fault of the fetch trap and start the
\* next turn at once: no time passes and no step ends.  Interrupts come in bounded
\* bursts (Hart.BurstBound); that handlers are mapped and do not fault for ever is
\* up to the software, and MaxBurst says so.
Unretired ==
    /\ Turn /\ burst < MaxBurst
    /\ pc' = Handler /\ burst' = burst + 1
    /\ UNCHANGED <<memVars, iss, halted_, single_step_, retired>>

\* The fetch, always of 4 bytes.
Fetched  == bus_read(mem, dmi, pc, 2)
Fetchable == Turn /\ ~Fatal(dmi, pc, 2)
FetchDmi == try_dmi(dmi, pc)
IsEbreak == Fetched = EBREAK \/ Fetched[0] = C_EBREAK
\* The second half of a breakpoint and what a failed read returns are illegal; the
\* first half with another second one is a privileged instruction or illegal.
IsIllegal == Fetched[0] \in {EBREAK[1], Nothing}
IsPrivileged == Fetched[0] = EBREAK[0] /\ ~IsEbreak
Executes == Fetchable /\ ~IsEbreak /\ ~IsIllegal
\* The instructions that may load or store.
Accesses == Executes /\ ~IsPrivileged
\* A misaligned access is an exception and never reaches the bus.
Aligned(a, n) == a % n = 0

\* The fetch or an access of the instruction leaves a memory.
Abort ==
    /\ Turn
    /\ alive' = FALSE
    /\ \/ Fatal(dmi, pc, 2)
       \/ /\ Accesses
          /\ \E a \in Addrs, n \in 1 .. 2 : Aligned(a, n) /\ Fatal(FetchDmi, a, n)
    /\ UNCHANGED <<mem, dmi, issVars>>

\* EBREAK with stop_on_ebreak: counted, and pc stays.
Break ==
    /\ Fetchable /\ IsEbreak /\ StopOnEbreak
    /\ halted_' = TRUE
    /\ dmi' = FetchDmi
    /\ burst' = 0 /\ retired' = More(retired)
    /\ UNCHANGED <<mem, alive, iss, pc, single_step_>>

\* Mutant of StepOver: the flag is cleared and the ISS runs on.
StepOver_RunsOn == single_step_' = FALSE /\ UNCHANGED halted_

\* A turn that ends stops the ISS when it was a single step.
StepOver == halted_' = (halted_ \/ single_step_) /\ single_step_' = FALSE

EndTurn(next) ==
    /\ pc' = next
    /\ StepOver
    /\ burst' = 0 /\ retired' = More(retired)

\* The quantum may be used up.
Sync == iss' \in {"run", "sync"}

\* An instruction that neither traps nor stores; FENCE.I drops the region.
Plain ==
    /\ Executes
    /\ dmi' \in {FetchDmi, NoDmi}
    /\ \E next \in {(pc + 1) % Space, (pc + 2) % Space} \cup Jumps : EndTurn(next)
    /\ Sync
    /\ UNCHANGED <<mem, alive>>

\* WFI waits for its line or its time in the middle of the turn, after it is counted.
Wfi ==
    /\ iss' = "wfi"
    /\ Executes
    /\ dmi' = FetchDmi
    /\ burst' = 0 /\ retired' = More(retired)
    /\ UNCHANGED <<mem, alive, pc, halted_, single_step_>>

\* Mutant of WfiReturn: WFI waits for its line only, and none moves.
WfiReturn_NoTimeout == FALSE

WfiReturn ==
    /\ iss = "wfi"
    /\ pc' = (pc + 2) % Space
    /\ StepOver /\ Sync
    /\ UNCHANGED <<memVars, burst, retired>>

Store(a, n, val) ==
    /\ Accesses /\ Aligned(a, n)
    /\ ~Fatal(FetchDmi, a, n)
    /\ mem' = bus_write(mem, FetchDmi, a, n, [i \in 0 .. 1 |-> val])
    /\ dmi' = FetchDmi
    /\ EndTurn((pc + 2) % Space) /\ Sync
    /\ UNCHANGED alive

\* An exception, and EBREAK where it does not stop.
Exception ==
    /\ Fetchable /\ (IsEbreak => ~StopOnEbreak)
    /\ dmi' = FetchDmi
    /\ EndTurn(Handler) /\ Sync
    /\ UNCHANGED <<mem, alive>>

\* A page fault of a load or store: time passes, but nothing retires.
MemFault ==
    /\ Accesses /\ burst < MaxBurst
    /\ dmi' = FetchDmi
    /\ pc' = Handler /\ burst' = burst + 1 /\ Sync
    /\ UNCHANGED <<mem, alive, halted_, single_step_, retired>>
=============================================================================
