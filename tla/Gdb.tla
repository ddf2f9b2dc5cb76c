-------------------------------- MODULE Gdb ---------------------------------
(***************************************************************************)
(* The GDB server, src/src/debug/gdb_server.cpp, and the ISS under it.     *)
(* The server's accept() and read() block the whole process, so that while *)
(* it serves nothing else runs; it gives the processor away only when it   *)
(* waits for halted_event, which run() notifies at the top of its loop:    *)
(* the notification is immediate and reaches only a server that waits.     *)
(* Packets are the commands they carry; the ones that change nothing (?,   *)
(* g, unknown ones) are left out.                                          *)
(***************************************************************************)
EXTENDS RunControl

CONSTANT BpAddrs            \* Where breakpoints are set
ASSUME GdbAssumption == BpAddrs \subseteq Addrs

VARIABLES server,           \* start, connecting, serving, stepping, continuing or gone
          breakpoints_,     \* The saved parcels of each breakpoint
          program,          \* Ghost: the RAM as it would be without breakpoints
          spoiled           \* Ghost: RAM addresses where breakpoints overlapped or that
                            \* were written under one

ghosts  == <<program, spoiled>>
gdbVars == <<server, breakpoints_>>
vars    == <<memVars, issVars, server, breakpoints_, ghosts>>

RamAddrs == RamBase .. RamBase + RamSize - 1
InRam(a) == mem["ram"][a - RamBase]
\* A breakpoint patches the RAM when its first parcel decodes to it.
Covers(bp, a) == decode(bp) = "ram" /\ a \in {bp, bp + 1}
CoveredBy(bps, a) == {bp \in bps : Covers(bp, a)}

Init ==
    /\ RunInit
    /\ server = "start"
    /\ breakpoints_ = [a \in {} |-> EBREAK]
    /\ program = [a \in RamAddrs |-> Content[a]]
    /\ spoiled = {}

\* The ghosts after a store of val at a .. a + n - 1.
Overwrites(a, n, val) ==
    LET hit == {c \in RamAddrs : decode(a) = "ram" /\ c \in a .. a + n - 1}
        under == {c \in hit : CoveredBy(DOMAIN breakpoints_, c) # {}}
    IN /\ program' = [c \in RamAddrs |-> IF c \in hit THEN val ELSE program[c]]
       /\ spoiled' = (spoiled \ hit) \cup under
-----------------------------------------------------------------------------
(* The ISS runs unless the server has the processor. *)

Waiting == {"connecting", "stepping", "continuing"}

\* Mutant of Halt: run() notifies the event when it is woken, not when it stops.
Halt_Silent == Stop /\ UNCHANGED <<server, breakpoints_, ghosts>>

\* halted_event.notify(), then wait(resume_event_).
Halt ==
    /\ Stop
    /\ server' = IF server \in Waiting THEN "serving" ELSE server
    /\ UNCHANGED <<breakpoints_, ghosts>>

IssStep ==
    /\ alive /\ server # "serving"
    /\ \/ Halt
       \/ (Start \/ Synced \/ Unretired \/ Plain \/ Break \/ Wfi \/ WfiReturn \/ Exception
           \/ MemFault \/ Abort) /\ UNCHANGED <<server, breakpoints_, ghosts>>
       \/ \E a \in Stores, n \in 1 .. 2, val \in Data :
              Store(a, n, val) /\ Overwrites(a, n, val) /\ UNCHANGED gdbVars
-----------------------------------------------------------------------------
(* The server runs when run() waits. *)

\* Mutant of Connect: the commands are served at once.
Connect_NoWait ==
    /\ server = "start"
    /\ halt
    /\ server' = "serving"
    /\ UNCHANGED <<memVars, pc, burst, retired, breakpoints_, ghosts>>

\* accept() has a client: halt() and wait(halted_event).  The order in which the
\* kernel starts the two threads is not specified, so run() may have come any way,
\* and may already be in wait(resume_event_) after an EBREAK of the program.
Connect ==
    /\ server = "start"
    /\ halt
    /\ server' = "connecting"
    /\ UNCHANGED <<memVars, pc, burst, retired, breakpoints_, ghosts>>

\* The socket, bind() or accept() fails.
NoServer ==
    /\ server = "start"
    /\ server' = "gone"
    /\ UNCHANGED <<memVars, issVars, breakpoints_, ghosts>>

CmdStep ==
    /\ step /\ server' = "stepping"
    /\ UNCHANGED <<memVars, pc, burst, retired, breakpoints_, ghosts>>
CmdContinue ==
    /\ resume /\ server' = "continuing"
    /\ UNCHANGED <<memVars, pc, burst, retired, breakpoints_, ghosts>>

\* k, or the client has closed the connection: the ISS stays as it is.
CmdKill ==
    /\ server' = "gone"
    /\ UNCHANGED <<memVars, issVars, breakpoints_, ghosts>>

\* G: the registers, of which pc is one.
CmdWriteRegs(a) ==
    /\ pc' = a
    /\ UNCHANGED <<memVars, iss, halted_, single_step_, burst, retired, gdbVars, ghosts>>

\* m: one byte after another.
CmdReadMem(a) ==
    /\ dmi' = try_dmi(dmi, a)
    /\ UNCHANGED <<mem, alive, issVars, gdbVars, ghosts>>

\* M
CmdWriteMem(a, val) ==
    /\ mem' = bus_write(mem, dmi, a, 1, [i \in {0} |-> val])
    /\ Overwrites(a, 1, val)
    /\ UNCHANGED <<dmi, alive, issVars, gdbVars>>

\* Z0: the four bytes are read, which may be fatal and may fetch a region, saved
\* and replaced.
CmdInsertBp(a) ==
    /\ a \notin DOMAIN breakpoints_
    /\ IF Fatal(dmi, a, 2) THEN alive' = FALSE /\ UNCHANGED <<mem, dmi, gdbVars, ghosts>>
       ELSE LET region == try_dmi(dmi, a) IN
            /\ breakpoints_' = [b \in DOMAIN breakpoints_ \cup {a} |->
                   IF b = a THEN bus_read(mem, dmi, a, 2) ELSE breakpoints_[b]]
            /\ mem' = bus_write(mem, region, a, 2, EBREAK)
            /\ dmi' = region
            /\ spoiled' = spoiled \cup {c \in RamAddrs : Covers(a, c) /\
                                            CoveredBy(DOMAIN breakpoints_, c) # {}}
            /\ UNCHANGED <<alive, server, program>>
    /\ UNCHANGED issVars

\* Mutant of CmdRemoveBp: the entry goes, the instruction stays replaced.
CmdRemoveBp_NoRestore(a) ==
    /\ a \in DOMAIN breakpoints_
    /\ breakpoints_' = [b \in DOMAIN breakpoints_ \ {a} |-> breakpoints_[b]]
    /\ UNCHANGED <<memVars, issVars, server, ghosts>>

\* z0
CmdRemoveBp(a) ==
    /\ a \in DOMAIN breakpoints_
    /\ IF Fatal(dmi, a, 2) THEN alive' = FALSE /\ UNCHANGED <<mem, breakpoints_>>
       ELSE /\ mem' = bus_write(mem, dmi, a, 2, breakpoints_[a])
            /\ breakpoints_' = [b \in DOMAIN breakpoints_ \ {a} |-> breakpoints_[b]]
            /\ UNCHANGED alive
    /\ UNCHANGED <<dmi, issVars, server, ghosts>>

handle_client ==
    /\ server = "serving"
    /\ \/ CmdStep \/ CmdContinue \/ CmdKill
       \/ \E a \in Jumps : CmdWriteRegs(a)
       \/ \E a \in Stores : CmdReadMem(a) \/ \E val \in Data : CmdWriteMem(a, val)
       \/ \E a \in BpAddrs : CmdInsertBp(a) \/ CmdRemoveBp(a)

ServerStep == alive /\ iss # "run" /\ (Connect \/ NoServer \/ handle_client)

Next == IssStep \/ ServerStep

Spec == Init /\ [][Next]_vars /\ WF_vars(IssStep)
-----------------------------------------------------------------------------
IssStates == {"start", "run", "sync", "wfi", "halted"}
MemTypes ==
    /\ DOMAIN mem = Targets /\ \A t \in Targets : mem[t] \in [0 .. Size(t) - 1 -> Parcels]
    /\ dmi \in Regions
    /\ alive \in BOOLEAN
IssTypes ==
    /\ iss \in IssStates /\ pc \in Addrs
    /\ halted_ \in BOOLEAN /\ single_step_ \in BOOLEAN
    /\ burst \in 0 .. MaxBurst /\ retired \in 0 .. 2
ServerTypes ==
    /\ server \in Waiting \cup {"start", "serving", "gone"}
    /\ DOMAIN breakpoints_ \subseteq BpAddrs
    /\ \A bp \in DOMAIN breakpoints_ : breakpoints_[bp] \in [0 .. 1 -> Parcels]
    /\ program \in [RamAddrs -> Parcels] /\ spoiled \subseteq RamAddrs
TypeOK == MemTypes /\ IssTypes /\ ServerTypes

\* The strengthening behind the stops: what halted_, single_step_ and the count of
\* retired instructions are while the server serves, waits for a step or waits for a
\* continue.
StopInv ==
    /\ server = "serving" => iss = "halted" /\ halted_ /\ retired = 0
    /\ server = "start" /\ halted_ => iss \in {"run", "halted"} /\ IsEbreak
    /\ iss = "halted" => halted_
    /\ iss = "halted" /\ server \in Waiting => server = "connecting" /\ IsEbreak
    /\ server \in {"start", "connecting"} => ~single_step_ /\ DOMAIN breakpoints_ = {}
    /\ server = "stepping" =>
          IF halted_ THEN retired = 1
          ELSE single_step_ /\ retired = (IF iss = "wfi" THEN 1 ELSE 0)
    /\ server = "continuing" =>
          ~single_step_ /\ (halted_ => iss = "run" /\ IsEbreak /\ retired > 0)

\* While commands are served, run() waits for resume_event_ with halted_ set, so that
\* registers and memory hold still and step() and resume() are heard.
ServedWhileStopped == server = "serving" => iss = "halted" /\ halted_

\* A step that is answered has retired exactly one instruction, whatever traps,
\* faults, syncs and WFI waits came between, and whether or not it hit EBREAK.
StepRetiresOne == server = "stepping" /\ halted_ => retired = 1

\* A continue is answered only at an EBREAK: a step that EBREAK had cut short does not
\* stop it, nor does the halt() of the connection.
ContinueStopsAtEbreak ==
    server = "continuing" /\ halted_ /\ iss = "run" => IsEbreak /\ retired > 0

\* In the RAM every breakpoint has its EBREAK in place and the program's own parcels
\* in the table, and everywhere else the RAM is the program's, except where
\* breakpoints closer than 4 bytes overlapped or something was written under one.
BpsRestore ==
    \A c \in RamAddrs \ spoiled :
        LET by == CoveredBy(DOMAIN breakpoints_, c) IN
        IF by = {} THEN InRam(c) = program[c]
        ELSE \A bp \in by : InRam(c) = EBREAK[c - bp] /\ breakpoints_[bp][c - bp] = program[c]

\* There is one way in which run() waits for the server while the server waits for
\* run(): the program executed an EBREAK of its own before the client connected, and the
\* ISS still stands on it.  After a step or a continue it never happens, nor does the
\* halt() of the connection, however far run() has come when it arrives, bring it about.
NoMutualWait ==
    iss = "halted" /\ server \in Waiting =>
        server = "connecting" /\ IsEbreak /\ DOMAIN breakpoints_ = {}

\* An access through the cached region does what the same access does over the bus: it
\* stays inside the memory, reads the same parcels and leaves the same memory behind.
\* Two accesses differ: a write of the boot ROM, which only the bus refuses, and one
\* that wraps around the end of the address space.
DirectAgrees ==
    \A a \in Addrs, n \in 1 .. 2 :
        DirectHit(dmi, a, n) /\ a + n <= Space =>
            /\ ~Fatal(dmi, a, n) /\ ~Fatal(NoDmi, a, n)
            /\ bus_read(mem, dmi, a, n) = bus_read(mem, NoDmi, a, n)
            /\ \/ dmi.t = "rom"
               \/ bus_write(mem, dmi, a, n, EBREAK) = bus_write(mem, NoDmi, a, n, EBREAK)

\* A client that steps is answered, and so is one that connects while run() has not
\* stopped, unless the simulation ends.
StopAnswered ==
    server = "stepping" \/ (server = "connecting" /\ iss # "halted")
        ~> server = "serving" \/ ~alive
=============================================================================
