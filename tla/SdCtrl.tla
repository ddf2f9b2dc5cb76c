------------------------------- MODULE SdCtrl -------------------------------
(***************************************************************************)
(* The SD controller and its card, src/src/sd/sd_ctrl.{h,cpp} and          *)
(* sd_card_model.{h,cpp}.  As in the DMA engine, the start bit schedules a *)
(* delta notification and transfer_thread reads the registers when it      *)
(* runs.  The card is an ifstream over the image: a read past the end sets *)
(* the stream's failbit, which nothing clears, and seekg() does nothing on *)
(* a failed stream.                                                        *)
(***************************************************************************)
EXTENDS BusMem

CONSTANTS BlockSize,    \* bytes of a block (512)
          Image,        \* the card: block number -> bytes, as functions from 0
          Blocks,       \* bound: block numbers and burst lengths software writes
          HasCard       \* an image was opened

ASSUME SdAssumption ==
    /\ BlockSize \in Nat \ {0}
    /\ \A b \in DOMAIN Image : b \in Nat /\ Image[b] \in [0 .. BlockSize - 1 -> Bytes]
    /\ Blocks \subseteq Nat
    /\ HasCard \in BOOLEAN

VARIABLES cmd,          \* cmd_: "CMD17", "CMD18" or another command
          arg, data_addr, burst_len,
          sd_status,    \* status_: 0, DONE or DONE | ERROR
          sd_start,     \* a notification of start_event_ is pending
          sd_irq,       \* the level last given to on_irq
          card_good     \* the stream has not failed

sdRegs == <<cmd, arg, data_addr, burst_len>>
sdVars == <<sdRegs, sd_status, sd_start, sd_irq, card_good, mem, alive>>

SD_IDLE == 0
SD_DONE == 2
SD_DONE_ERROR == 6
Cmds == {"CMD17", "CMD18", "other"}
-----------------------------------------------------------------------------
\* Mutant of Readable: the last block is taken for one past the end.
Readable_NotLast(block, good) == HasCard /\ good /\ block + 1 \in DOMAIN Image

\* read_block(): the whole block is in the image and the stream is good.
Readable(block, good) == HasCard /\ good /\ block \in DOMAIN Image

\* Mutant of OneBlock: a failed bus write is ignored.
OneBlock_NoWriteCheck(t, i) ==
    LET w == Access(TRUE, t.dest, BlockSize) IN
    IF ~Readable(arg + i, t.good)
    THEN [t EXCEPT !.answer = "error", !.good = FALSE]
    ELSE [t EXCEPT !.dest = (@ + BlockSize) % Space,
                   !.mem = IF w = "ok" THEN Put(@, t.dest, BlockSize, Image[arg + i]) ELSE @]

\* Block i of the transfer: read from the card, then written to the bus.  An
\* absent card reads nothing and has no stream to break.
OneBlock(t, i) ==
    LET w == Access(TRUE, t.dest, BlockSize) IN
    IF ~Readable(arg + i, t.good)
    THEN [t EXCEPT !.answer = "error", !.good = @ /\ ~HasCard]
    ELSE [t EXCEPT !.answer = w,
                   !.dest = (@ + BlockSize) % Space,
                   !.mem = IF w = "ok" THEN Put(@, t.dest, BlockSize, Image[arg + i]) ELSE @]

\* Every command but CMD18 moves one block.
BlockCount == IF cmd = "CMD18" THEN burst_len ELSE 1

\* The transfer after n blocks.
SdBlocks[n \in 0 .. BlockCount] ==
    IF n = 0 THEN [dest |-> data_addr, answer |-> "ok", good |-> card_good, mem |-> mem]
    ELSE LET t == SdBlocks[n - 1] IN IF t.answer # "ok" THEN t ELSE OneBlock(t, n - 1)

SdTransfer == SdBlocks[BlockCount]
-----------------------------------------------------------------------------
SdInit ==
    /\ cmd = "other" /\ arg = 0 /\ data_addr = 0 /\ burst_len = 1
    /\ sd_status = SD_IDLE /\ sd_start = FALSE /\ sd_irq = FALSE
    /\ card_good = TRUE
    /\ mem \in [Cells -> Bytes]
    /\ alive = TRUE

WriteCmd(val) ==
    /\ cmd' = val
    /\ UNCHANGED <<arg, data_addr, burst_len, sd_status, sd_start, sd_irq, card_good, mem, alive>>

WriteArg(val) ==
    /\ arg' = val
    /\ UNCHANGED <<cmd, data_addr, burst_len, sd_status, sd_start, sd_irq, card_good, mem, alive>>

WriteDataAddr(val) ==
    /\ data_addr' = val
    /\ UNCHANGED <<cmd, arg, burst_len, sd_status, sd_start, sd_irq, card_good, mem, alive>>

WriteBurstLen(val) ==
    /\ burst_len' = val
    /\ UNCHANGED <<cmd, arg, data_addr, sd_status, sd_start, sd_irq, card_good, mem, alive>>

\* Mutant of WriteSdStatus: the level stays up.
WriteSdStatus_KeepsIrq ==
    /\ sd_status' = SD_IDLE
    /\ UNCHANGED <<sdRegs, sd_irq, sd_start, card_good, mem, alive>>

WriteSdStatus ==
    /\ sd_status' = SD_IDLE
    /\ sd_irq' = FALSE
    /\ UNCHANGED <<sdRegs, sd_start, card_good, mem, alive>>

\* CTRL is not stored; only its start bit does something.
WriteSdCtrl ==
    /\ sd_start' = TRUE
    /\ UNCHANGED <<sdRegs, sd_status, sd_irq, card_good, mem, alive>>

SdReport(answer) == IF answer = "ok" THEN SD_DONE ELSE SD_DONE_ERROR

\* transfer_thread from one wait(start_event_) to the next.
transfer_thread ==
    /\ sd_start
    /\ sd_start' = FALSE
    /\ \E t \in {SdTransfer} :
          /\ mem' = t.mem /\ card_good' = t.good
          /\ \/ t.answer = "abort" /\ alive' = FALSE /\ UNCHANGED <<sd_status, sd_irq>>
             \/ /\ t.answer # "abort"
                /\ sd_status' = SdReport(t.answer) /\ sd_irq' = TRUE
                /\ UNCHANGED alive
    /\ UNCHANGED sdRegs

SdNext ==
    /\ alive
    /\ \/ \E val \in Cmds : WriteCmd(val)
       \/ \E val \in Blocks : WriteArg(val) \/ WriteBurstLen(val)
       \/ \E val \in Addrs : WriteDataAddr(val)
       \/ WriteSdStatus
       \/ WriteSdCtrl
       \/ transfer_thread

SdSpec == SdInit /\ [][SdNext]_sdVars
-----------------------------------------------------------------------------
\* The registers, the flags and the memory have their types.
SdTypeOK ==
    /\ cmd \in Cmds /\ arg \in Blocks \cup {0} /\ burst_len \in Blocks \cup {1}
    /\ data_addr \in Addrs
    /\ sd_status \in {SD_IDLE, SD_DONE, SD_DONE_ERROR}
    /\ sd_start \in BOOLEAN /\ sd_irq \in BOOLEAN /\ card_good \in BOOLEAN
    /\ alive \in BOOLEAN
    /\ mem \in [Cells -> Bytes]

\* The line and the report go up and down together: no completion is silent and
\* no interrupt is without one.
IrqIsReport == sd_irq <=> sd_status # SD_IDLE

SdServed == sd_start /\ ~sd_start' /\ alive'

\* A transfer reported as DONE put every requested block in its place, and the
\* rest of the memory is untouched; the ROM always is.
DoneMeansRead ==
    [][SdServed =>
        /\ sd_status' = SD_DONE =>
             \A i \in 0 .. BlockCount - 1, j \in 0 .. BlockSize - 1 :
                 LET a == data_addr + i * BlockSize + j IN
                 a \in Cells /\ arg + i \in DOMAIN Image /\ mem'[a] = Image[arg + i][j]
        /\ \A a \in Cells : mem'[a] # mem[a] =>
             a \in Span(Ram) \cap (data_addr .. data_addr + BlockCount * BlockSize - 1)]_sdVars

\* The registers ask for a block that the image does not have; for blocks that it has,
\* into RAM.
PastEnd == \E i \in 0 .. BlockCount - 1 : arg + i \notin DOMAIN Image
ValidRequest ==
    /\ HasCard /\ ~PastEnd
    /\ data_addr >= Ram.lo /\ data_addr + BlockCount * BlockSize - 1 <= Ram.hi

\* A valid request succeeds while the stream is good, and only a request past the end of
\* the image breaks it (for good: read_block() never clears the failbit), neither a
\* failure on the bus nor any register write.
ReadServed ==
    [][/\ SdServed /\ card_good /\ ValidRequest => sd_status' = SD_DONE
       /\ card_good /\ ~card_good' => PastEnd]_sdVars
=============================================================================
