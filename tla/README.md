# VirtualSoC (GamingCPU-VP): a TLA+ verification project

The repository is a virtual platform of an RV32IMAC system on chip, written in
C++ on SystemC and TLM-2.0. This directory holds TLA+ models of its components,
TLC configurations that check them on small instances, and TLAPS proofs of the
properties that matter most. `PROJECT.json` lists components, runs, the map
from definitions to source lines, findings, hazards and theorems.

Source paths below are relative to `src/src/`.

## 1. The system

All components run on one SystemC kernel. Its threads are cooperative:
`ISS::run`, the tick threads of `CLINT` and `Timer`, `DMAEngine::dma_thread`,
`SDCtrl::transfer_thread` and `GDBServer::server_thread`. A thread keeps the
processor until it calls `wait`. A register access is a plain call
(`b_transport`) that runs inside the thread of the master. So every handler is
atomic, and the interesting interleavings are at the points where threads yield:

- the ISS yields when its quantum (100 us at 10 ns per instruction) is used up,
  in WFI, and when it is halted;
- a device thread runs from one `wait` to the next without yielding, however long
  its transfer is;
- `event.notify()` reaches only threads that already wait;
  `notify(SC_ZERO_TIME)` is served in the next delta cycle, and several of them
  before that are one.

| Component | State | Operations | Interaction | What makes it correct |
|---|---|---|---|---|
| PLIC (`irq/plic`) | priority, pending, enable, threshold, claimed | register writes, claim, complete, `set_pending` | called by devices and by the ISS; calls `on_external_irq` | the line is exact after every call; arbitration order; no source stays blocked |
| CLINT (`irq/clint`) | mtime, mtimecmp, msip | tick, half-writes | calls `on_timer_irq`, `on_sw_irq` | lines exact; arming by halves never fires early and never misses |
| Hart (`cpu/trap`, `csr`, `execute`) | mode, pc, CSRs | instructions, trap entry, MRET, SRET | lines set by callbacks | modes are separated; nested traps keep contexts |
| LR/SC, AMO (`cpu/rv32a.h`, `execute`) | one reservation | LR.W, SC.W, stores, AMOs | DMA writes the same memory | read-modify-write is atomic |
| ISS loop (`cpu/iss`) | quantum, halted, WFI, cached DMI region | run, halt, resume, step | yields to all other threads | interrupts are taken; WFI returns; a step retires one instruction; direct access agrees with the bus |
| Decoder, ALU (`cpu/decode`, `rv32_defs.h`, `rv32m`) | none | decode, expand, multiply, divide | called by the ISS loop | every bit of a word counts once; compressed instructions mean what they expand to; corner cases of division |
| MMU (`cpu/mmu`) | TLB | translate, walk, flush | page tables in memory | translation agrees with the tables after a flush; A and D bits |
| DMA engine (`dma`) | five registers, start event | register writes, transfer | second bus master; PLIC source | done means copied; nothing else touched; every start answered |
| SD controller and card (`sd`) | registers, image stream | register writes, transfer | third bus master; PLIC source | done means every block is in place |
| Bus, RAM, ROM (`bus`, `mem`) | address map, cells | decode, access, DMI | all masters | one target per address; the ROM never changes |
| Timer, UART, GPIO, SPI (`io`) | registers, FIFO | register accesses, host input | PLIC sources | lines follow state; FIFO order and bound |
| Framebuffer, audio (`video`, `audio`) | registers | register accesses | PLIC sources | buffer swap and its interrupt |
| GDB server (`debug`) | breakpoints, socket | halt, step, continue, memory, breakpoints | `halted_event`, `resume_event_` | commands only while the ISS waits; stops are answered; removed breakpoints leave no trace; no mutual wait |
| Platform (`platform`) | wiring | callbacks, ELF load | everything | a completion always reaches the handler |

The hard behaviours, each at its line, are the hazards of `PROJECT.json`.

## 2. Modules

| Module | Models | Proofs |
|---|---|---|
| `PLIC` | `irq/plic`: one action per register write, claim, complete and `set_pending`, each with the trailing `evaluate_irq` | `IrqProofs` |
| `Word64`, `CLINT` | `irq/clint`: a 64-bit register is the pair of its halves | `IrqProofs` |
| `ClintArm` | CLINT composed with firmware: any stores at boot, then deadlines armed by three stores | `IrqProofs` |
| `Hart` | `cpu/trap`, `cpu/csr` and the system instructions of `cpu/execute`, under an arbitrary program | `HartProofs` |
| `HartContext` | `Hart` with history variables: the interrupted contexts and the length of a burst of interrupts | `HartProofs` |
| `LrSc` | LR.W, SC.W, stores, AMOs, faults, nested handlers, DMA writes | `MemoryProofs` |
| `Decode` | `cpu/decode` and the field extractors of `cpu/rv32_defs.h`: `decode` with the expansion of compressed instructions | `IsaProofs` |
| `RvcTable` | reference: the compressed instructions as a table of formats, from the instruction set manual | |
| `Rv32m` | `cpu/rv32m`: the eight operations, at any width, given as the weight `Half` of the sign bit | `IsaProofs` |
| `Isa` | a turn from the fetched word to the result, over the three above | `IsaProofs` |
| `MemSys` | the memory system of the ISS: bus decoding, bounds, ROM protection and the cached DMI region | `GdbProofs` |
| `RunControl` | `ISS::run` with `halt`, `resume`, `step`, the stop at EBREAK and the single step, over `MemSys` | `GdbProofs` |
| `Gdb` | `debug/gdb_server` composed with `RunControl` | `GdbProofs` |
| `BusMem` | decode, bounds and ROM protection as DMA and SD see them, and the memory they share | `TransferProofs` |
| `Dma` | `dma/dma_engine`: registers and `dma_thread` | `TransferProofs` |
| `SdCtrl` | `sd/sd_ctrl`, `sd/sd_card_model` | `TransferProofs` |
| `Mmu` | `cpu/mmu`: walk, permissions, A/D update, TLB; software that edits the tables, SFENCE.VMA, satp | `MemoryProofs` |
| `Uart` | `io/uart`: receive FIFO, interrupt enable, line | `UartProofs` |
| `RxStream` | abstract: what the receive path promises to a reader | |
| `UartEcho` | `Uart` and `PLIC` sharing variables, with a receiving handler; implements `RxStream` | `UartProofs` |
| `Timer`, `Gpio`, `FbCtrl` | `io/timer`, `io/gpio`, `video/fb_ctrl`: registers and lines | |
| `Platform` | `Hart`, `PLIC`, `Timer`, `Gpio`, `FbCtrl`, `Dma` and `SdCtrl` sharing variables, the callbacks of `platform/gamingcpu_vp.cpp`, the scheduling of `ISS::run`, and interrupt-driven firmware | `PlatformProofs` |

`MC*` modules only give constants their values, and `MCHart` the view of its run.

How state corresponds to the code:

- Bit masks are sets of bit numbers (PLIC words, `mstatus`, `mie`, `mip`,
  `mideleg`). The PLIC words are wider than the sources, because software can
  write the other bits.
- A code address in `Hart` is a base and an offset, so vectored entry differs from
  direct entry. General registers, memory and CSRs that no trap uses are left out;
  instructions that touch only those are one action, `Plain`, which also covers a
  store to an interrupt controller that changes a line within the instruction.
- An instruction word in `Decode` is the set of its one bits, so that masks are
  intersections and shifts move the elements; a decoded instruction is a record with the
  fields of `DecodedInstr`.
- In `MemSys` an address counts 16-bit parcels, the unit of an instruction. The loaded image
  is the constant `Content`: any parcels, EBREAK (two parcels, so that half of an
  overwritten breakpoint is seen as what it is) and C.EBREAK (one) among them. Programs and
  debuggers store data or a C.EBREAK.
- In `RunControl` the variable `iss` says where `run()` is: not started, holding the
  processor, in `qk.sync()`, in WFI, or waiting for `resume_event_`. What the fetched parcels
  are decides what may happen: EBREAK or C.EBREAK, the program's own or the debugger's, stops or
  traps; the second half of an EBREAK and what a failed read returns are illegal; the first half before
  another second one is a privileged instruction (ECALL, WFI, MRET, ...) or illegal and
  does not access memory; the rest may be any instruction. `burst` and `retired` count since the last instruction or stop.
- In `Gdb` the server blocks the process in `accept` and `read`, so that nothing else
  runs while it serves. `program` and `spoiled` are history: the RAM as it would be
  without breakpoints, and the addresses where breakpoints overlapped or were written under.
  The program may reach an EBREAK of its own before the client connects, so that `Connect` finds the
  ISS stopped. A byte access of the debugger is one
  of a parcel.
- A DMA or SD transfer is one step, because its thread does not yield. Within it a
  recursive function goes through the bursts or blocks, so failures in the middle
  are kept. `start_event` is the pending delta notification.
- `alive` becomes false when an access leaves its memory: `SC_REPORT_ERROR` throws
  by default and ends the simulation.
- The card keeps `card_good`, the state of its `ifstream`.
- In `Mmu` a physical page is a number and memory is the page tables alone, as a
  function from slots `<<page, index>>`; the offset within a page is left out. `tlb` is
  a partial function from virtual pages; which entry `tlb_.begin()` evicts depends on
  the hash map and is any. `synced`, `used` and `stored` are history: whether the
  tables have changed under a non-empty TLB, and which pages were accessed since.
- In `LrSc` the levels of nesting each have a loop; `expected` and `dirty` are history: what each word
  holds if every update is applied once, and the levels whose word was written by anyone, even with
  the value it had, after their LR.W.
- In `Isa` the variable `fetched` tells a turn from the time between two, so that the all-zero word
  is a word like any other.
- In `Uart` the FIFO is a sequence; IER is the set of its two bits that act. `UartEcho`
  passes the line to `set_pending` at the end of every handler of the UART, as the
  callback does, and keeps the accepted and the delivered bytes as history.
- In `Platform` one step is one instruction of the firmware; `cpu` says where
  `ISS::run` is: running, in `qk.sync()`, in the `qk.sync()` of a WFI, in its timed
  wait, or notified. Time may advance only when no delta notification is pending.
  Sources are numbered 1 to 5 in the order of `platform_config.h`, without the UART (whose
  path is `UartEcho`) and the audio output (which never raises its line). `mtip` and
  `msip` stay low: the CLINT has a module and a run of its own.

The firmware of `ClintArm`, `UartEcho` and `Platform` is not part of the repository; it is the
usual one, and its definitions are marked external in the map.

## 3. Runs

| Run | Configuration | Distinct states | Shows |
|---|---|---|---|
| `plic` | `MCPLIC.cfg` | 165,888 | `LineExact`, `ScanAgrees` |
| `clint` | `MCClintArm.cfg` | 882 | `LinesExact` with wrap-around, `ArmQuiet`, `AlarmFires` |
| `hart` | `MCHart.cfg` | 868,380 | `ContextKept`, `ReturnResumes`, `Isolation`, `ModeDiscipline`, `BurstBound` under interrupts, exceptions and CSR writes |
| `isa` | `MCIsa.cfg` | 204,647 | `RvcMeaning`, `EveryBitCounts`, `ImmediateInPlace`, `MulDivExact` |
| `debug` | `MCGdb.cfg` | 298,621 | `ServedWhileStopped`, `StepRetiresOne`, `ContinueStopsAtEbreak`, `BpsRestore`, `NoMutualWait`, `DirectAgrees`, `StopAnswered` |
| `dma` | `MCDma.cfg` | 138,240 | `DoneMeansCopied`, `OnlyTargets`, `IrqHasReport`, `StartAnswered` |
| `sd` | `MCSdCtrl.cfg` | 172,080 | `DoneMeansRead`, `ReadServed`, `IrqIsReport` |
| `lrsc` | `MCLrSc.cfg` | 43,848 | `NoLostUpdate`, `ReservationFresh` |
| `mmu` | `MCMmu.cfg` | 57,129 | `TlbTransparent`, `UseMarked` |
| `uart_echo` | `MCUartEcho.cfg` | 2,367 | `StreamImplemented` (refinement), `UartLineExact`, `NoneStranded` |
| `platform` | `MCPlatform.cfg` | 85,656 | `NothingLost`, `ClaimFindsWork`, `JobServed`, `WfiReturns` |
| `lrsc_stores` | `MCLrScStores.cfg` | | violation of `ReservationFresh`, the finding of section 6 |

Bounds, and why they are enough:

- `plic`: three sources give ties, a middle source and an order; a word with a
  bit (0) that is no source; priorities 0..2 with thresholds at and around them;
  written values up to 4, past every field and past the last source.
- `clint`: halves of three values: every carry, wrap and comparison of the halves, all
  deadlines.
- `hart`: one interrupt the platform drives (MEI) and one software drives (SSI), an illegal
  instruction and all ECALLs, each enabled, delegated or neither; vectored entry; TSR. The
  values written to `mstatus` are a bound (`StatusWrites`); the proofs have none. States
  are told apart by `HartView`, which leaves out `mcause` and `scause`: no action and no
  property reads them.
- `isa`: all 49,152 compressed words, zero among them; of the 32-bit words, for every opcode and `funct3` the
  ones with at most two more bits, so that each bit and each pair meets each extractor, all
  AMO codes and the privileged words. M operations are at a width of five bits (`Half = 16`), where every pair of
  operands is tried: zero divisors, the smallest number and -1 are among them.
- `debug`: a ROM of two parcels, where the ISS starts, and a RAM of three whose image ends in an EBREAK, with a
  gap of one address behind it, so that accesses may straddle the RAM's end, miss, and wrap; stores of one
  and two parcels that overwrite breakpoints and the first half of the program's EBREAK; breakpoints in the RAM at three adjacent addresses,
  so that they overlap in every order and one straddles the end. `MaxBurst` is the assumption that software
  does not fault for ever in its own handlers; interrupts cannot (`BurstBound`).
- `dma`: a one-cell ROM, a hole, a four-cell RAM, addresses that wrap at 7, bursts of
  two bytes and counts 0..3: empty, short, exact and mixed transfers, failures at
  the first and at a later burst, overlaps in both directions, all memory contents.
- `sd`: two blocks of two bytes, requests of 0..2 blocks from block 0..2, so reads past
  the end happen first, later, and after success; a RAM of odd size, so a block may
  straddle its end.
- `lrsc`: words of three values (increments wrap), two for the loops and one for AMOs and DMA; a program and two levels of
  handlers, which is where a handler of a handler can disturb both. Any level stores any value to
  any word, so also the one that was there.
- `mmu`: two root tables over one shared table, three virtual pages that one superpage
  covers, a TLB of two entries, so that it evicts; entries of every kind (invalid,
  reserved, pointer, leaf of U and of S, aligned and misaligned superpage), in U, and in
  S with every SUM and MXR.
- `uart_echo`: a FIFO of two and five bytes, so that the FIFO overruns and drains at
  every point of the handler and while the interrupt is masked.
- `platform`: a quantum of four instructions is no divisor of the handler or of the
  main loop together with the boot code, so it ends at every point of them. One pin that the host
  changes at will, and a timer that counts to its comparator and one past it (`MaxTime`), so that a
  tick repeats a level that is already high. The framebuffer controller ranks with or above the
  other devices; host input ranks lowest, since a host that changes a pin in every quantum would
  starve a source that does not rank higher.

Deadlock is checked in all runs but `dma`, `sd` and `debug`. In the first two the simulation really ends
after an out-of-bounds access; in `debug` also when the client kills the connection, which leaves
the ISS halted.

Fairness:

- `Dma`: weak fairness of `dma_thread`. The kernel runs a thread whose event was
  notified as soon as the ISS yields, and the ISS yields at the latest when its
  quantum ends.
- `ClintArm`: weak fairness of the tick (a timed wait) and of the stores already
  begun (the ISS executes on).
- `UartEcho`: weak fairness of the firmware (the ISS executes on). The host owes
  nothing. The fairness of `RxStream`, that an accepted byte is delivered, is shown.
- `Gdb`: weak fairness of the ISS. The client owes nothing.
- `Platform`: weak fairness of the ISS while it has the processor, of the ends of its
  waits, and of the threads of DMA and SD; strong fairness of the timer's tick. The tick is enabled only
  while the ISS waits, but it is an instant of simulated time, and every sync of the ISS moves
  time on, so it is reached. The host owes nothing.

## 4. Proofs

All theorems hold for every value of the constants of their modules (number of sources, widths,
programs, memory maps, depth of nesting), from the `ASSUME`s of the modules, which state
that sizes are positive, sets non-empty or within their types, and memories disjoint. One
says more: no memory of the DMA engine and the SD controller reaches the last address
(`BusMemAssumption`; the RAM ends at 0x88000000). A source at the very end of the address
space would wrap, and `DoneMeansCopied` would be false.

- **PLIC** (`PLICTypeCorrect`, `PLICLineExact`, `PLICScanAgrees`). `LineExact` with the
  type invariant is inductive because every handler ends with `evaluate_irq`, computed from
  the primed registers. `NatLeast` shows that the winner of a claim exists; without it the
  claimed id could not be shown to be a source. That the loop finds this winner
  (`ScanAgrees`) is an induction over the sources it has looked at: `Found(n)` says that
  after sources 1 .. n it holds the winner among them.
- **CLINT** (`CLINTTypeCorrect`, `CLINTLinesExact`, `CLINTArmQuiet`).
  `ArmQuiet` is an action property: no store of the sequence fires early, and MTIP is exact
  after the last. It follows from `LinesExact` and `ArmInv`, which says which parts of the
  deadline the comparator holds between two stores.
- **Hart** (`HartTypeCorrect`, `HartIsolation`, `HartModeDiscipline`,
  `HartContextKept`, `HartReturnResumes`, `HartBurstBound`). The step properties need
  the type invariant, since the bits of `mstatus` are updated by set operations.
  `ContextKept` is inductive with it; `ReturnResumes` follows. `BurstBound` needs
  `BurstInv`: inside a burst the mode just entered has its interrupts off, so a
  burst goes to S, then to M, and ends.
- **LR/SC** (`LrScNoLostUpdate`, `LrScReservationFresh`), on the condition that the
  words of the loops are no targets of AMOs or DMA, without which the run
  `lrsc_stores` fails. The invariant `LrScInv` has the parts `Nested`
  (only levels up to the running one have a loop under way) and `Vouched` (a valid
  reservation on the address of the innermost loop means that the loaded value is
  still the one in memory and that the word was not written since). `NoLostUpdate` compares values and would let
  a handler pass that writes the word and puts the old value back; `ReservationFresh` speaks of the
  writes themselves, for every level. Stores of handlers nested to any depth are covered, and SC.W of
  their own loops on the same word. The argument is that a handler may take the
  reservation, but it returns only with its own loop finished, and finishing a loop
  clears the reservation; so the interrupted SC.W fails rather than stores a stale
  value.
- **Decoder and M extension** (`IsaRvcMeaning`, `IsaEveryBitCounts`, `IsaImmediateInPlace`,
  `IsaMulDivExact`). The
  invariant `IsaInv` only ties a turn together: the decoded instruction is `decode` of the
  fetched word, and a result comes from `Value` on two register values. The content is in the
  lemmas about the operators.
  *M extension*, for every weight of the sign bit, 2^31 included: a product is split at `Size`
  whatever the signs, and the truncating division is derived from the flooring one that TLA+
  has; zero divisors and the overflowing quotient are cases of their own (`DivRemSpecial`).
  *16-bit words*, all of them: each group of shifts and masks of `expand_compressed` is shown to
  be the set of bits that the manual's list names (`GatherCI`, `GatherCJ`, ...), and the
  word put together from fields is shown to give the same fields back in `decode32`
  (`FieldsWord`, `StoreWordIs`, `BranchWordIs`, `JalWordIs`, `LuiWordIs`); the quadrants
  (`Quadrant0Right`, `Quadrant1Right`, `Quadrant2Right`) join the two, with the reserved
  encodings.
  *32-bit words*: `SameInstr` says that decoding is injective up to the unused bits, for all
  2^30 words whose low bits are 11 and not for the words of the run alone. The type gives the
  opcode (`TypeOpcode`) and the row of the table that was picked (`PickLegal`), and every
  immediate determines the bits it is made of (`ImmediatesAgree`). Injectivity cannot see two
  bits exchanged; `ImmediateIs` shows, again for all words, that each extractor gathers the pieces
  that the manual's format lists (`Encoding`).
- **MMU** (`MmuTypeCorrect`, `MmuTlbTransparent`, `MmuUseMarked`). `TlbTransparent` speaks
  of answers and is not inductive; `TlbCoherent` says why they agree: a cached entry is the
  leaf that the walk finds, which may have gained A and D since and nothing else. The walk of
  one page may mark a leaf that others share, so the lemmas show that adding A or D moves no
  walk (`WalkAfterGain`) and that permissions do not depend on them (`SamePermissions`).
  `TablesOK` keeps the walk inside the tables. The bound of the TLB is counted through the
  eviction (`FillTypes`).
- **Debugger** (`GdbTypeCorrect`, `GdbDirectAgrees`, `GdbServedWhileStopped`,
  `GdbStepRetiresOne`, `GdbContinueStops`, `GdbNoMutualWait`, `GdbBpsRestore`). The four
  about the handshake follow from one invariant, `StopInv`: which of `halted_`,
  `single_step_`, `iss` and the count of retired instructions go with each state of the
  server, and that before the first command an ISS that has stopped stands on an EBREAK, which a
  connection does not move (`EbreakStands`). So the one mutual wait that is possible is the one
  `NoMutualWait` describes. `DirectAgrees` follows from what the type invariant says of the cached region.
  `BpsRestore` is inductive: an intact parcel has at most one breakpoint over it, because
  the two parcels of EBREAK differ (`OneCover`), and a write through either path changes
  the RAM just where its address is decoded (`RamAfterWrite`). With a gap below the RAM, an
  access that starts in the gap never reaches the RAM although its range does; the history
  variables say so (`Covers`, `Overwrites`).
- **DMA engine** (`DmaTypeCorrect`, `DmaIrqHasReport`, `DmaDoneMeansCopied`,
  `DmaOnlyTargets`). The transfer is a recursive function; `Progress(t, k)` says what holds
  after any number of bursts that have copied k bytes, and the induction also shows that the
  loop ends within `byte_count` bursts. The overlap that bursts survive enters in one place:
  a burst reads nothing that an earlier one has written.
- **SD controller** (`SdTypeCorrect`, `SdIrqIsReport`, `SdDoneMeansRead`, `SdReadServed`).
  The same over blocks: `Placed(t, n)`, which also says that the stream stays good while the blocks are the image's. That blocks do not overlap is arithmetic of products
  (`NextMultiple`, `MultipleMono`).
- **UART** (`UartTypeCorrect`, `UartLine`, `UartStream`, `UartNoneStranded`). The line is
  exact because every operation ends with `update_irq`. The refinement needs `StreamInv`: the
  FIFO is the accepted bytes without the delivered ones, and between reading LSR and reading
  RBR nothing but the handler takes a byte out. With it a byte of the host is `Accept` or
  `Drop`, a read of RBR is `Deliver`, and all else is a stuttering step. This is the safety
  part of `StreamImplemented`; that bytes are delivered is left to TLC. `NoneStranded` needs
  `SignalInv`: where the handler will not poll again, a waiting byte has its pending bit
  (the claim cleared it, but a byte that arrives later sets it), and outside the handler
  nothing is in service that would hide the bit.

- **Platform** (`PlatformInvariant`, `PlatformNothingLost`, `PlatformClaimFindsWork`), for
  every quantum, so that the ISS may yield after any instruction; the sizes of the devices and
  the program are those of the model. `NothingLost` is not inductive: the level that a tick
  gives to the PLIC while the timer is being served must be taken back before the completion,
  a source must not be acknowledged while its next start is pending, and a transfer must not
  end the simulation, or its interrupt would never come. `PlatInv` says these things by the
  phase the firmware is in: where interrupts are enabled and what the line is (`HartInv`,
  `IssInv`, `PlicInv`), that one source is in service from claim to completion and is no longer
  awaited once it is acknowledged (`ServiceInv`), that a pending bit has its cause in the
  device and is awaited (`Genuine`), and how the firmware has set up the devices
  (`DeviceInv`). `ClaimFindsWork` follows, because the winner of a claim is pending
  (`ClaimWins`). There is one lemma for each action.

Inductions over a loop are made for sets: a set that holds 0 and with every n below N also
n + 1 holds all of 0 .. N, because the least number it misses would be neither
(`PrefixInduction`, `CountInduction`, from the well-foundedness of the naturals). The same
lemma, applied to the set of lengths for which a function with the defining equation exists,
shows that a recursive function satisfies its equation (`ScanToUnfolds`, `BurstsUnfold`,
`BlocksUnfold`).

The strengthenings `ArmInv`, `BurstInv`, `LrScInv`, `StreamInv`, `SignalInv`, `StopInv`,
`TablesOK`, `TlbCoherent` and `PlatInv` hold in the instances of the runs, too. The type theorems of
PLIC, CLINT, UART, MMU, Gdb, Dma and SdCtrl are lemmas of the others: their runs do not
check the types again.

Only model-checked: liveness (`AlarmFires`, `StartAnswered`, `JobServed`,
`WfiReturns`, `StopAnswered`, the fairness of `StreamImplemented`), which the prover does not
support. Every invariant and every action property of a passing run is a theorem, too.

## 5. Not modelled

- **SPI**: registers without interrupt or thread; the write of the data register calls
  `on_transfer`, which the platform does not install.
- **Palette, audio output**: tables and registers for the host. Nothing consumes the audio ring, and
  its interrupt is never raised.
- **Peripherals as targets of DMA and SD transfers**: `BusMem` has ROM, RAM and unmapped addresses. The
  bus would route a burst to a peripheral, which answers OK although a burst of more than four bytes has
  moved one register only; `DoneMeansCopied` and `DoneMeansRead` say nothing about such transfers.
- **ELF loader, `load_binary`, `TLMBus::map`**: run before the simulation; file formats are
  out of reach of a model checker.
- **Logging, the text of GDB packets**: output and wording.
- **The ALU without the M extension**: one C++ operator for each instruction. Signed additions that
  overflow are undefined in C++ where the code adds signed operands; the build wraps.
- **CSRs**: counters, `satp` (in `Mmu`), `mtval`, `stval` and scratch registers keep what is written and
  decide nothing about traps.
- **`main.cpp`**: directed tests; read as documentation.

## 6. Findings

- `lrsc_stores`: the design document says that any store by any master invalidates the
  reservation. The DMA engine and AMOs do not, so a loop interrupted by a DMA burst, or
  by a handler that uses an AMO on the same word, stores a value computed from the old
  one. The counterexample is a DMA write; with `DmaWords = {}` it is an AMO.

Observed while modelling, without a run of their own. A property that one of them would break names it as
its exception, and excepts nothing else:

- A TLB hit does not look at D, so a store to a page that a load brought into the TLB leaves the
  page table clean, although the design document has the MMU set A and D on access and calls the TLB an
  optimization only (section 2.1.5). `UseMarked` excepts it. The test of the D bit flushes the TLB before its store.
- One read past the end of the card image makes every later read fail, because the failbit of the
  stream is never cleared. The design document has such a read set the error flag and nothing else (section
  9.7). `ReadServed` speaks of requests before it, and says that nothing else breaks the stream.
- Through a cached DMI region the boot ROM can be written (`cpu/iss.cpp` line 217): the ISS does not
  keep the access rights that `mem/bootrom.cpp` line 69 grants, and `mem/bootrom.h` says that writes are rejected.
  The first fetch after reset caches the ROM. `DirectAgrees` excepts it. A breakpoint
  in the ROM therefore depends on what is cached, at Z0 and again at z0.
- `halted_event` has no memory: if the ISS has stopped at an EBREAK of the program before a client connects, the
  server and the ISS wait for each other, and the command loop that the design document describes
  (section 3.13.1) is not entered. The state is reachable in the run `debug`; `NoMutualWait` says that it is the only
  wait of this kind. `GDBServer` is not instantiated by the platform, and `stop_on_ebreak` is set only in tests.
- Breakpoints closer than four bytes save each other's EBREAK as the original instruction; removed
  in the wrong order, they leave it behind (`BpsRestore` excepts such parcels).
- With the boot ROM cached, an access that wraps around the end of the address space passes the
  bounds check of the cached region (`cpu/iss.cpp` line 189). Loads and stores are aligned and never wrap, but a
  fetch and a breakpoint, always of four bytes, may.
- A fetch is always of four bytes, so a compressed instruction in the last two bytes of a memory ends
  the simulation.
- EBREAK stops the ISS whether or not a breakpoint is registered there.
- `run()` sets `pc` to the reset address after the platform has stored the ELF entry point there.
- The counters are readable in every mode; `cpu/csr.cpp` line 53 says that `mcounteren` and
  `scounteren` gate them.
- A faulting LR.W sets the reservation (`cpu/execute.cpp` line 131; harmless as long as the handler of
  the fault returns to the LR.W).
- A tick between the first and the second store of the arming sequence can still reach the old high half
  with the low half at its maximum.

## 7. Plan

The modules of the plan are written, and the safety properties that the runs check are proved for
all components.

An abstract specification that could still be stated: an interrupt gateway (a completion is
outstanding, pending or in service) that `Platform` implements. `NothingLost` and `ClaimFindsWork`
are what such a gateway promises, stated directly; liveness would remain with TLC.
