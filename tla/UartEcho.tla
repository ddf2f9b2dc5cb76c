------------------------------ MODULE UartEcho ------------------------------
(***************************************************************************)
(* The UART behind the PLIC, as gamingcpu_vp.cpp wires them, with the      *)
(* interrupt-driven firmware that receives its bytes.  on_irq() becomes    *)
(* set_pending(IRQ_UART, level): the PLIC sees the level only when the     *)
(* UART calls, a claim clears the pending bit although the level may still *)
(* be up, and the host pushes bytes between any two instructions.          *)
(*                                                                         *)
(* UartEcho implements RxStream.                                           *)
(***************************************************************************)
EXTENDS Uart

CONSTANT MaxBytes       \* bound: how many bytes the host sends

ASSUME EchoAssumption == MaxBytes \in Nat

VARIABLES priority, pending, enabled, threshold, claimed, meip,
          at,           \* where the firmware is
          accepted, delivered, dropped   \* history of the bytes

plicOwn  == <<priority, pending, enabled, threshold, claimed, meip>>
history  == <<accepted, delivered, dropped>>
echoVars == <<uartVars, plicOwn, at, history>>

IRQ_UART == 1

P == INSTANCE PLIC WITH NumSources <- 2, WordBits <- 2, MaxPrio <- 1, MaxWrite <- 1

\* uart.on_irq, at the end of every handler of the UART.
OnIrq == P!set_pending(IRQ_UART, irq')

Go(from, to) == at = from /\ at' = to
-----------------------------------------------------------------------------
EchoInit ==
    /\ Init /\ P!Init
    /\ at = "boot_prio"
    /\ accepted = <<>> /\ delivered = <<>> /\ dropped = 0

\* A byte from the host.
HostByte(byte) ==
    /\ Len(accepted) + dropped < MaxBytes
    /\ push_rx(byte) /\ OnIrq
    /\ IF rx_fifo' # rx_fifo THEN accepted' = Append(accepted, byte) /\ UNCHANGED dropped
                             ELSE dropped' = dropped + 1 /\ UNCHANGED accepted
    /\ UNCHANGED <<at, delivered>>

\* The firmware configures the PLIC and then enables the receive interrupt.
Boot ==
    /\ \/ Go("boot_prio", "boot_en") /\ P!WritePriority(IRQ_UART, 1) /\ UNCHANGED uartVars
       \/ Go("boot_en", "boot_ier") /\ P!WriteEnable({IRQ_UART}) /\ UNCHANGED uartVars
       \/ Go("boot_ier", "main") /\ WriteIER({"RX_AVAIL"}) /\ OnIrq
    /\ UNCHANGED history

\* With nothing signalled, the main loop masks the receive interrupt for a while.
Mask == Go("main", "masked") /\ ~meip /\ WriteIER({}) /\ OnIrq /\ UNCHANGED history

Unmask == Go("masked", "main") /\ WriteIER({"RX_AVAIL"}) /\ OnIrq /\ UNCHANGED history

\* The hart takes the external interrupt before the next instruction.
Enter == Go("main", "claim") /\ meip /\ UNCHANGED <<uartVars, plicOwn, history>>

Claim == Go("claim", "poll") /\ P!ReadClaim /\ UNCHANGED <<uartVars, history>>

\* The handler reads LSR.
Poll ==
    /\ at = "poll" /\ at' = IF DataReady THEN "read" ELSE "complete"
    /\ UNCHANGED <<uartVars, plicOwn, history>>

\* It reads a byte and echoes it, and looks again.
Read ==
    /\ Go("read", "echo")
    /\ delivered' = Append(delivered, IF DataReady THEN Head(rx_fifo) ELSE 0)
    /\ ReadRBR /\ OnIrq
    /\ UNCHANGED <<accepted, dropped>>

Echo == Go("echo", "poll") /\ WriteTHR /\ OnIrq /\ UNCHANGED history

Complete == Go("complete", "main") /\ P!WriteComplete(IRQ_UART) /\ UNCHANGED <<uartVars, history>>

Firmware == Boot \/ Mask \/ Unmask \/ Enter \/ Claim \/ Poll \/ Read \/ Echo \/ Complete

EchoNext == (\E byte \in Data : HostByte(byte)) \/ Firmware

\* The ISS keeps executing; the host owes nothing.
EchoSpec == EchoInit /\ [][EchoNext]_echoVars /\ WF_echoVars(Firmware)
-----------------------------------------------------------------------------
Stream == INSTANCE RxStream WITH Cap <- FIFO_SIZE

\* The receive path implements the stream: FIFO, line, PLIC and handler together
\* lose, duplicate and reorder nothing they accepted, drop only when the FIFO is
\* full, and deliver every accepted byte, wherever in the handler it arrives.
StreamImplemented == Stream!Spec

\* The strengthening behind the refinement: the FIFO is what was accepted and not
\* yet delivered, and the handler reads RBR only when there is a byte, although
\* LSR was read an instruction earlier.
StreamInv ==
    /\ accepted \in Seq(Data) /\ delivered \in Seq(Data) /\ dropped \in Nat
    /\ Len(accepted) = Len(delivered) + Len(rx_fifo)
    /\ \A i \in 1 .. Len(rx_fifo) : accepted[Len(delivered) + i] = rx_fifo[i]
    /\ at = "read" => rx_fifo # <<>>

\* Why nothing is stranded: wherever the handler will not poll again before it returns,
\* a waiting byte has its pending bit, and outside the handler nothing is in service that
\* would hide the bit from the line.
Booting == at \in {"boot_prio", "boot_en", "boot_ier"}
SignalInv ==
    /\ at \in {"boot_prio", "boot_en", "boot_ier", "main", "masked", "claim", "poll", "read",
               "echo", "complete"}
    /\ priority \in [{0, IRQ_UART} -> 0 .. 1] /\ threshold = 0 /\ P!LineExact
    /\ at # "boot_prio" => priority[IRQ_UART] = 1
    /\ at \notin {"boot_prio", "boot_en"} => enabled = {IRQ_UART}
    /\ ier = IF Booting \/ at = "masked" THEN {} ELSE {"RX_AVAIL"}
    /\ claimed \subseteq {IRQ_UART}
    /\ Booting \/ at \in {"masked", "main", "claim"} => claimed = {}
    /\ at \in {"main", "claim", "complete"} /\ rx_fifo # <<>> => IRQ_UART \in pending

\* When the firmware is back in its main loop and nothing is signalled, nothing is
\* waiting: no byte is stranded behind a pending bit that a claim cleared.
NoneStranded == at = "main" /\ ~meip => rx_fifo = <<>>
=============================================================================
