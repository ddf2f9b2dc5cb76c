-------------------------------- MODULE Uart --------------------------------
(***************************************************************************)
(* The UART, src/src/io/uart.{h,cpp}: a receive FIFO filled by the host,   *)
(* an instant transmitter and the interrupt enable register.  LCR, MCR and *)
(* SCR only hold what software writes and are left out; FCR is ignored;    *)
(* LSR, IIR and MSR are read-only.  Each handler ends with update_irq().   *)
(***************************************************************************)
EXTENDS Integers, Sequences

CONSTANTS Data,         \* byte values
          FIFO_SIZE     \* 16

ASSUME UartAssumption == Data # {} /\ FIFO_SIZE \in Nat \ {0}

VARIABLES rx_fifo,
          ier,          \* ier_: a set of "RX_AVAIL" and "TX_EMPTY"
          irq           \* the level last given to on_irq

uartVars == <<rx_fifo, ier, irq>>

IerBits == {"RX_AVAIL", "TX_EMPTY"}

\* update_irq(): tx_empty_ is always true when it runs.
update_irq ==
    irq' = (("RX_AVAIL" \in ier' /\ rx_fifo' # <<>>) \/ "TX_EMPTY" \in ier')

\* The data-ready bit of LSR.
DataReady == rx_fifo # <<>>
-----------------------------------------------------------------------------
Init == rx_fifo = <<>> /\ ier = {} /\ irq = FALSE

\* Mutant of push_rx: the bound is off by one.
push_rx_OneMore(byte) ==
    /\ rx_fifo' = IF Len(rx_fifo) <= FIFO_SIZE THEN Append(rx_fifo, byte) ELSE rx_fifo
    /\ UNCHANGED ier
    /\ update_irq

\* push_rx(): the host delivers a byte, which is lost when the FIFO is full.
push_rx(byte) ==
    /\ rx_fifo' = IF Len(rx_fifo) < FIFO_SIZE THEN Append(rx_fifo, byte) ELSE rx_fifo
    /\ UNCHANGED ier
    /\ update_irq

\* Mutant of ReadRBR: the line is not updated.
ReadRBR_NoUpdate ==
    /\ rx_fifo' = IF DataReady THEN Tail(rx_fifo) ELSE rx_fifo
    /\ UNCHANGED <<ier, irq>>

\* Read of RBR; an empty FIFO reads as 0 and stays empty.
ReadRBR ==
    /\ rx_fifo' = IF DataReady THEN Tail(rx_fifo) ELSE rx_fifo
    /\ UNCHANGED ier
    /\ update_irq

\* Write of THR: on_tx, then the transmitter is empty again.
WriteTHR ==
    /\ UNCHANGED <<rx_fifo, ier>>
    /\ update_irq

WriteIER(val) ==
    /\ ier' = val
    /\ UNCHANGED rx_fifo
    /\ update_irq

Next ==
    \/ \E byte \in Data : push_rx(byte)
    \/ ReadRBR
    \/ WriteTHR
    \/ \E val \in SUBSET IerBits : WriteIER(val)

Spec == Init /\ [][Next]_uartVars
-----------------------------------------------------------------------------
\* The FIFO never holds more than its size.
TypeOK ==
    /\ rx_fifo \in Seq(Data) /\ Len(rx_fifo) <= FIFO_SIZE
    /\ ier \subseteq IerBits
    /\ irq \in BOOLEAN

\* The line is never stale: after every access and every byte of the host it is
\* up exactly when an enabled condition holds, so a handler that empties the FIFO
\* has lowered it and a byte that arrives in between raises it again.
UartLineExact ==
    irq <=> \/ "RX_AVAIL" \in ier /\ Len(rx_fifo) > 0
            \/ "TX_EMPTY" \in ier
=============================================================================
