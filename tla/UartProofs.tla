----------------------------- MODULE UartProofs -----------------------------
(***************************************************************************)
(* The UART for every size of its FIFO and every value of IER, and the      *)
(* steps of the receive path as steps of the abstract stream.               *)
(***************************************************************************)
EXTENDS UartEcho, TLAPS

\* The UART starts well typed, with an empty FIFO.
LEMMA InitType == Init => TypeOK
<1>1. <<>> \in Seq(Data) /\ Len(<<>>) = 0
  OBVIOUS
<1>2. {} \subseteq IerBits /\ FALSE \in BOOLEAN /\ 0 <= FIFO_SIZE
  BY UartAssumption
<1>3. QED BY <1>1, <1>2 DEF Init, TypeOK

\* The types survive each operation of the UART.
LEMMA PushType ==
    ASSUME TypeOK, NEW byte \in Data, push_rx(byte) PROVE TypeOK'
  BY UartAssumption DEF TypeOK, push_rx, update_irq

\* Reading RBR keeps the types.
LEMMA ReadType == ASSUME TypeOK, ReadRBR PROVE TypeOK'
  BY UartAssumption DEF TypeOK, ReadRBR, DataReady, update_irq

\* Writing THR keeps the types.
LEMMA TransmitType == ASSUME TypeOK, WriteTHR PROVE TypeOK'
  BY DEF TypeOK, WriteTHR, update_irq

\* Writing IER keeps the types.
LEMMA EnableType ==
    ASSUME TypeOK, NEW val \in SUBSET IerBits, WriteIER(val) PROVE TypeOK'
  BY DEF TypeOK, WriteIER, update_irq

\* The FIFO never holds more than its size (TypeOK), for any size.
THEOREM UartTypeCorrect == Spec => []TypeOK
<1>1. TypeOK /\ [Next]_uartVars => TypeOK'
  <2> SUFFICES ASSUME TypeOK, [Next]_uartVars PROVE TypeOK'
    OBVIOUS
  <2>1. CASE UNCHANGED uartVars
    BY <2>1 DEF TypeOK, uartVars
  <2>2. QED BY <2>1, PushType, ReadType, TransmitType, EnableType DEF Next
<1>2. QED BY InitType, <1>1, PTL DEF Spec

\* Every operation ends with update_irq(), which makes the line exact.
LEMMA UpdateExact == ASSUME TypeOK', update_irq PROVE UartLineExact'
<1>1. Len(rx_fifo') > 0 <=> rx_fifo' # <<>>
  BY DEF TypeOK
<1>2. QED BY <1>1 DEF update_irq, UartLineExact

\* The line is never stale (UartLineExact), for any sequence of IER values.
THEOREM UartLine == Spec => []UartLineExact
<1>1. Init => UartLineExact
  BY DEF Init, UartLineExact
<1>2. TypeOK' /\ UartLineExact /\ [Next]_uartVars => UartLineExact'
  <2> SUFFICES ASSUME TypeOK', UartLineExact, [Next]_uartVars PROVE UartLineExact'
    OBVIOUS
  <2>1. CASE UNCHANGED uartVars
    BY <2>1 DEF UartLineExact, uartVars
  <2>2. CASE Next
    BY <2>2, UpdateExact DEF Next, push_rx, ReadRBR, WriteTHR, WriteIER
  <2>3. QED BY <2>1, <2>2
<1>3. QED BY <1>1, <1>2, UartTypeCorrect, PTL DEF Spec
-----------------------------------------------------------------------------
(* The receive path as a stream. *)

\* Everything but a byte of the host and the read of RBR leaves the FIFO and the
\* history alone.
Quiet == UNCHANGED <<rx_fifo, accepted, delivered, dropped>> /\ (at' = "read" => DataReady)

\* A step is a byte of the host, a read of RBR, or quiet; the UART keeps its types.
LEMMA EchoCases ==
    ASSUME TypeOK, StreamInv, [EchoNext]_echoVars
    PROVE  TypeOK' /\ ((\E byte \in Data : HostByte(byte)) \/ Read \/ Quiet)
<1> USE DEF TypeOK, Quiet, history, Go
<1>1. CASE \E byte \in Data : HostByte(byte)
  BY <1>1, PushType DEF HostByte
<1>2. CASE Boot
  <2>1. {"RX_AVAIL"} \in SUBSET IerBits
    BY DEF IerBits
  <2>2. TypeOK'
    BY <1>2, <2>1, EnableType DEF Boot, uartVars
  <2>3. Quiet
    BY <1>2 DEF Boot, WriteIER, uartVars
  <2>4. QED BY <2>2, <2>3
<1>3. CASE Mask \/ Unmask
  <2>1. {"RX_AVAIL"} \in SUBSET IerBits /\ {} \in SUBSET IerBits
    BY DEF IerBits
  <2>2. TypeOK'
    BY <1>3, <2>1, EnableType DEF Mask, Unmask
  <2>3. Quiet
    BY <1>3 DEF Mask, Unmask, WriteIER
  <2>4. QED BY <2>2, <2>3
<1>4. CASE Enter \/ Claim \/ Complete
  BY <1>4 DEF Enter, Claim, Complete, uartVars
<1>5. CASE Poll
  BY <1>5 DEF Poll, uartVars
<1>6. CASE Read
  BY <1>6, ReadType DEF Read
<1>7. CASE Echo
  BY <1>7, TransmitType DEF Echo, WriteTHR
<1>8. CASE UNCHANGED echoVars
  BY <1>8 DEF echoVars, uartVars, StreamInv, DataReady
<1>9. QED
  BY <1>1, <1>2, <1>3, <1>4, <1>5, <1>6, <1>7, <1>8 DEF EchoNext, Firmware

\* A byte of the host is appended to the FIFO and to the accepted bytes, or dropped
\* when FIFO_SIZE bytes wait.
LEMMA HostStep ==
    ASSUME TypeOK, StreamInv, NEW byte \in Data, HostByte(byte)
    PROVE  StreamInv' /\ (Stream!Accept(byte) \/ Stream!Drop)
<1>1. /\ accepted \in Seq(Data) /\ delivered \in Seq(Data) /\ rx_fifo \in Seq(Data)
      /\ Len(accepted) = Len(delivered) + Len(rx_fifo) /\ dropped \in Nat
  BY DEF TypeOK, StreamInv
<1>2. Len(accepted) \in Nat /\ Len(delivered) \in Nat /\ Len(rx_fifo) \in Nat
  BY <1>1
<1>3. CASE Len(rx_fifo) < FIFO_SIZE
  <2>1. rx_fifo' = Append(rx_fifo, byte)
    BY <1>3 DEF HostByte, push_rx
  <2>2. /\ Len(rx_fifo') = Len(rx_fifo) + 1
        /\ \A j \in 1 .. Len(rx_fifo) : rx_fifo'[j] = rx_fifo[j]
        /\ rx_fifo'[Len(rx_fifo) + 1] = byte
    BY <1>1, <2>1
  <2>3. rx_fifo' # rx_fifo
    BY <1>2, <2>2
  <2>4. accepted' = Append(accepted, byte) /\ delivered' = delivered /\ dropped' = dropped
    BY <2>3 DEF HostByte
  <2>5. accepted' \in Seq(Data)
    BY <1>1, <2>4
  <2>6. /\ Len(accepted') = Len(accepted) + 1
        /\ \A j \in 1 .. Len(accepted) : accepted'[j] = accepted[j]
        /\ accepted'[Len(accepted) + 1] = byte
    BY <1>1, <2>4
  <2>7. \A i \in 1 .. Len(rx_fifo') : accepted'[Len(delivered') + i] = rx_fifo'[i]
    <3> TAKE i \in 1 .. Len(rx_fifo')
    <3>1. CASE i = Len(rx_fifo) + 1
      BY <1>1, <1>2, <2>2, <2>4, <2>6, <3>1
    <3>2. CASE i \in 1 .. Len(rx_fifo)
      <4>1. Len(delivered) + i \in 1 .. Len(accepted)
        BY <1>1, <1>2, <3>2
      <4>2. accepted[Len(delivered) + i] = rx_fifo[i]
        BY <3>2 DEF StreamInv
      <4>3. QED BY <2>2, <2>4, <2>6, <3>2, <4>1, <4>2
    <3>3. QED BY <1>2, <2>2, <3>1, <3>2
  <2>8. rx_fifo' # <<>>
    <3>1. Len(<<>>) = 0
      OBVIOUS
    <3>2. QED BY <1>2, <2>2, <3>1
  <2>9. Len(accepted') = Len(delivered') + Len(rx_fifo')
    BY <1>1, <1>2, <2>2, <2>4, <2>6
  <2>10. StreamInv'
    BY <1>1, <2>4, <2>5, <2>7, <2>8, <2>9 DEF StreamInv
  <2>11. Stream!Accept(byte)
    BY <1>1, <1>2, <1>3, <2>4 DEF Stream!Accept, Stream!Waiting
  <2>12. QED BY <2>10, <2>11
<1>4. CASE ~(Len(rx_fifo) < FIFO_SIZE)
  <2>1. UNCHANGED <<rx_fifo, accepted, delivered, at>> /\ dropped' = dropped + 1
    BY <1>4 DEF HostByte, push_rx
  <2>2. StreamInv'
    BY <1>1, <2>1 DEF StreamInv
  <2>3. Len(rx_fifo) = FIFO_SIZE
    BY <1>2, <1>4, UartAssumption DEF TypeOK
  <2>4. Stream!Drop
    BY <1>1, <1>2, <2>1, <2>3 DEF Stream!Drop, Stream!Waiting
  <2>5. QED BY <2>2, <2>4
<1>5. QED BY <1>3, <1>4

\* A read of RBR delivers the oldest byte that was accepted and not delivered.
LEMMA ReadStep ==
    ASSUME TypeOK, StreamInv, Read
    PROVE  StreamInv' /\ Stream!Deliver
<1>1. /\ accepted \in Seq(Data) /\ delivered \in Seq(Data) /\ rx_fifo \in Seq(Data)
      /\ Len(accepted) = Len(delivered) + Len(rx_fifo) /\ dropped \in Nat
  BY DEF TypeOK, StreamInv
<1>2. rx_fifo # <<>> /\ rx_fifo' = Tail(rx_fifo) /\ at' = "echo"
  BY DEF Read, Go, ReadRBR, DataReady, StreamInv
<1>3. delivered' = Append(delivered, Head(rx_fifo)) /\ UNCHANGED <<accepted, dropped>>
  BY <1>2 DEF Read, DataReady
<1>4. /\ Len(accepted) \in Nat /\ Len(delivered) \in Nat /\ Len(rx_fifo) \in Nat \ {0}
      /\ Head(rx_fifo) = rx_fifo[1] /\ rx_fifo[1] \in Data
  BY <1>1, <1>2
<1>5. /\ Len(rx_fifo') = Len(rx_fifo) - 1
      /\ \A i \in 1 .. Len(rx_fifo) - 1 : rx_fifo'[i] = rx_fifo[i + 1]
  BY <1>1, <1>2, <1>4
<1>6. Len(delivered') = Len(delivered) + 1 /\ delivered' \in Seq(Data)
  BY <1>1, <1>3, <1>4
<1>7. \A i \in 1 .. Len(rx_fifo') : accepted'[Len(delivered') + i] = rx_fifo'[i]
  <2> TAKE i \in 1 .. Len(rx_fifo')
  <2>1. i + 1 \in 1 .. Len(rx_fifo) /\ Len(delivered') + i = Len(delivered) + (i + 1)
    BY <1>4, <1>5, <1>6
  <2>2. accepted[Len(delivered) + (i + 1)] = rx_fifo[i + 1]
    BY <2>1 DEF StreamInv
  <2>3. i \in 1 .. Len(rx_fifo) - 1
    BY <1>5
  <2>4. QED BY <1>3, <1>5, <2>1, <2>2, <2>3
<1>8. Len(accepted') = Len(delivered') + Len(rx_fifo')
  <2>1. accepted' = accepted
    BY <1>3
  <2>2. Len(accepted) = (Len(delivered) + 1) + (Len(rx_fifo) - 1)
    BY <1>1, <1>4
  <2>3. QED BY <1>5, <1>6, <2>1, <2>2
<1>9. at' # "read"
  BY <1>2
<1>10. StreamInv'
  BY <1>1, <1>3, <1>6, <1>7, <1>8, <1>9 DEF StreamInv
<1>11. accepted[Len(delivered) + 1] = rx_fifo[1]
  BY <1>4 DEF StreamInv
<1>12. Stream!Deliver
  BY <1>1, <1>3, <1>4, <1>11 DEF Stream!Deliver, Stream!Waiting
<1>13. QED BY <1>10, <1>12

\* The receive path takes only steps of the stream, for every FIFO size and any
\* number of bytes: nothing accepted is lost, duplicated or reordered, and a byte is
\* dropped only when the FIFO is full.
THEOREM UartStream == EchoSpec => Stream!Init /\ [][Stream!Next]_Stream!streamVars
<1>1. EchoInit => TypeOK /\ StreamInv /\ Stream!Init
  BY InitType DEF EchoInit, Init, StreamInv, Stream!Init
<1>2. TypeOK /\ StreamInv /\ [EchoNext]_echoVars
      => (TypeOK /\ StreamInv)' /\ [Stream!Next]_Stream!streamVars
  <2> SUFFICES ASSUME TypeOK, StreamInv, [EchoNext]_echoVars
               PROVE  (TypeOK /\ StreamInv)' /\ [Stream!Next]_Stream!streamVars
    OBVIOUS
  <2>1. CASE \E byte \in Data : HostByte(byte)
    BY <2>1, EchoCases, HostStep DEF Stream!Next
  <2>2. CASE Read
    BY <2>2, EchoCases, ReadStep DEF Stream!Next
  <2>3. CASE Quiet
    BY <2>3, EchoCases DEF Quiet, StreamInv, DataReady, Stream!streamVars
  <2>4. QED BY <2>1, <2>2, <2>3, EchoCases
<1>3. QED BY <1>1, <1>2, PTL DEF EchoSpec
-----------------------------------------------------------------------------
(* The interrupt that announces a byte. *)

\* The UART's line at the PLIC.
LEMMA OnIrqSets ==
    ASSUME OnIrq
    PROVE  /\ pending' = IF irq' THEN pending \cup {IRQ_UART} ELSE pending \ {IRQ_UART}
           /\ UNCHANGED <<priority, enabled, threshold, claimed>>
           /\ P!LineExact'
<1>1. P!evaluate_irq => P!LineExact'
  BY DEF P!evaluate_irq, P!LineExact, P!Actionable, P!Beats
<1>2. QED BY <1>1 DEF OnIrq, P!set_pending

\* A byte that waits keeps the line of the UART up while RX_AVAIL is enabled.
LEMMA WaitingRaises ==
    ASSUME update_irq, OnIrq, ier' = {"RX_AVAIL"}, rx_fifo' # <<>>
    PROVE  IRQ_UART \in pending'
  BY OnIrqSets DEF update_irq

\* With two ids a claim returns the UART or nothing.
LEMMA ClaimTakes ==
    ASSUME P!ReadClaim, claimed = {}, P!LineExact
    PROVE  /\ claimed' \subseteq {IRQ_UART}
           /\ UNCHANGED <<priority, enabled, threshold>>
           /\ P!LineExact'
<1>1. P!Actionable \subseteq {IRQ_UART}
  BY DEF P!Actionable, P!Beats, P!Sources, IRQ_UART
<1>2. P!claim_best # 0 => P!claim_best = IRQ_UART
  <2>1. CASE P!Actionable = {}
    BY <2>1 DEF P!claim_best
  <2>2. CASE P!Actionable = {IRQ_UART}
    <3>1. P!claim_best \in {IRQ_UART} \/ P!claim_best = 0
      BY <2>2 DEF P!claim_best, IRQ_UART
    <3>2. QED BY <3>1
  <2>3. QED BY <1>1, <2>1, <2>2
<1>3. P!evaluate_irq => P!LineExact'
  BY DEF P!evaluate_irq, P!LineExact, P!Actionable, P!Beats
<1>4. CASE P!claim_best # 0
  BY <1>2, <1>3, <1>4 DEF P!ReadClaim
<1>5. CASE P!claim_best = 0
  BY <1>5 DEF P!ReadClaim, P!plicVars, P!LineExact
<1>6. QED BY <1>4, <1>5

\* Every step of the host, the UART, the PLIC and the handler keeps the invariant.
LEMMA SignalStep ==
    ASSUME SignalInv, [EchoNext]_echoVars
    PROVE  SignalInv'
<1> USE DEF Go, Booting, IRQ_UART
<1>1. P!evaluate_irq => P!LineExact'
  BY DEF P!evaluate_irq, P!LineExact, P!Actionable, P!Beats
<1>2. ASSUME NEW byte \in Data, HostByte(byte) PROVE SignalInv'
  <2>1. update_irq /\ OnIrq /\ ier' = ier /\ at' = at
    BY <1>2 DEF HostByte, push_rx
  <2>2. QED BY <2>1, OnIrqSets, WaitingRaises DEF SignalInv
<1>3. CASE Boot
  <2>1. CASE Go("boot_prio", "boot_en") /\ P!WritePriority(IRQ_UART, 1) /\ UNCHANGED uartVars
    <3>1. priority' = [priority EXCEPT ![1] = 1]
      <4>1. 1 % (1 + 1) = 1
        OBVIOUS
      <4>2. QED BY <2>1, <4>1 DEF P!WritePriority
    <3>2. UNCHANGED <<pending, enabled, threshold, claimed>> /\ P!LineExact'
      BY <1>1, <2>1 DEF P!WritePriority
    <3>3. QED BY <2>1, <3>1, <3>2 DEF SignalInv, uartVars
  <2>2. CASE Go("boot_en", "boot_ier") /\ P!WriteEnable({IRQ_UART}) /\ UNCHANGED uartVars
    BY <1>1, <2>2 DEF SignalInv, uartVars, P!WriteEnable
  <2>3. CASE Go("boot_ier", "main") /\ WriteIER({"RX_AVAIL"}) /\ OnIrq
    BY <2>3, OnIrqSets, WaitingRaises DEF SignalInv, WriteIER
  <2>4. QED BY <1>3, <2>1, <2>2, <2>3 DEF Boot
<1>4. CASE Mask
  BY <1>4, OnIrqSets DEF SignalInv, Mask, WriteIER
<1>5. CASE Unmask
  BY <1>5, OnIrqSets, WaitingRaises DEF SignalInv, Unmask, WriteIER
<1>6. CASE Enter
  BY <1>6 DEF SignalInv, Enter, uartVars, plicOwn, P!LineExact
<1>7. CASE Claim
  BY <1>7, ClaimTakes DEF SignalInv, Claim, uartVars
<1>8. CASE Poll
  BY <1>8 DEF SignalInv, Poll, DataReady, uartVars, plicOwn, P!LineExact
<1>9. CASE Read
  BY <1>9, OnIrqSets DEF SignalInv, Read, ReadRBR
<1>10. CASE Echo
  BY <1>10, OnIrqSets DEF SignalInv, Echo, WriteTHR
<1>11. CASE Complete
  <2>1. claimed' = claimed \ {1} /\ UNCHANGED <<priority, pending, enabled, threshold>> /\ P!LineExact'
    BY <1>1, <1>11 DEF Complete, P!WriteComplete
  <2>2. QED BY <1>11, <2>1 DEF SignalInv, Complete, uartVars
<1>12. CASE UNCHANGED echoVars
  BY <1>12 DEF SignalInv, echoVars, uartVars, plicOwn, P!LineExact
<1>13. QED
  BY <1>2, <1>3, <1>4, <1>5, <1>6, <1>7, <1>8, <1>9, <1>10, <1>11, <1>12 DEF EchoNext, Firmware

\* No byte is stranded, for any number of bytes and any FIFO size: whenever the firmware
\* is in its main loop and the PLIC signals nothing, the FIFO is empty (NoneStranded).
THEOREM UartNoneStranded == EchoSpec => []NoneStranded
<1>1. EchoInit => SignalInv
  BY DEF EchoInit, Init, P!Init, SignalInv, Booting, IRQ_UART, P!LineExact, P!Ids
<1>2. SignalInv => NoneStranded
  BY DEF SignalInv, NoneStranded, P!LineExact, P!Sources, IRQ_UART, Booting
<1>3. SignalInv /\ [EchoNext]_echoVars => SignalInv'
  BY SignalStep
<1>4. QED BY <1>1, <1>2, <1>3, PTL DEF EchoSpec
=============================================================================
