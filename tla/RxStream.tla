------------------------------ MODULE RxStream ------------------------------
(***************************************************************************)
(* What the receive path of the UART promises to the program that reads    *)
(* it, without FIFO, interrupt line or handler: bytes are delivered once   *)
(* each and in order; a byte is dropped only when Cap bytes are waiting;   *)
(* and a byte that was accepted is delivered in the end.                   *)
(***************************************************************************)
EXTENDS Integers, Sequences

CONSTANTS Data, Cap

VARIABLES accepted, delivered, dropped

streamVars == <<accepted, delivered, dropped>>

Waiting == Len(accepted) - Len(delivered)

Init == accepted = <<>> /\ delivered = <<>> /\ dropped = 0

Accept(byte) ==
    /\ Waiting < Cap
    /\ accepted' = Append(accepted, byte)
    /\ UNCHANGED <<delivered, dropped>>

Drop ==
    /\ Waiting = Cap
    /\ dropped' = dropped + 1
    /\ UNCHANGED <<accepted, delivered>>

Deliver ==
    /\ Waiting > 0
    /\ delivered' = Append(delivered, accepted[Len(delivered) + 1])
    /\ UNCHANGED <<accepted, dropped>>

Next == (\E byte \in Data : Accept(byte)) \/ Drop \/ Deliver

Spec == Init /\ [][Next]_streamVars /\ WF_streamVars(Deliver)
=============================================================================
