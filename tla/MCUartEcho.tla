----------------------------- MODULE MCUartEcho -----------------------------
(* Two byte values, a FIFO of two and a host that sends five bytes, so that   *)
(* the FIFO overflows and drains at every point of the handler.               *)
EXTENDS UartEcho
=============================================================================
