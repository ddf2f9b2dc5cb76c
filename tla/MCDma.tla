------------------------------- MODULE MCDma --------------------------------
(* A ROM of one cell, a hole, a RAM of four cells, addresses that wrap at 7,  *)
(* bursts of two bytes and transfers of up to three.                          *)
EXTENDS Dma
RomRange == [lo |-> 0, hi |-> 0]
RamRange == [lo |-> 2, hi |-> 5]
=============================================================================
