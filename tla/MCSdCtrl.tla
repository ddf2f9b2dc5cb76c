------------------------------ MODULE MCSdCtrl ------------------------------
(* A card of two blocks of two bytes in front of a ROM of one cell and a RAM  *)
(* of five, so that a block may straddle the end of the RAM.                  *)
EXTENDS SdCtrl
RomRange == [lo |-> 0, hi |-> 0]
RamRange == [lo |-> 2, hi |-> 6]
TwoBlocks == [b \in {0, 1} |-> [j \in 0 .. 1 |-> IF b = 0 THEN 0 ELSE j]]
=============================================================================
