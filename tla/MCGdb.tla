------------------------------- MODULE MCGdb --------------------------------
(* A ROM of two parcels, where the ISS starts, and a RAM of three, whose image *)
(* ends in an EBREAK of its own, at 3; breakpoints overlap it and each other.  *)
EXTENDS Gdb
MCContent == [a \in Addrs |-> IF a \in 3 .. 4 THEN EBREAK[a - 3] ELSE a]
MCJumps == {2}
MCStores == {2}
MCBpAddrs == {2, 3, 4}
=============================================================================
