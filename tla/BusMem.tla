------------------------------ MODULE BusMem --------------------------------
(***************************************************************************)
(* What the bus masters besides the ISS see of the bus: the decoder of     *)
(* src/src/bus/tlm_bus.cpp in front of the RAM (mem/memory.cpp) and of the *)
(* boot ROM (mem/bootrom.cpp).  Their accesses go through b_transport and  *)
(* never wait.  The registers of the peripherals are not targets here.     *)
(***************************************************************************)
EXTENDS Integers, FiniteSets

CONSTANTS Rom, Ram,     \* address ranges, as [lo, hi] with hi included
          Space,        \* number of addresses (2^32)
          Bytes         \* the values of a memory cell

Span(r) == r.lo .. r.hi
Cells   == Span(Rom) \cup Span(Ram)
Addrs   == 0 .. Space - 1

\* The RAM ends in the middle of the address space (0x88000000), so that the address
\* after a burst does not wrap while the bursts succeed.
ASSUME BusMemAssumption ==
    /\ Space \in Nat
    /\ \A r \in {Rom, Ram} : r.lo \in Nat /\ r.hi \in Nat /\ r.lo <= r.hi /\ r.hi + 1 < Space
    /\ Rom.hi < Ram.lo
    /\ Bytes # {}

VARIABLES mem,          \* the memory the masters share
          alive         \* the simulation runs; SC_REPORT_ERROR ends it

\* The answer of the bus to an access of n bytes at addr: the target is decoded
\* from the first address; a range that leaves it raises SC_REPORT_ERROR, whose
\* default action throws out of the thread.
Access(write, addr, n) ==
    LET in(r) == addr \in Span(r) IN
    IF ~in(Rom) /\ ~in(Ram) THEN "error"
    ELSE IF addr + n - 1 > (IF in(Rom) THEN Rom.hi ELSE Ram.hi) THEN "abort"
    ELSE IF write /\ in(Rom) THEN "error"
    ELSE "ok"

\* Mutant of Put: the last byte is forgotten.
Put_DropsLast(m, dst, n, data) ==
    [a \in Cells |-> IF a \in dst .. dst + n - 2 THEN data[a - dst] ELSE m[a]]

\* The memory m with the n bytes of a buffer written at dst.
Put(m, dst, n, data) ==
    [a \in Cells |-> IF a \in dst .. dst + n - 1 THEN data[a - dst] ELSE m[a]]
=============================================================================
