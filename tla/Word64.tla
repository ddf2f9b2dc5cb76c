------------------------------- MODULE Word64 -------------------------------
(***************************************************************************)
(* 64-bit registers of the CLINT and of the Timer peripheral, which the    *)
(* 32-bit bus only reaches one half at a time.  A value is the pair of its *)
(* halves, each below Half (2^32 in the code): a half-write replaces one   *)
(* component, the tick carries from one to the other and wraps.            *)
(***************************************************************************)
EXTENDS Integers

CONSTANT Half           \* number of values of one half

ASSUME HalfAssumption == Half \in Nat /\ Half > 1

Halves == 0 .. Half - 1
Word   == [hi : Halves, lo : Halves]
MaxWord  == [hi |-> Half - 1, lo |-> Half - 1]
ZeroWord == [hi |-> 0, lo |-> 0]

\* (x & 0xFFFFFFFF00000000) | val   and   (x & 0xFFFFFFFF) | (val << 32)
SetLo(x, val) == [hi |-> x.hi, lo |-> val]

\* Mutant of SetHi: the low half is not kept.
SetHi_ClearsLo(x, val) == [hi |-> val, lo |-> 0]

SetHi(x, val) == [hi |-> val, lo |-> x.lo]

\* Mutant of Inc: the carry out of the low half is lost.
Inc_NoCarry(x) == [hi |-> x.hi, lo |-> (x.lo + 1) % Half]

\* x++ on an unsigned 64-bit integer
Inc(x) ==
    IF x.lo < Half - 1 THEN [hi |-> x.hi, lo |-> x.lo + 1]
    ELSE [hi |-> (x.hi + 1) % Half, lo |-> 0]

\* x >= y
Geq(x, y) == x.hi > y.hi \/ (x.hi = y.hi /\ x.lo >= y.lo)
=============================================================================
