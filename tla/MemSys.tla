------------------------------ MODULE MemSys --------------------------------
(***************************************************************************)
(* The memory system as the ISS and the debugger see it: bus_read,         *)
(* bus_write and try_dmi of src/src/cpu/iss.cpp, the decoder of            *)
(* src/src/bus/tlm_bus.cpp, and the memories behind it, mem/memory.cpp and *)
(* mem/bootrom.cpp.  Addresses count 16-bit parcels, the unit of an        *)
(* instruction: an access of 4 bytes is one of two parcels.  Each target   *)
(* keeps an array with addresses of its own; the bus translates.           *)
(***************************************************************************)
EXTENDS Integers

CONSTANTS RomSize,      \* The boot ROM is at 0
          RamBase, RamSize,
          Space,        \* Addresses are computed modulo Space (2^32 bytes in the code)
          Content       \* What the loaded image has at each address

ASSUME MemSysAssumption ==
    /\ RomSize \in Nat \ {0} /\ RamSize \in Nat \ {0}
    /\ RamBase \in Nat /\ RomSize <= RamBase
    /\ Space \in Nat /\ RamBase + RamSize <= Space

Addrs   == 0 .. Space - 1
Targets == {"rom", "ram"}
Base(t) == IF t = "rom" THEN 0 ELSE RamBase
Size(t) == IF t = "rom" THEN RomSize ELSE RamSize

\* The parcels: EBREAK is the two of the breakpoint instruction (0x0073, 0x0010),
\* C_EBREAK the one of its compressed form, Nothing the 0 of a failed read, Written
\* what else is stored, and the numbers from 0 are any others.
Written  == -1
EBREAK   == [i \in 0 .. 1 |-> -2 - i]
Nothing  == -4
C_EBREAK == -5
Parcels  == -5 .. Space - 1

\* What the program and the debugger store: data, or the program's own breakpoint.
Data == {Written, C_EBREAK}

ASSUME ContentAssumption == Content \in [Addrs -> Parcels]
Image == [t \in Targets |-> [i \in 0 .. Size(t) - 1 |-> Content[Base(t) + i]]]

\* A region as the ISS caches it, and none.
Region(t, lo, hi) == [t |-> t, lo |-> lo, hi |-> hi]
NoDmi == Region("none", 0, 0)
-----------------------------------------------------------------------------
(* The bus and its targets. *)

decode(a) == IF \E t \in Targets : a >= Base(t) /\ a < Base(t) + Size(t)
             THEN CHOOSE t \in Targets : a >= Base(t) /\ a < Base(t) + Size(t)
             ELSE "none"

\* Mutant of get_direct_mem_ptr: the end address is the size.
get_direct_mem_ptr_SizeAsEnd(t) == Region(t, 0 + Base(t), Size(t) + Base(t))

\* A memory grants all of itself, in its own addresses; the bus adds the base.
get_direct_mem_ptr(t) == Region(t, 0 + Base(t), Size(t) - 1 + Base(t))

\* What dmi may be.
Regions == {NoDmi} \cup {get_direct_mem_ptr(t) : t \in Targets}

\* b_transport with n parcels at a: the target is that of the first one, and an
\* access that leaves it is SC_REPORT_ERROR, which ends the simulation.
OutOfBounds(a, n) == decode(a) # "none" /\ a - Base(decode(a)) + n > Size(decode(a))
-----------------------------------------------------------------------------
(* The ISS's side, with dmi the cached region.  a + n - 1 wraps around: a    *)
(* region that starts at 0 also seems to hold an access at the very top,     *)
(* which then leaves the host's array.                                       *)

DirectHit(dmi, a, n) == dmi # NoDmi /\ a >= dmi.lo /\ (a + n - 1) % Space <= dmi.hi

\* The access ends the simulation.
Fatal(dmi, a, n) ==
    IF DirectHit(dmi, a, n) THEN a - dmi.lo + n > Size(dmi.t) ELSE OutOfBounds(a, n)

\* The n parcels that bus_read returns; a decode miss leaves the buffer at 0.
bus_read(mem, dmi, a, n) ==
    [i \in 0 .. n - 1 |-> CASE DirectHit(dmi, a, n) -> mem[dmi.t][a - dmi.lo + i]
                            [] ~DirectHit(dmi, a, n) /\ decode(a) # "none" ->
                                   mem[decode(a)][a - Base(decode(a)) + i]
                            [] OTHER -> Nothing]

\* Only a read that finds no region asks for one, for the target it has read.
try_dmi(dmi, a) ==
    IF dmi = NoDmi /\ decode(a) # "none" THEN get_direct_mem_ptr(decode(a)) ELSE dmi

Put(cells, at, n, data) ==
    [i \in DOMAIN cells |-> IF i \in at .. at + n - 1 THEN data[i - at] ELSE cells[i]]

\* A cached region is written whatever it was granted for; through the bus the boot
\* ROM refuses.
bus_write(mem, dmi, a, n, data) ==
    CASE DirectHit(dmi, a, n) -> [mem EXCEPT ![dmi.t] = Put(@, a - dmi.lo, n, data)]
      [] ~DirectHit(dmi, a, n) /\ decode(a) = "ram" ->
             [mem EXCEPT !["ram"] = Put(@, a - RamBase, n, data)]
      [] OTHER -> mem
=============================================================================
