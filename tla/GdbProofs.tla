----------------------------- MODULE GdbProofs ------------------------------
(***************************************************************************)
(* The debugger for any memory map, any program and any breakpoints: the   *)
(* handshake between ISS::run and the server, and what the cached region   *)
(* and the breakpoints do to the memory.                                   *)
(***************************************************************************)
EXTENDS Gdb, TLAPS

-----------------------------------------------------------------------------
(* The memory map. *)

\* The two memories lie in the address space and have numbers for their bounds.
LEMMA MapBounds ==
    /\ Space \in Nat /\ Space > 0
    /\ \A t \in Targets : Base(t) \in Nat /\ Size(t) \in Nat /\ Size(t) > 0
                          /\ Base(t) + Size(t) <= Space
  BY MemSysAssumption DEF Targets, Base, Size

\* decode() finds the one memory an address lies in, or none.
LEMMA DecodeExact ==
    ASSUME NEW a \in Int
    PROVE  /\ decode(a) \in Targets \cup {"none"}
           /\ \A t \in Targets : decode(a) = t <=> a >= Base(t) /\ a < Base(t) + Size(t)
<1> DEFINE Holds(t) == a >= Base(t) /\ a < Base(t) + Size(t)
<1>1. ~ (Holds("rom") /\ Holds("ram"))
  BY MemSysAssumption DEF Base, Size
<1>2. CASE \E t \in Targets : Holds(t)
  <2>1. PICK t \in Targets : Holds(t)
    BY <1>2
  <2>2. \A u \in Targets : Holds(u) => u = t
    BY <1>1, <2>1 DEF Targets
  <2>3. decode(a) = t
    BY <2>1, <2>2 DEF decode
  <2>4. QED BY <2>1, <2>2, <2>3
<1>3. CASE ~ \E t \in Targets : Holds(t)
  <2>1. decode(a) = "none"
    BY <1>3 DEF decode
  <2>2. QED BY <1>3, <2>1 DEF Targets
<1>4. QED BY <1>2, <1>3

\* The fields of a cached region.
LEMMA RegionFields ==
    ASSUME NEW r \in Regions, r # NoDmi
    PROVE  /\ r.t \in Targets
           /\ r.lo = Base(r.t) /\ r.hi = Base(r.t) + Size(r.t) - 1
<1>1. PICK t \in Targets : r = get_direct_mem_ptr(t)
  BY DEF Regions
<1>2. r.t = t /\ r.lo = 0 + Base(t) /\ r.hi = Size(t) - 1 + Base(t)
  BY <1>1 DEF get_direct_mem_ptr, Region
<1>3. QED BY <1>1, <1>2, MapBounds

\* A region that is asked for is one of the two memories or none.
LEMMA TryDmiRegion ==
    ASSUME NEW r \in Regions, NEW a \in Addrs
    PROVE  try_dmi(r, a) \in Regions
<1>1. a \in Int
  BY MapBounds DEF Addrs
<1>2. decode(a) # "none" => decode(a) \in Targets
  BY <1>1, DecodeExact
<1>3. QED BY <1>2 DEF try_dmi, Regions

\* Without wrapping around, an access that hits the cached region lies in the memory
\* the bus would decode it to, at the same place.
LEMMA HitInside ==
    ASSUME NEW r \in Regions, NEW a \in Addrs, NEW n \in 1 .. 2,
           DirectHit(r, a, n), a + n <= Space
    PROVE  /\ decode(a) = r.t /\ r.t \in Targets
           /\ r.lo = Base(r.t) /\ a >= Base(r.t) /\ a + n <= Base(r.t) + Size(r.t)
<1>1. a \in Nat /\ n \in Nat /\ a + n - 1 < Space /\ a + n - 1 >= 0
  BY MapBounds DEF Addrs
<1>2. (a + n - 1) % Space = a + n - 1
  BY <1>1, MapBounds
<1>3. r # NoDmi /\ a >= r.lo /\ a + n - 1 <= r.hi
  BY <1>2 DEF DirectHit
<1>4. /\ r.t \in Targets
      /\ r.lo = Base(r.t) /\ r.hi = Base(r.t) + Size(r.t) - 1
  BY <1>3, RegionFields
<1>5. a >= Base(r.t) /\ a + n <= Base(r.t) + Size(r.t)
  BY <1>1, <1>3, <1>4, MapBounds
<1>6. decode(a) = r.t
  BY <1>1, <1>4, <1>5, MapBounds, DecodeExact
<1>7. QED BY <1>4, <1>5, <1>6

\* An access that does not end the simulation and hits the region does not wrap.
LEMMA SafeHit ==
    ASSUME NEW r \in Regions, NEW a \in Addrs, NEW n \in 1 .. 2,
           DirectHit(r, a, n), ~Fatal(r, a, n)
    PROVE  a + n <= Space
<1>1. r # NoDmi /\ ~ (a - r.lo + n > Size(r.t))
  BY DEF DirectHit, Fatal
<1>2. r.t \in Targets /\ r.lo = Base(r.t)
  BY <1>1, RegionFields
<1>3. QED BY <1>1, <1>2, MapBounds DEF Addrs

\* So it does not end the simulation over the bus, either, and the region's memory is
\* the decoded one.
LEMMA SafeInside ==
    ASSUME NEW r \in Regions, NEW a \in Addrs, NEW n \in 1 .. 2, ~Fatal(r, a, n),
           decode(a) # "none"
    PROVE  /\ decode(a) \in Targets
           /\ a >= Base(decode(a)) /\ a + n <= Base(decode(a)) + Size(decode(a))
<1>1. a \in Int /\ n \in Int
  BY MapBounds DEF Addrs
<1>2. decode(a) \in Targets /\ a >= Base(decode(a))
  BY <1>1, DecodeExact
<1>3. CASE DirectHit(r, a, n)
  BY <1>3, SafeHit, HitInside, <1>2
<1>4. CASE ~DirectHit(r, a, n)
  BY <1>1, <1>2, <1>4, MapBounds DEF Fatal, OutOfBounds
<1>5. QED BY <1>3, <1>4

\* NoDmi is never hit.
LEMMA NoHit == \A a, n : ~DirectHit(NoDmi, a, n)
  BY DEF DirectHit

\* The cached region and the bus agree on every access that hits the region and does
\* not wrap around: neither ends the simulation, both read the same, and both write
\* the same but for the ROM.
LEMMA HitAgrees ==
    ASSUME NEW m, NEW r \in Regions, NEW a \in Addrs, NEW n \in 1 .. 2, NEW data,
           DirectHit(r, a, n), a + n <= Space
    PROVE  /\ ~Fatal(r, a, n) /\ ~Fatal(NoDmi, a, n)
           /\ bus_read(m, r, a, n) = bus_read(m, NoDmi, a, n)
           /\ r.t = "rom" \/ bus_write(m, r, a, n, data) = bus_write(m, NoDmi, a, n, data)
<1>1. /\ decode(a) = r.t /\ r.t \in Targets
      /\ r.lo = Base(r.t) /\ a >= Base(r.t) /\ a + n <= Base(r.t) + Size(r.t)
  BY HitInside
<1>2. a \in Int /\ n \in Int /\ decode(a) # "none"
  BY <1>1, MapBounds DEF Addrs, Targets
<1>3. ~ (a - Base(r.t) + n > Size(r.t))
  BY <1>1, <1>2, MapBounds
<1>4. ~Fatal(r, a, n)
  BY <1>1, <1>3 DEF Fatal
<1>5. ~Fatal(NoDmi, a, n)
  BY <1>1, <1>3, NoHit DEF Fatal, OutOfBounds
<1>6. bus_read(m, r, a, n) = bus_read(m, NoDmi, a, n)
  <2>1. \A i \in 0 .. n - 1 : bus_read(m, r, a, n)[i] = bus_read(m, NoDmi, a, n)[i]
    BY <1>1, <1>2, NoHit DEF bus_read
  <2>2. QED BY <2>1 DEF bus_read
<1>7. ASSUME r.t # "rom"
      PROVE  bus_write(m, r, a, n, data) = bus_write(m, NoDmi, a, n, data)
  <2>1. r.t = "ram" /\ Base("ram") = RamBase
    BY <1>1, <1>7 DEF Targets, Base
  <2>2. QED BY <1>1, <2>1, NoHit DEF bus_write
<1>8. QED BY <1>4, <1>5, <1>6, <1>7

\* The fetch of a region does not change what the same access reads, nor make it fatal.
LEMMA FetchKeepsRead ==
    ASSUME NEW m, NEW r \in Regions, NEW a \in Addrs, NEW n \in 1 .. 2, ~Fatal(r, a, n)
    PROVE  /\ ~Fatal(try_dmi(r, a), a, n)
           /\ bus_read(m, try_dmi(r, a), a, n) = bus_read(m, r, a, n)
<1> DEFINE q == try_dmi(r, a)
<1>1. CASE q = r
  BY <1>1
<1>2. CASE q # r
  <2>1. r = NoDmi /\ decode(a) # "none" /\ q \in Regions
    BY <1>2, TryDmiRegion DEF try_dmi
  <2>2. a + n <= Space
    BY <2>1, SafeInside, MapBounds DEF Addrs
  <2>3. CASE DirectHit(q, a, n)
    BY <2>1, <2>2, <2>3, HitAgrees
  <2>4. CASE ~DirectHit(q, a, n)
    <3>1. bus_read(m, q, a, n) = bus_read(m, NoDmi, a, n)
      BY <2>4, NoHit DEF bus_read
    <3>2. QED BY <2>1, <2>4, <3>1, NoHit DEF Fatal
  <2>5. QED BY <2>3, <2>4
<1>3. QED BY <1>1, <1>2

\* An access of one parcel never ends the simulation.
LEMMA OneIsSafe ==
    ASSUME NEW r \in Regions, NEW a \in Addrs
    PROVE  ~Fatal(r, a, 1)
<1>1. a \in Int /\ a + 1 <= Space
  BY MapBounds DEF Addrs
<1>2. CASE DirectHit(r, a, 1)
  BY <1>1, <1>2, HitAgrees
<1>3. CASE ~DirectHit(r, a, 1)
  <2>1. ~OutOfBounds(a, 1)
    BY <1>1, DecodeExact, MapBounds DEF OutOfBounds
  <2>2. QED BY <1>3, <2>1 DEF Fatal
<1>4. QED BY <1>2, <1>3
-----------------------------------------------------------------------------
(* What an access does to the memories. *)

\* The memories are arrays of parcels.
MemOK(m) ==
    /\ DOMAIN m = Targets
    /\ \A t \in Targets : m[t] \in [0 .. Size(t) - 1 -> Parcels]

\* Put() of one or two parcels leaves an array of parcels.
LEMMA PutType ==
    ASSUME NEW N \in Nat, NEW cells \in [0 .. N - 1 -> Parcels], NEW at \in Int,
           NEW n \in 1 .. 2, NEW data, \A i \in 0 .. n - 1 : data[i] \in Parcels
    PROVE  Put(cells, at, n, data) \in [0 .. N - 1 -> Parcels]
<1>1. \A i \in 0 .. N - 1 : i \in at .. at + n - 1 => i - at \in 0 .. n - 1
  OBVIOUS
<1>2. QED BY <1>1 DEF Put

\* bus_write() leaves arrays of parcels behind.
LEMMA WriteType ==
    ASSUME NEW m, MemOK(m), NEW r \in Regions, NEW a \in Addrs, NEW n \in 1 .. 2,
           NEW data, \A i \in 0 .. n - 1 : data[i] \in Parcels
    PROVE  MemOK(bus_write(m, r, a, n, data))
<1>1. a \in Int /\ RamBase \in Int /\ "ram" \in Targets
  BY MemSysAssumption DEF Addrs, Targets
<1>2. CASE DirectHit(r, a, n)
  <2>1. r.t \in Targets /\ r.lo \in Int
    BY <1>2, RegionFields, MapBounds DEF DirectHit
  <2>2. Put(m[r.t], a - r.lo, n, data) \in [0 .. Size(r.t) - 1 -> Parcels]
    <3>1. m[r.t] \in [0 .. Size(r.t) - 1 -> Parcels] /\ Size(r.t) \in Nat /\ a - r.lo \in Int
      BY <1>1, <2>1, MapBounds DEF MemOK
    <3>2. QED BY <3>1, PutType
  <2>3. bus_write(m, r, a, n, data) = [m EXCEPT ![r.t] = Put(m[r.t], a - r.lo, n, data)]
    BY <1>2 DEF bus_write
  <2>4. QED BY <2>1, <2>2, <2>3 DEF MemOK
<1>3. CASE ~DirectHit(r, a, n) /\ decode(a) = "ram"
  <2>1. Put(m["ram"], a - RamBase, n, data) \in [0 .. Size("ram") - 1 -> Parcels]
    <3>1. m["ram"] \in [0 .. Size("ram") - 1 -> Parcels] /\ Size("ram") \in Nat /\ a - RamBase \in Int
      BY <1>1, MapBounds DEF MemOK
    <3>2. QED BY <3>1, PutType
  <2>2. bus_write(m, r, a, n, data) = [m EXCEPT !["ram"] = Put(m["ram"], a - RamBase, n, data)]
    BY <1>3 DEF bus_write
  <2>3. QED BY <1>1, <2>1, <2>2 DEF MemOK
<1>4. CASE ~DirectHit(r, a, n) /\ decode(a) # "ram"
  BY <1>4 DEF bus_write
<1>5. QED BY <1>2, <1>3, <1>4

\* What an access that does not end the simulation reads from the RAM are its parcels.
LEMMA ReadRam ==
    ASSUME NEW m, NEW r \in Regions, NEW a \in Addrs, NEW n \in 1 .. 2, ~Fatal(r, a, n),
           decode(a) = "ram"
    PROVE  \A i \in 0 .. n - 1 : bus_read(m, r, a, n)[i] = m["ram"][a + i - RamBase]
<1>1. a \in Int /\ RamBase \in Int /\ "ram" \in Targets /\ Base("ram") = RamBase
  BY MemSysAssumption DEF Addrs, Targets, Base
<1>2. bus_read(m, r, a, n) = bus_read(m, NoDmi, a, n)
  <2>1. CASE DirectHit(r, a, n)
    BY <2>1, SafeHit, HitAgrees
  <2>2. CASE ~DirectHit(r, a, n)
    BY <2>2, NoHit DEF bus_read
  <2>3. QED BY <2>1, <2>2
<1>3. \A i \in 0 .. n - 1 : bus_read(m, NoDmi, a, n)[i] = m["ram"][a - RamBase + i]
  BY <1>1, NoHit DEF bus_read
<1>4. \A i \in 0 .. n - 1 : a - RamBase + i = a + i - RamBase
  BY <1>1
<1>5. QED BY <1>2, <1>3, <1>4

\* What any such access reads are parcels.
LEMMA ReadType ==
    ASSUME NEW m, MemOK(m), NEW r \in Regions, NEW a \in Addrs, NEW n \in 1 .. 2,
           ~Fatal(r, a, n)
    PROVE  bus_read(m, r, a, n) \in [0 .. n - 1 -> Parcels]
<1>1. a \in Int /\ Nothing \in Parcels
  BY MapBounds DEF Addrs, Parcels, Nothing
<1>2. bus_read(m, r, a, n) = bus_read(m, NoDmi, a, n)
  <2>1. CASE DirectHit(r, a, n)
    BY <2>1, SafeHit, HitAgrees
  <2>2. CASE ~DirectHit(r, a, n)
    BY <2>2, NoHit DEF bus_read
  <2>3. QED BY <2>1, <2>2
<1>3. CASE decode(a) = "none"
  <2>1. bus_read(m, NoDmi, a, n) = [i \in 0 .. n - 1 |-> Nothing]
    BY <1>3, NoHit DEF bus_read
  <2>2. QED BY <1>1, <1>2, <2>1
<1>4. CASE decode(a) # "none"
  <2>1. /\ decode(a) \in Targets
        /\ a >= Base(decode(a)) /\ a + n <= Base(decode(a)) + Size(decode(a))
    BY <1>4, SafeInside
  <2>2. \A i \in 0 .. n - 1 : a - Base(decode(a)) + i \in 0 .. Size(decode(a)) - 1
    BY <1>1, <2>1, MapBounds
  <2>3. bus_read(m, NoDmi, a, n) = [i \in 0 .. n - 1 |-> m[decode(a)][a - Base(decode(a)) + i]]
    BY <1>4, NoHit DEF bus_read
  <2>4. \A i \in 0 .. n - 1 : m[decode(a)][a - Base(decode(a)) + i] \in Parcels
    BY <2>1, <2>2 DEF MemOK
  <2>5. QED BY <1>2, <2>3, <2>4
<1>5. QED BY <1>3, <1>4

\* A write that does not end the simulation puts its data in the RAM exactly when it
\* decodes there, whatever region is cached, and touches no other cell of the RAM.
LEMMA RamAfterWrite ==
    ASSUME NEW m, MemOK(m), NEW r \in Regions, NEW a \in Addrs, NEW n \in 1 .. 2,
           NEW data, ~Fatal(r, a, n), NEW c \in RamAddrs
    PROVE  bus_write(m, r, a, n, data)["ram"][c - RamBase] =
               IF decode(a) = "ram" /\ c \in a .. a + n - 1 THEN data[c - a]
               ELSE m["ram"][c - RamBase]
<1>1. /\ a \in Int /\ RamBase \in Int /\ "ram" \in Targets /\ c \in Int
      /\ Base("ram") = RamBase /\ Size("ram") = RamSize
      /\ c - RamBase \in 0 .. RamSize - 1
  BY MemSysAssumption DEF Addrs, Targets, Base, Size, RamAddrs
<1>2. DOMAIN m["ram"] = 0 .. RamSize - 1 /\ "ram" \in DOMAIN m
  BY <1>1 DEF MemOK
<1>3. Put(m["ram"], a - RamBase, n, data)[c - RamBase] =
          IF c \in a .. a + n - 1 THEN data[c - a] ELSE m["ram"][c - RamBase]
  <2>1. c - RamBase \in a - RamBase .. a - RamBase + n - 1 <=> c \in a .. a + n - 1
    BY <1>1
  <2>2. c - RamBase - (a - RamBase) = c - a
    BY <1>1
  <2>3. QED BY <1>1, <1>2, <2>1, <2>2 DEF Put
<1>4. CASE DirectHit(r, a, n)
  <2>1. decode(a) = r.t /\ r.lo = Base(r.t)
    BY <1>4, SafeHit, HitInside
  <2>2. bus_write(m, r, a, n, data) = [m EXCEPT ![r.t] = Put(m[r.t], a - r.lo, n, data)]
    BY <1>4 DEF bus_write
  <2>3. CASE r.t = "ram"
    BY <1>1, <1>2, <1>3, <2>1, <2>2, <2>3
  <2>4. CASE r.t # "ram"
    BY <2>1, <2>2, <2>4
  <2>5. QED BY <2>3, <2>4
<1>5. CASE ~DirectHit(r, a, n)
  BY <1>2, <1>3, <1>5 DEF bus_write
<1>6. QED BY <1>4, <1>5
-----------------------------------------------------------------------------
(* Types. *)

\* More() is a positive count of at most two.
LEMMA MoreType == ASSUME NEW n \in 0 .. 2 PROVE More(n) \in 0 .. 2 /\ More(n) > 0
  BY DEF More

\* The values the model stores are parcels, and EBREAK is two different ones.
LEMMA ParcelValues ==
    /\ Data \subseteq Parcels /\ Nothing \in Parcels
    /\ EBREAK \in [0 .. 1 -> Parcels] /\ EBREAK[0] # EBREAK[1]
  BY MapBounds DEF Data, Written, C_EBREAK, Nothing, EBREAK, Parcels

\* Addresses are computed modulo the address space.
LEMMA AddrNext ==
    ASSUME NEW a \in Addrs
    PROVE  (a + 1) % Space \in Addrs /\ (a + 2) % Space \in Addrs
  BY MapBounds DEF Addrs

\* The region cached after the fetch.
LEMMA FetchRegion ==
    ASSUME TypeOK
    PROVE  FetchDmi \in Regions
  BY TryDmiRegion DEF TypeOK, MemTypes, IssTypes, FetchDmi

\* The run-control part of an instruction has its types.
LEMMA TurnTypes ==
    ASSUME TypeOK, NEW next \in Addrs, EndTurn(next)
    PROVE  /\ pc' \in Addrs /\ halted_' \in BOOLEAN /\ single_step_' \in BOOLEAN
           /\ burst' \in 0 .. MaxBurst /\ retired' \in 0 .. 2
<1>1. halted_ \in BOOLEAN /\ single_step_ \in BOOLEAN /\ retired \in 0 .. 2
  BY DEF TypeOK, IssTypes
<1>2. retired' \in 0 .. 2
  BY <1>1, MoreType DEF EndTurn
<1>3. burst' \in 0 .. MaxBurst
  BY RunControlAssumption DEF EndTurn
<1>4. halted_' \in BOOLEAN /\ single_step_' \in BOOLEAN
  BY <1>1 DEF EndTurn, StepOver
<1>5. QED BY <1>2, <1>3, <1>4 DEF EndTurn

\* The initial state is well typed.
LEMMA TypeInit == Init => TypeOK
<1> SUFFICES ASSUME Init PROVE TypeOK
  OBVIOUS
<1>1. DOMAIN mem = Targets /\ \A t \in Targets : mem[t] \in [0 .. Size(t) - 1 -> Parcels]
  <2>1. \A t \in Targets : \A i \in 0 .. Size(t) - 1 : Base(t) + i \in Addrs
    BY MapBounds DEF Addrs
  <2>2. \A t \in Targets : \A i \in 0 .. Size(t) - 1 : Content[Base(t) + i] \in Parcels
    BY <2>1, ContentAssumption
  <2>3. QED BY <2>2 DEF Init, RunInit, Image
<1>2. dmi \in Regions /\ pc \in Addrs
  BY MapBounds DEF Init, RunInit, Regions, Addrs
<1>3. program \in [RamAddrs -> Parcels]
  <2>1. RamAddrs \subseteq Addrs
    BY MemSysAssumption DEF RamAddrs, Addrs
  <2>2. QED BY <2>1, ContentAssumption DEF Init
<1>4. burst \in 0 .. MaxBurst
  BY RunControlAssumption DEF Init, RunInit
<1>5. DOMAIN breakpoints_ = {}
  BY DEF Init
<1>6. alive \in BOOLEAN /\ halted_ \in BOOLEAN /\ single_step_ \in BOOLEAN
  BY DEF Init, RunInit
<1>7. retired \in 0 .. 2 /\ iss \in IssStates /\ server = "start" /\ spoiled = {}
  BY DEF Init, RunInit, IssStates
<1>8. QED BY <1>1, <1>2, <1>3, <1>4, <1>5, <1>6, <1>7 DEF TypeOK, MemTypes, IssTypes, ServerTypes

\* The ISS's own steps keep their types; a store also changes the memory.
LEMMA RunTypes ==
    ASSUME TypeOK,
           \/ Stop \/ Start \/ Synced \/ Unretired \/ Abort \/ Break \/ Plain \/ Wfi
           \/ WfiReturn \/ Exception \/ MemFault
           \/ \E a \in Stores, n \in 1 .. 2, val \in Data : Store(a, n, val)
    PROVE  MemTypes' /\ IssTypes'
<1> USE DEF MemTypes, IssTypes, memVars
<1>1. /\ MemTypes /\ IssTypes
      /\ FetchDmi \in Regions /\ NoDmi \in Regions
      /\ Handler \in Addrs /\ ResetPc \in Addrs /\ Jumps \subseteq Addrs
      /\ (pc + 1) % Space \in Addrs /\ (pc + 2) % Space \in Addrs
  BY FetchRegion, AddrNext, RunControlAssumption DEF TypeOK, Regions
<1>2. /\ 0 \in 0 .. MaxBurst /\ More(retired) \in 0 .. 2 /\ 0 \in 0 .. 2
      /\ \A b \in 0 .. MaxBurst : b < MaxBurst => b + 1 \in 0 .. MaxBurst
  BY <1>1, MoreType, RunControlAssumption
<1>3. CASE Stop \/ Start \/ Synced
  BY <1>1, <1>2, <1>3 DEF Stop, Start, Synced, IssStates
<1>4. CASE Unretired
  BY <1>1, <1>2, <1>4 DEF Unretired
<1>5. CASE Abort
  BY <1>1, <1>5 DEF Abort, issVars
<1>6. CASE Break
  BY <1>1, <1>2, <1>6 DEF Break
<1>7. CASE Plain
  <2>1. PICK next \in {(pc + 1) % Space, (pc + 2) % Space} \cup Jumps : EndTurn(next)
    BY <1>7 DEF Plain
  <2>2. next \in Addrs
    BY <1>1
  <2>3. QED BY <1>1, <1>7, <2>1, <2>2, TurnTypes DEF Plain, Sync, IssStates
<1>8. CASE Wfi
  BY <1>1, <1>2, <1>8 DEF Wfi, IssStates
<1>9. CASE WfiReturn
  <2>1. halted_' \in BOOLEAN /\ single_step_' \in BOOLEAN
    BY <1>1, <1>9 DEF WfiReturn, StepOver
  <2>2. QED BY <1>1, <1>9, <2>1 DEF WfiReturn, Sync, IssStates
<1>10. CASE Exception
  <2>1. EndTurn(Handler)
    BY <1>10 DEF Exception
  <2>2. QED BY <1>1, <1>10, <2>1, TurnTypes DEF Exception, Sync, IssStates
<1>11. CASE MemFault
  BY <1>1, <1>2, <1>11 DEF MemFault, Sync, IssStates
<1>12. ASSUME NEW a \in Stores, NEW n \in 1 .. 2, NEW val \in Data, Store(a, n, val)
       PROVE  MemTypes' /\ IssTypes'
  <2>1. EndTurn((pc + 2) % Space)
    BY <1>12 DEF Store
  <2>2. IssTypes'
    BY <1>1, <1>12, <2>1, TurnTypes DEF Store, Sync, IssStates
  <2>3. a \in Addrs /\ MemOK(mem)
    BY <1>1, RunControlAssumption DEF MemOK
  <2>4. \A i \in 0 .. n - 1 : [k \in 0 .. 1 |-> val][i] \in Parcels
    BY ParcelValues
  <2>5. MemOK(mem')
    BY <1>1, <1>12, <2>3, <2>4, WriteType DEF Store
  <2>6. QED BY <1>1, <1>12, <2>2, <2>5 DEF Store, MemOK
<1>13. QED BY <1>3, <1>4, <1>5, <1>6, <1>7, <1>8, <1>9, <1>10, <1>11, <1>12

\* The ghosts that follow an overwritten program keep their types.
LEMMA OverwriteTypes ==
    ASSUME TypeOK, NEW a, NEW n, NEW val \in Data, Overwrites(a, n, val)
    PROVE  program' \in [RamAddrs -> Parcels] /\ spoiled' \subseteq RamAddrs
  BY ParcelValues DEF TypeOK, ServerTypes, Overwrites

\* The commands keep the types.
LEMMA CommandTypes ==
    ASSUME TypeOK, handle_client
    PROVE  TypeOK'
<1> USE DEF memVars, issVars, gdbVars, ghosts
<1>1. /\ MemTypes /\ IssTypes /\ ServerTypes /\ MemOK(mem) /\ dmi \in Regions
      /\ Jumps \subseteq Addrs /\ Stores \subseteq Addrs /\ BpAddrs \subseteq Addrs
  BY RunControlAssumption, GdbAssumption DEF TypeOK, MemTypes, MemOK
<1>2. CASE CmdStep \/ CmdContinue \/ CmdKill
  <2>1. MemTypes'
    BY <1>1, <1>2 DEF CmdStep, CmdContinue, CmdKill, MemTypes
  <2>2. IssTypes'
    BY <1>1, <1>2 DEF CmdStep, CmdContinue, CmdKill, step, resume, Woken, IssTypes, IssStates
  <2>3. ServerTypes'
    BY <1>1, <1>2 DEF CmdStep, CmdContinue, CmdKill, ServerTypes, Waiting
  <2>4. QED BY <2>1, <2>2, <2>3 DEF TypeOK
<1>3. ASSUME NEW a \in Jumps, CmdWriteRegs(a)
      PROVE  TypeOK'
  BY <1>1, <1>3 DEF CmdWriteRegs, TypeOK, MemTypes, IssTypes, ServerTypes
<1>4. ASSUME NEW a \in Stores, CmdReadMem(a)
      PROVE  TypeOK'
  <2>1. dmi' \in Regions
    BY <1>1, <1>4, TryDmiRegion DEF CmdReadMem
  <2>2. QED BY <1>1, <1>4, <2>1 DEF CmdReadMem, TypeOK, MemTypes, IssTypes, ServerTypes
<1>5. ASSUME NEW a \in Stores, NEW val \in Data, CmdWriteMem(a, val)
      PROVE  TypeOK'
  <2>1. \A i \in 0 .. 1 - 1 : [k \in {0} |-> val][i] \in Parcels
    BY ParcelValues
  <2>2. MemOK(mem')
    BY <1>1, <1>5, <2>1, WriteType DEF CmdWriteMem
  <2>3. program' \in [RamAddrs -> Parcels] /\ spoiled' \subseteq RamAddrs
    BY <1>5, OverwriteTypes DEF CmdWriteMem
  <2>4. QED BY <1>1, <1>5, <2>2, <2>3
            DEF CmdWriteMem, TypeOK, MemTypes, IssTypes, ServerTypes, MemOK
<1>6. ASSUME NEW a \in BpAddrs, CmdInsertBp(a)
      PROVE  TypeOK'
  <2>1. CASE Fatal(dmi, a, 2)
    BY <1>1, <1>6, <2>1 DEF CmdInsertBp, TypeOK, MemTypes, IssTypes, ServerTypes
  <2>2. CASE ~Fatal(dmi, a, 2)
    <3>1. a \in Addrs /\ try_dmi(dmi, a) \in Regions
      BY <1>1, TryDmiRegion
    <3>2. bus_read(mem, dmi, a, 2) \in [0 .. 1 -> Parcels]
      BY <1>1, <2>2, <3>1, ReadType
    <3>3. \A i \in 0 .. 2 - 1 : EBREAK[i] \in Parcels
      BY ParcelValues
    <3>4. MemOK(bus_write(mem, try_dmi(dmi, a), a, 2, EBREAK))
      BY <1>1, <3>1, <3>3, WriteType
    <3>5. MemTypes' /\ IssTypes'
      BY <1>1, <1>6, <2>2, <3>1, <3>4 DEF CmdInsertBp, MemTypes, IssTypes, MemOK
    <3>6. /\ DOMAIN breakpoints_' \subseteq BpAddrs
          /\ \A bp \in DOMAIN breakpoints_' : breakpoints_'[bp] \in [0 .. 1 -> Parcels]
      BY <1>1, <1>6, <2>2, <3>2 DEF CmdInsertBp, ServerTypes
    <3>7. QED BY <1>1, <1>6, <2>2, <3>5, <3>6 DEF CmdInsertBp, TypeOK, ServerTypes
  <2>3. QED BY <2>1, <2>2
<1>7. ASSUME NEW a \in BpAddrs, CmdRemoveBp(a)
      PROVE  TypeOK'
  <2>1. CASE Fatal(dmi, a, 2)
    BY <1>1, <1>7, <2>1 DEF CmdRemoveBp, TypeOK, MemTypes, IssTypes, ServerTypes
  <2>2. CASE ~Fatal(dmi, a, 2)
    <3>1. a \in Addrs /\ \A i \in 0 .. 2 - 1 : breakpoints_[a][i] \in Parcels
      BY <1>1, <1>7 DEF CmdRemoveBp, ServerTypes
    <3>2. MemOK(bus_write(mem, dmi, a, 2, breakpoints_[a]))
      BY <1>1, <3>1, WriteType
    <3>3. MemTypes' /\ IssTypes'
      BY <1>1, <1>7, <2>2, <3>2 DEF CmdRemoveBp, MemTypes, IssTypes, MemOK
    <3>4. QED BY <1>1, <1>7, <2>2, <3>3 DEF CmdRemoveBp, TypeOK, ServerTypes
  <2>3. QED BY <2>1, <2>2
<1>8. QED BY <1>2, <1>3, <1>4, <1>5, <1>6, <1>7 DEF handle_client

\* Every step of the ISS, the server and the client keeps the types.
LEMMA TypeStep == TypeOK /\ [Next]_vars => TypeOK'
<1> SUFFICES ASSUME TypeOK, [Next]_vars PROVE TypeOK'
  OBVIOUS
<1> USE DEF memVars, issVars, gdbVars, ghosts
<1>1. CASE IssStep
  <2>1. MemTypes' /\ IssTypes'
    BY <1>1, RunTypes DEF IssStep, Halt
  <2>2. ServerTypes'
    <3>1. CASE Halt
      BY <3>1 DEF TypeOK, Halt, ServerTypes
    <3>2. CASE UNCHANGED <<server, breakpoints_, ghosts>>
      BY <3>2 DEF TypeOK, ServerTypes
    <3>3. ASSUME NEW a \in Stores, NEW n \in 1 .. 2, NEW val \in Data,
                 Overwrites(a, n, val), UNCHANGED gdbVars
          PROVE  ServerTypes'
      BY <3>3, OverwriteTypes DEF TypeOK, ServerTypes
    <3>4. QED BY <1>1, <3>1, <3>2, <3>3 DEF IssStep
  <2>3. QED BY <2>1, <2>2 DEF TypeOK
<1>2. CASE Connect \/ NoServer
  BY <1>2 DEF Connect, NoServer, halt, TypeOK, MemTypes, IssTypes, ServerTypes, Waiting, IssStates
<1>3. CASE handle_client
  BY <1>3, CommandTypes
<1>4. CASE UNCHANGED vars
  BY <1>4 DEF vars, TypeOK, MemTypes, IssTypes, ServerTypes
<1>5. QED BY <1>1, <1>2, <1>3, <1>4 DEF Next, ServerStep

\* The memories stay arrays of parcels, the cached region is always one that a memory
\* granted or none, and the state of run() and of the server keeps its types (TypeOK).
THEOREM GdbTypeCorrect == Spec => []TypeOK
  BY TypeInit, TypeStep, PTL DEF Spec

\* Whatever region is cached, an access through it that does not wrap around does what
\* the same access does over the bus, a write of the boot ROM excepted (DirectAgrees).
THEOREM GdbDirectAgrees == Spec => []DirectAgrees
<1>1. TypeOK => DirectAgrees
  <2> SUFFICES ASSUME TypeOK, NEW a \in Addrs, NEW n \in 1 .. 2,
                      DirectHit(dmi, a, n), a + n <= Space
               PROVE  /\ ~Fatal(dmi, a, n) /\ ~Fatal(NoDmi, a, n)
                      /\ bus_read(mem, dmi, a, n) = bus_read(mem, NoDmi, a, n)
                      /\ \/ dmi.t = "rom"
                         \/ bus_write(mem, dmi, a, n, EBREAK) = bus_write(mem, NoDmi, a, n, EBREAK)
    BY DEF DirectAgrees
  <2>1. dmi \in Regions
    BY DEF TypeOK, MemTypes
  <2>2. QED BY <2>1, HitAgrees
<1>2. QED BY <1>1, GdbTypeCorrect, PTL
-----------------------------------------------------------------------------
(* The handshake. *)

\* The handshake starts with nobody waiting.
LEMMA StopInit == Init => StopInv
  BY DEF Init, RunInit, StopInv, Waiting

\* The fetch at an EBREAK finds it again once the region is cached.
LEMMA BreakStays ==
    ASSUME TypeOK, Break
    PROVE  IsEbreak'
<1>1. pc \in Addrs /\ dmi \in Regions
  BY DEF TypeOK, MemTypes, IssTypes
<1>2. ~Fatal(dmi, pc, 2) /\ IsEbreak
  BY DEF Break, Fetchable
<1>3. bus_read(mem, FetchDmi, pc, 2) = Fetched
  BY <1>1, <1>2, FetchKeepsRead DEF Fetched, FetchDmi
<1>4. mem' = mem /\ dmi' = FetchDmi /\ pc' = pc
  BY DEF Break
<1>5. Fetched' = Fetched
  BY <1>3, <1>4 DEF Fetched
<1>6. QED BY <1>2, <1>5 DEF IsEbreak, EBREAK, C_EBREAK

\* The ISS stands on an EBREAK while memory, region and pc do not change.
LEMMA EbreakStands ==
    ASSUME IsEbreak, UNCHANGED <<mem, dmi, pc>>
    PROVE  IsEbreak'
  BY DEF IsEbreak, Fetched, EBREAK, C_EBREAK

\* Each step of run() keeps the strengthening, the server waiting or gone.
LEMMA StopIss ==
    ASSUME TypeOK, StopInv, IssStep
    PROVE  StopInv'
<1> USE DEF ghosts, memVars, issVars, gdbVars
<1>1. /\ iss \in IssStates /\ halted_ \in BOOLEAN /\ single_step_ \in BOOLEAN
      /\ retired \in 0 .. 2 /\ server # "serving" /\ server \in Waiting \cup {"start", "gone"}
  BY DEF TypeOK, IssTypes, ServerTypes, IssStep
<1>2. CASE Halt
  <2>1. IsEbreak => IsEbreak'
    BY <1>2, EbreakStands DEF Halt, Stop
  <2>2. QED BY <1>1, <1>2, <2>1 DEF Halt, Stop, StopInv, Waiting
<1>3. CASE (Start \/ Synced \/ Unretired) /\ UNCHANGED <<server, breakpoints_, ghosts>>
  <2>1. CASE server = "stepping"
    BY <1>1, <1>3, <2>1 DEF Start, Synced, Unretired, Turn, StopInv, Waiting
  <2>2. CASE server = "continuing"
    BY <1>1, <1>3, <2>2 DEF Start, Synced, Unretired, Turn, StopInv, Waiting
  <2>3. CASE server \notin {"stepping", "continuing"}
    BY <1>1, <1>3, <2>3 DEF Start, Synced, Unretired, Turn, StopInv, Waiting
  <2>4. QED BY <2>1, <2>2, <2>3
<1>4. CASE Abort /\ UNCHANGED <<server, breakpoints_, ghosts>>
  BY <1>1, <1>4 DEF Abort, Turn, StopInv, Waiting
<1>5. CASE Break /\ UNCHANGED <<server, breakpoints_, ghosts>>
  <2>1. IsEbreak' /\ iss = "run" /\ ~halted_ /\ iss' = iss /\ halted_' = TRUE
    BY <1>5, BreakStays DEF Break, Fetchable, Turn
  <2>2. retired' > 0 /\ (retired = 0 => retired' = 1) /\ single_step_' = single_step_
    BY <1>1, <1>5, MoreType DEF Break, More
  <2>3. QED BY <1>1, <1>5, <2>1, <2>2 DEF StopInv, Waiting
<1>6. ASSUME NEW next, Turn, EndTurn(next), Sync, UNCHANGED gdbVars
      PROVE  StopInv'
  <2>1. /\ iss = "run" /\ ~halted_ /\ iss' \in {"run", "sync"} /\ single_step_' = FALSE
        /\ halted_' = single_step_
    BY <1>1, <1>6 DEF Turn, EndTurn, Sync, StepOver
  <2>2. retired = 0 => retired' = 1
    BY <1>6 DEF EndTurn, More
  <2>3. QED BY <1>1, <1>6, <2>1, <2>2 DEF StopInv, Waiting
<1>7. CASE (Plain \/ Exception) /\ UNCHANGED <<server, breakpoints_, ghosts>>
  <2>1. Turn /\ Sync /\ \E next : EndTurn(next)
    BY <1>7 DEF Plain, Exception, Executes, Fetchable
  <2>2. QED BY <1>6, <1>7, <2>1
<1>8. ASSUME NEW a \in Stores, NEW n \in 1 .. 2, NEW val \in Data, Store(a, n, val),
             UNCHANGED gdbVars
      PROVE  StopInv'
  <2>1. Turn /\ Sync /\ \E next : EndTurn(next)
    BY <1>8 DEF Store, Accesses, Executes, Fetchable
  <2>2. QED BY <1>6, <1>8, <2>1
<1>9. CASE Wfi /\ UNCHANGED <<server, breakpoints_, ghosts>>
  <2>1. iss = "run" /\ ~halted_ /\ iss' = "wfi" /\ halted_' = halted_ /\ single_step_' = single_step_
    BY <1>9 DEF Wfi, Executes, Fetchable, Turn
  <2>2. retired = 0 => retired' = 1
    BY <1>9 DEF Wfi, More
  <2>3. QED BY <1>1, <1>9, <2>1, <2>2 DEF StopInv, Waiting
<1>10. CASE WfiReturn /\ UNCHANGED <<server, breakpoints_, ghosts>>
  <2>1. /\ iss = "wfi" /\ iss' \in {"run", "sync"} /\ single_step_' = FALSE
        /\ halted_' = (halted_ \/ single_step_) /\ retired' = retired
    BY <1>10 DEF WfiReturn, Sync, StepOver
  <2>2. QED BY <1>1, <1>10, <2>1 DEF StopInv, Waiting
<1>11. CASE MemFault /\ UNCHANGED <<server, breakpoints_, ghosts>>
  <2>1. /\ iss = "run" /\ ~halted_ /\ iss' \in {"run", "sync"}
        /\ halted_' = halted_ /\ single_step_' = single_step_ /\ retired' = retired
    BY <1>11 DEF MemFault, Accesses, Executes, Fetchable, Turn, Sync
  <2>2. QED BY <1>1, <1>11, <2>1 DEF StopInv, Waiting
<1>12. QED BY <1>2, <1>3, <1>4, <1>5, <1>7, <1>8, <1>9, <1>10, <1>11 DEF IssStep

\* So does each step of the server, which runs only while run() waits.
LEMMA StopServer ==
    ASSUME TypeOK, StopInv, ServerStep
    PROVE  StopInv'
<1> USE DEF ghosts, memVars, issVars, gdbVars
<1>1. iss # "run" /\ iss \in IssStates
  BY DEF ServerStep, TypeOK, IssTypes
<1>2. CASE Connect \/ NoServer
  <2>1. IsEbreak => IsEbreak'
    BY <1>2, EbreakStands DEF Connect, NoServer
  <2>2. QED BY <1>1, <1>2, <2>1 DEF Connect, NoServer, halt, StopInv, Waiting
<1>3. CASE handle_client
  <2>1. server = "serving" /\ iss = "halted" /\ halted_ /\ retired = 0
    BY <1>3 DEF handle_client, StopInv
  <2>2. CASE CmdStep \/ CmdContinue
    BY <2>1, <2>2 DEF CmdStep, CmdContinue, step, resume, Woken, StopInv, Waiting
  <2>3. CASE CmdKill
    BY <2>1, <2>3 DEF CmdKill, StopInv, Waiting
  <2>4. CASE server' = server /\ iss' = iss /\ halted_' = halted_ /\ retired' = retired
    BY <2>1, <2>4 DEF StopInv, Waiting
  <2>5. QED BY <1>3, <2>2, <2>3, <2>4
            DEF handle_client, CmdWriteRegs, CmdReadMem, CmdWriteMem, CmdInsertBp, CmdRemoveBp
<1>4. QED BY <1>2, <1>3 DEF ServerStep

\* The strengthening holds in every reachable state (StopInv).
THEOREM GdbStops == Spec => []StopInv
<1>1. TypeOK /\ StopInv /\ [Next]_vars => StopInv'
  <2> SUFFICES ASSUME TypeOK, StopInv, [Next]_vars PROVE StopInv'
    OBVIOUS
  <2>1. CASE UNCHANGED vars
    <3>1. IsEbreak => IsEbreak'
      BY <2>1, EbreakStands DEF vars, memVars, issVars
    <3>2. QED BY <2>1, <3>1 DEF vars, memVars, issVars, ghosts, StopInv
  <2>2. QED BY <2>1, StopIss, StopServer DEF Next
<1>2. QED BY <1>1, StopInit, GdbTypeCorrect, PTL DEF Spec

\* Commands are served only while run() waits for resume_event_ (ServedWhileStopped).
THEOREM GdbServedWhileStopped == Spec => []ServedWhileStopped
<1>1. StopInv => ServedWhileStopped
  BY DEF StopInv, ServedWhileStopped
<1>2. QED BY <1>1, GdbStops, PTL

\* An answered step has retired exactly one instruction (StepRetiresOne).
THEOREM GdbStepRetiresOne == Spec => []StepRetiresOne
<1>1. StopInv => StepRetiresOne
  BY DEF StopInv, StepRetiresOne
<1>2. QED BY <1>1, GdbStops, PTL

\* A continue is answered only at an EBREAK (ContinueStopsAtEbreak).
THEOREM GdbContinueStops == Spec => []ContinueStopsAtEbreak
<1>1. StopInv => ContinueStopsAtEbreak
  BY DEF StopInv, ContinueStopsAtEbreak
<1>2. QED BY <1>1, GdbStops, PTL

\* run() and the server wait for each other in one case only, which the code has: an
\* EBREAK of the program came before the client (NoMutualWait).
THEOREM GdbNoMutualWait == Spec => []NoMutualWait
<1>1. StopInv => NoMutualWait
  BY DEF StopInv, NoMutualWait
<1>2. QED BY <1>1, GdbStops, PTL
-----------------------------------------------------------------------------
(* Breakpoints. *)

\* What BpsRestore says of one parcel of the RAM.
Intact(c) ==
    LET by == CoveredBy(DOMAIN breakpoints_, c) IN
    IF by = {} THEN InRam(c) = program[c]
    ELSE \A bp \in by : InRam(c) = EBREAK[c - bp] /\ breakpoints_[bp][c - bp] = program[c]

\* BpsRestore, one parcel at a time.
LEMMA RestoreParts == BpsRestore <=> \A c \in RamAddrs \ spoiled : Intact(c)
  BY DEF BpsRestore, Intact

\* A parcel that is intact has at most one breakpoint over it, because the two parcels
\* of EBREAK differ.
LEMMA OneCover ==
    ASSUME TypeOK, NEW c \in RamAddrs, Intact(c),
           NEW b1 \in CoveredBy(DOMAIN breakpoints_, c),
           NEW b2 \in CoveredBy(DOMAIN breakpoints_, c)
    PROVE  b1 = b2
<1>1. c \in Int /\ b1 \in Int /\ b2 \in Int /\ c \in {b1, b1 + 1} /\ c \in {b2, b2 + 1}
  <2>1. b1 \in BpAddrs /\ b2 \in BpAddrs /\ c \in {b1, b1 + 1} /\ c \in {b2, b2 + 1}
    BY DEF TypeOK, ServerTypes, CoveredBy, Covers
  <2>2. BpAddrs \subseteq Int /\ c \in Int
    BY MemSysAssumption, GdbAssumption DEF RamAddrs, Addrs
  <2>3. QED BY <2>1, <2>2
<1>2. EBREAK[c - b1] = EBREAK[c - b2]
  BY DEF Intact
<1>3. c - b1 \in {0, 1} /\ c - b2 \in {0, 1}
  BY <1>1
<1>4. c - b1 = c - b2
  BY <1>2, <1>3, ParcelValues
<1>5. QED BY <1>1, <1>4

\* A store of the program or of the debugger, with its ghosts.
LEMMA StoreKeeps ==
    ASSUME TypeOK, BpsRestore, NEW r \in Regions, NEW a \in Addrs, NEW n \in 1 .. 2,
           NEW val \in Data, NEW data, \A i \in 0 .. n - 1 : data[i] = val,
           ~Fatal(r, a, n), mem' = bus_write(mem, r, a, n, data), Overwrites(a, n, val),
           breakpoints_' = breakpoints_
    PROVE  BpsRestore'
<1> SUFFICES ASSUME NEW c \in RamAddrs, c \notin spoiled' PROVE Intact(c)'
  BY DEF BpsRestore, Intact
<1> DEFINE hit == {x \in RamAddrs : decode(a) = "ram" /\ x \in a .. a + n - 1}
<1>1. a \in Int /\ c \in Int /\ MemOK(mem)
  BY MemSysAssumption DEF Addrs, RamAddrs, TypeOK, MemTypes, MemOK
<1>2. InRam(c)' = IF c \in hit THEN val ELSE InRam(c)
  <2>1. mem'["ram"][c - RamBase] = IF decode(a) = "ram" /\ c \in a .. a + n - 1 THEN data[c - a]
                                   ELSE mem["ram"][c - RamBase]
    BY <1>1, RamAfterWrite
  <2>2. c \in a .. a + n - 1 => c - a \in 0 .. n - 1
    BY <1>1
  <2>3. QED BY <2>1, <2>2 DEF InRam
<1>3. program'[c] = IF c \in hit THEN val ELSE program[c]
  BY DEF Overwrites
<1>4. CASE c \in hit
  <2>1. CoveredBy(DOMAIN breakpoints_, c) = {}
    BY <1>4 DEF Overwrites
  <2>2. QED BY <1>2, <1>3, <1>4, <2>1 DEF Intact
<1>5. CASE c \notin hit
  <2>1. c \notin spoiled
    BY <1>5 DEF Overwrites
  <2>2. Intact(c)
    BY <2>1, RestoreParts
  <2>3. QED BY <1>2, <1>3, <1>5, <2>2 DEF Intact
<1>6. QED BY <1>4, <1>5

\* Z0: what is saved of an uncovered parcel is the program's own.
LEMMA InsertKeeps ==
    ASSUME TypeOK, BpsRestore, NEW a \in BpAddrs, CmdInsertBp(a)
    PROVE  BpsRestore'
<1>1. CASE Fatal(dmi, a, 2)
  BY <1>1 DEF CmdInsertBp, BpsRestore, gdbVars, ghosts, InRam
<1>2. CASE ~Fatal(dmi, a, 2)
  <2> DEFINE region == try_dmi(dmi, a)
  <2>1. /\ a \notin DOMAIN breakpoints_
        /\ breakpoints_' = [b \in DOMAIN breakpoints_ \cup {a} |->
               IF b = a THEN bus_read(mem, dmi, a, 2) ELSE breakpoints_[b]]
        /\ mem' = bus_write(mem, region, a, 2, EBREAK)
        /\ spoiled' = spoiled \cup {c \in RamAddrs : Covers(a, c) /\
                                        CoveredBy(DOMAIN breakpoints_, c) # {}}
        /\ program' = program
    BY <1>2 DEF CmdInsertBp
  <2> SUFFICES ASSUME NEW c \in RamAddrs, c \notin spoiled' PROVE Intact(c)'
    BY DEF BpsRestore, Intact
  <2>2. /\ a \in Addrs /\ dmi \in Regions /\ region \in Regions /\ MemOK(mem)
        /\ a \in Int /\ c \in Int
    BY GdbAssumption, MemSysAssumption, TryDmiRegion
       DEF TypeOK, MemTypes, MemOK, Addrs, RamAddrs
  <2>3. ~Fatal(region, a, 2)
    BY <1>2, <2>2, FetchKeepsRead
  <2>4. c \notin spoiled /\ (Covers(a, c) => CoveredBy(DOMAIN breakpoints_, c) = {})
    BY <2>1
  <2>5. Intact(c)
    BY <2>4, RestoreParts
  <2>6. c \in a .. a + 2 - 1 <=> c \in {a, a + 1}
    BY <2>2
  <2>7. InRam(c)' = IF Covers(a, c) THEN EBREAK[c - a] ELSE InRam(c)
    <3>1. mem'["ram"][c - RamBase] =
              IF decode(a) = "ram" /\ c \in a .. a + 2 - 1 THEN EBREAK[c - a]
              ELSE mem["ram"][c - RamBase]
      BY <2>1, <2>2, <2>3, RamAfterWrite
    <3>2. QED BY <2>6, <3>1 DEF InRam, Covers
  <2>8. CASE Covers(a, c)
    <3>1. c - a \in 0 .. 1 /\ a + (c - a) = c
      BY <2>2, <2>8 DEF Covers
    <3>2. breakpoints_'[a][c - a] = InRam(c)
      <4>1. bus_read(mem, dmi, a, 2)[c - a] = mem["ram"][a + (c - a) - RamBase]
        BY <1>2, <2>2, <2>8, <3>1, ReadRam DEF Covers
      <4>2. breakpoints_'[a] = bus_read(mem, dmi, a, 2)
        BY <2>1
      <4>3. InRam(c) = mem["ram"][a + (c - a) - RamBase]
        <5>1. a + (c - a) - RamBase = c - RamBase
          BY <2>2, MemSysAssumption
        <5>2. QED BY <5>1 DEF InRam
      <4>4. QED BY <4>1, <4>2, <4>3
    <3>3. InRam(c) = program[c]
      BY <2>4, <2>5, <2>8 DEF Intact
    <3>4. CoveredBy(DOMAIN breakpoints_', c) = {a}
      BY <2>1, <2>4, <2>8 DEF CoveredBy
    <3>5. QED BY <2>1, <2>7, <2>8, <3>2, <3>3, <3>4 DEF Intact
  <2>9. CASE ~Covers(a, c)
    <3>1. CoveredBy(DOMAIN breakpoints_', c) = CoveredBy(DOMAIN breakpoints_, c)
      BY <2>1, <2>9 DEF CoveredBy
    <3>2. \A b \in CoveredBy(DOMAIN breakpoints_, c) : breakpoints_'[b] = breakpoints_[b]
      BY <2>1 DEF CoveredBy
    <3>3. QED BY <2>1, <2>5, <2>7, <2>9, <3>1, <3>2 DEF Intact
  <2>10. QED BY <2>8, <2>9
<1>3. QED BY <1>1, <1>2

\* z0: the program's parcels come back.
LEMMA RemoveKeeps ==
    ASSUME TypeOK, BpsRestore, NEW a \in BpAddrs, CmdRemoveBp(a)
    PROVE  BpsRestore'
<1>1. CASE Fatal(dmi, a, 2)
  BY <1>1 DEF CmdRemoveBp, BpsRestore, ghosts, InRam
<1>2. CASE ~Fatal(dmi, a, 2)
  <2>1. /\ a \in DOMAIN breakpoints_
        /\ breakpoints_' = [b \in DOMAIN breakpoints_ \ {a} |-> breakpoints_[b]]
        /\ mem' = bus_write(mem, dmi, a, 2, breakpoints_[a])
        /\ spoiled' = spoiled /\ program' = program
    BY <1>2 DEF CmdRemoveBp, ghosts
  <2> SUFFICES ASSUME NEW c \in RamAddrs, c \notin spoiled' PROVE Intact(c)'
    BY DEF BpsRestore, Intact
  <2>2. a \in Addrs /\ dmi \in Regions /\ MemOK(mem) /\ a \in Int /\ c \in Int
    BY GdbAssumption, MemSysAssumption DEF TypeOK, MemTypes, MemOK, Addrs, RamAddrs
  <2>3. Intact(c)
    BY <2>1, RestoreParts
  <2>4. InRam(c)' = IF Covers(a, c) THEN breakpoints_[a][c - a] ELSE InRam(c)
    <3>1. mem'["ram"][c - RamBase] =
              IF decode(a) = "ram" /\ c \in a .. a + 2 - 1 THEN breakpoints_[a][c - a]
              ELSE mem["ram"][c - RamBase]
      BY <1>2, <2>1, <2>2, RamAfterWrite
    <3>2. c \in a .. a + 2 - 1 <=> c \in {a, a + 1}
      BY <2>2
    <3>3. QED BY <3>1, <3>2 DEF InRam, Covers
  <2>5. CASE Covers(a, c)
    <3>1. a \in CoveredBy(DOMAIN breakpoints_, c)
      BY <2>1, <2>5 DEF CoveredBy
    <3>2. breakpoints_[a][c - a] = program[c]
      BY <2>3, <3>1 DEF Intact
    <3>3. CoveredBy(DOMAIN breakpoints_', c) = {}
      <4>1. \A b \in CoveredBy(DOMAIN breakpoints_, c) : b = a
        BY <2>3, <3>1, OneCover
      <4>2. QED BY <2>1, <4>1 DEF CoveredBy
    <3>4. QED BY <2>1, <2>4, <2>5, <3>2, <3>3 DEF Intact
  <2>6. CASE ~Covers(a, c)
    <3>1. CoveredBy(DOMAIN breakpoints_', c) = CoveredBy(DOMAIN breakpoints_, c)
      BY <2>1, <2>6 DEF CoveredBy
    <3>2. \A b \in CoveredBy(DOMAIN breakpoints_, c) : breakpoints_'[b] = breakpoints_[b]
      BY <2>1, <2>6 DEF CoveredBy
    <3>3. QED BY <2>1, <2>3, <2>4, <2>6, <3>1, <3>2 DEF Intact
  <2>7. QED BY <2>5, <2>6
<1>3. QED BY <1>1, <1>2

\* Breakpoints leave no trace in the RAM: what is not patched is the program's, and
\* what is patched comes back (BpsRestore).
THEOREM GdbBpsRestore == Spec => []BpsRestore
<1>1. Init => BpsRestore
  <2> SUFFICES ASSUME Init, NEW c \in RamAddrs PROVE Intact(c)
    BY DEF BpsRestore, Intact
  <2>1. DOMAIN breakpoints_ = {}
    BY DEF Init
  <2>2. InRam(c) = program[c]
    <3>1. c \in Int /\ c - RamBase \in 0 .. Size("ram") - 1 /\ RamBase \in Int
      BY MemSysAssumption DEF RamAddrs, Size
    <3>2. Base("ram") + (c - RamBase) = c
      BY <3>1 DEF Base
    <3>3. QED BY <3>1, <3>2 DEF Init, RunInit, Image, InRam, Targets
  <2>3. QED BY <2>1, <2>2 DEF Intact, CoveredBy
<1>2. TypeOK /\ BpsRestore /\ [Next]_vars => BpsRestore'
  <2> SUFFICES ASSUME TypeOK, BpsRestore, [Next]_vars PROVE BpsRestore'
    OBVIOUS
  <2>1. CASE UNCHANGED <<mem, breakpoints_, program, spoiled>>
    BY <2>1 DEF BpsRestore, InRam
  <2>2. CASE IssStep
    <3>1. ASSUME NEW a \in Stores, NEW n \in 1 .. 2, NEW val \in Data,
                 Store(a, n, val), Overwrites(a, n, val), UNCHANGED gdbVars
          PROVE  BpsRestore'
      <4>1. /\ ~Fatal(FetchDmi, a, n)
            /\ mem' = bus_write(mem, FetchDmi, a, n, [i \in 0 .. 1 |-> val])
        BY <3>1 DEF Store
      <4>2. FetchDmi \in Regions /\ a \in Addrs /\ breakpoints_' = breakpoints_
        BY <3>1, FetchRegion, RunControlAssumption DEF gdbVars
      <4>3. \A i \in 0 .. n - 1 : [k \in 0 .. 1 |-> val][i] = val
        OBVIOUS
      <4>4. QED BY <3>1, <4>1, <4>2, <4>3, StoreKeeps
    <3>2. CASE ~ \E a \in Stores, n \in 1 .. 2, val \in Data :
                   Store(a, n, val) /\ Overwrites(a, n, val) /\ UNCHANGED gdbVars
      BY <2>1, <2>2, <3>2 DEF IssStep, Halt, Stop, Start, Synced, Unretired, Abort, Break, Plain,
                              Wfi, WfiReturn, Exception, MemFault, memVars, ghosts
    <3>3. QED BY <3>1, <3>2
  <2>3. CASE ServerStep
    <3>1. ASSUME NEW a \in Stores, NEW val \in Data, CmdWriteMem(a, val) PROVE BpsRestore'
      <4>1. /\ mem' = bus_write(mem, dmi, a, 1, [i \in {0} |-> val])
            /\ Overwrites(a, 1, val) /\ breakpoints_' = breakpoints_
        BY <3>1 DEF CmdWriteMem, gdbVars
      <4>2. dmi \in Regions /\ a \in Addrs /\ 1 \in 1 .. 2
        BY RunControlAssumption DEF TypeOK, MemTypes
      <4>3. ~Fatal(dmi, a, 1)
        BY <4>2, OneIsSafe
      <4>4. \A i \in 0 .. 1 - 1 : [k \in {0} |-> val][i] = val
        OBVIOUS
      <4>5. QED BY <4>1, <4>2, <4>3, <4>4, StoreKeeps
    <3>2. ASSUME NEW a \in BpAddrs, CmdInsertBp(a) \/ CmdRemoveBp(a) PROVE BpsRestore'
      BY <3>2, InsertKeeps, RemoveKeeps
    <3>3. CASE Connect \/ NoServer \/ CmdStep \/ CmdContinue \/ CmdKill
      BY <2>1, <3>3 DEF Connect, NoServer, CmdStep, CmdContinue, CmdKill, memVars, ghosts
    <3>4. ASSUME NEW a, CmdWriteRegs(a) \/ CmdReadMem(a) PROVE BpsRestore'
      BY <2>1, <3>4 DEF CmdWriteRegs, CmdReadMem, memVars, gdbVars, ghosts
    <3>5. QED BY <2>3, <3>1, <3>2, <3>3, <3>4 DEF ServerStep, handle_client
  <2>4. CASE UNCHANGED vars
    BY <2>1, <2>4 DEF vars, memVars, ghosts
  <2>5. QED BY <2>2, <2>3, <2>4 DEF Next
<1>3. QED BY <1>1, <1>2, GdbTypeCorrect, PTL DEF Spec
=============================================================================
