-------------------------------- MODULE Mmu ---------------------------------
(***************************************************************************)
(* The Sv32 MMU, src/src/cpu/mmu.{h,cpp}: the walk over two levels of page *)
(* tables, the update of the A and D bits, and the TLB, which SFENCE.VMA   *)
(* and a write of satp empty (iss.cpp).  Nothing else keeps the TLB and    *)
(* the tables together: software changes the tables with plain stores.     *)
(*                                                                         *)
(* Physical pages are numbers; a virtual page is <<vpn[1], vpn[0]>>; a     *)
(* slot is a page-table entry's place, <<page, index>>.                    *)
(***************************************************************************)
EXTENDS Integers, FiniteSets

CONSTANTS Vpn1s, Vpn0s, \* the indices software uses at the two levels
          Radix,        \* entries of a table, VPN_MASK + 1 (1024)
          TLB_SIZE,     \* entries of the TLB (64)
          Ptes,         \* bound: slot -> the entries software writes there
          Roots,        \* bound: the root tables software puts in satp
          Regimes       \* bound: privilege and mstatus of an access,
                        \* [priv, sum, mxr]

Slots == DOMAIN Ptes
Vpns  == Vpn1s \X Vpn0s
Flags == {"V", "R", "W", "X", "U", "A", "D"}
Pte   == [flags : SUBSET Flags, ppn : Nat]
Types == {"FETCH", "LOAD", "STORE"}

ASSUME MmuAssumption ==
    /\ Vpn1s \subseteq 0 .. Radix - 1 /\ Vpn0s \subseteq 0 .. Radix - 1
    /\ Radix \in Nat \ {0} /\ TLB_SIZE \in Nat \ {0}
    /\ \A s \in Slots : Ptes[s] \subseteq Pte
    /\ Roots \X Vpn1s \subseteq Slots
    /\ \A s \in Slots, i \in Vpn0s : \A p \in Ptes[s] :
          p.flags \cap {"V", "R", "W", "X"} = {"V"} => <<p.ppn, i>> \in Slots
    /\ \A s \in Slots : Ptes[s] # {}

VARIABLES pt,           \* the page tables in memory
          root,         \* satp.PPN; satp.MODE is Sv32 throughout
          tlb,          \* tlb_: a partial function from virtual pages
          synced,       \* history: no entry has changed under the TLB since it
                        \* was last empty
          used, stored  \* history, while synced: the virtual pages accessed since the
                        \* tables changed, and the ones whose store Record counts

mmuVars == <<pt, root, tlb, synced, used, stored>>
-----------------------------------------------------------------------------
\* check_permissions()
check_permissions(flags, type, g) ==
    /\ g.priv = "U" => "U" \in flags
    /\ g.priv = "S" /\ "U" \in flags => g.sum /\ type # "FETCH"
    /\ CASE type = "FETCH" -> "X" \in flags
         [] type = "LOAD"  -> "R" \in flags \/ (g.mxr /\ "X" \in flags)
         [] type = "STORE" -> "W" \in flags

Malformed(p) == "V" \notin p.flags \/ ("R" \notin p.flags /\ "W" \in p.flags)
IsLeaf(p)    == p.flags \cap {"R", "W", "X"} # {}

\* The level-1 entry of v, and the level-0 one it points to.
Upper(v) == <<root, v[1]>>
Lower(v) == <<pt[Upper(v)].ppn, v[2]>>

\* Where the walk for v finds a well-formed leaf, as a set of at most one slot.
LeafSlots(v) ==
    LET p == pt[Upper(v)] IN
    IF Malformed(p) THEN {}
    ELSE IF IsLeaf(p) THEN {Upper(v)}
    ELSE {s \in {Lower(v)} : ~Malformed(pt[s]) /\ IsLeaf(pt[s])}

Super(v) == IsLeaf(pt[Upper(v)])

\* The slots from which the walk translates an access; none is a page fault.
Walk(v, type, g) ==
    {s \in LeafSlots(v) : /\ check_permissions(pt[s].flags, type, g)
                          /\ Super(v) => pt[s].ppn % Radix = 0}

\* The physical page, of a leaf at either level.
Page(ppn, super, v) == IF super THEN ppn - (ppn % Radix) + v[2] ELSE ppn

\* Mutant of Marked: an entry that has its A bit is left alone.
Marked_OnceOnly(p, type) ==
    IF "A" \in p.flags THEN p
    ELSE [p EXCEPT !.flags = @ \cup {"A"} \cup {d \in {"D"} : type = "STORE"}]

\* The A and D update of the walk.
Marked(p, type) == [p EXCEPT !.flags = @ \cup {"A"} \cup {d \in {"D"} : type = "STORE"}]
-----------------------------------------------------------------------------
Init ==
    /\ pt \in [Slots -> UNION {Ptes[s] : s \in Slots}] /\ \A s \in Slots : pt[s] \in Ptes[s]
    /\ root \in Roots
    /\ tlb = <<>>
    /\ synced = TRUE /\ used = {} /\ stored = {}

\* What the history records of a successful access: that there was one, and a store
\* unless a clean entry of the TLB answered it.
Record(v, type, clean) ==
    /\ used' = IF synced THEN used \cup {v} ELSE used
    /\ stored' = IF synced /\ type = "STORE" /\ ~clean THEN stored \cup {v} ELSE stored

\* translate() of a page the TLB has: only the cached flags are looked at.
TlbHit(v, type, g) ==
    /\ v \in DOMAIN tlb
    /\ check_permissions(tlb[v].flags, type, g)
    /\ Record(v, type, "D" \notin tlb[v].flags)
    /\ UNCHANGED <<pt, root, tlb, synced>>

\* The pages that stay when one is added: from a full TLB tlb_.begin() goes, which
\* is any entry of the hash map.
Kept ==
    IF Cardinality(DOMAIN tlb) >= TLB_SIZE
    THEN {DOMAIN tlb \ {x} : x \in DOMAIN tlb} ELSE {DOMAIN tlb}

\* translate() of another page: the walk marks the entry and fills the TLB.
TlbFill(v, type, g) ==
    /\ v \notin DOMAIN tlb
    /\ \E s \in Walk(v, type, g) :
          LET p == Marked(pt[s], type)
              e == [ppn |-> p.ppn, flags |-> p.flags, super |-> Super(v)] IN
          /\ pt' = [pt EXCEPT ![s] = p]
          /\ \E kept \in Kept :
                tlb' = [x \in kept \cup {v} |-> IF x = v THEN e ELSE tlb[x]]
    /\ Record(v, type, FALSE)
    /\ UNCHANGED <<root, synced>>

\* A store to the page tables, by the hart or by another master.
SetPte(s, p) ==
    /\ pt' = [pt EXCEPT ![s] = p]
    /\ synced' = (DOMAIN tlb = {})
    /\ used' = {} /\ stored' = {}
    /\ UNCHANGED <<root, tlb>>

\* SFENCE.VMA: flush_tlb().
SfenceVma ==
    /\ tlb' = <<>> /\ synced' = TRUE
    /\ UNCHANGED <<pt, root, used, stored>>

\* Mutant of WriteSatp: the callback that flushes is not connected.
WriteSatp_NoFlush(r) ==
    /\ root' = r
    /\ used' = {} /\ stored' = {}
    /\ UNCHANGED <<pt, tlb, synced>>

\* A write of satp flushes through on_satp_write.
WriteSatp(r) ==
    /\ root' = r
    /\ tlb' = <<>> /\ synced' = TRUE
    /\ used' = {} /\ stored' = {}
    /\ UNCHANGED pt

\* An access that faults changes nothing.
Next ==
    \/ \E v \in Vpns, type \in Types, g \in Regimes : TlbHit(v, type, g) \/ TlbFill(v, type, g)
    \/ \E s \in Slots : \E p \in Ptes[s] : SetPte(s, p)
    \/ SfenceVma
    \/ \E r \in Roots : WriteSatp(r)

Spec == Init /\ [][Next]_mmuVars
-----------------------------------------------------------------------------
\* The TLB never outgrows its size, and what it caches are leaves that were valid
\* and accessed.
TypeOK ==
    /\ DOMAIN tlb \subseteq Vpns /\ Cardinality(DOMAIN tlb) <= TLB_SIZE
    /\ \A v \in DOMAIN tlb :
          {"V", "A"} \subseteq tlb[v].flags /\ tlb[v].flags \cap {"R", "W", "X"} # {}
    /\ root \in Roots /\ synced \in BOOLEAN
    /\ used \subseteq Vpns /\ stored \subseteq used

\* The tables hold entries, and an entry that points to a lower table points to one.
TablesOK ==
    /\ pt \in [Slots -> Pte]
    /\ \A s \in Slots, i \in Vpn0s :
          pt[s].flags \cap {"V", "R", "W", "X"} = {"V"} => <<pt[s].ppn, i>> \in Slots

\* Why a hit is right: an entry of the TLB is the leaf that the walk finds, which may
\* have gained A and D since, and was aligned.
Cached(v, e) ==
    \E s \in LeafSlots(v) :
       /\ e.ppn = pt[s].ppn /\ e.super = Super(v)
       /\ e.flags \subseteq pt[s].flags /\ pt[s].flags \subseteq e.flags \cup {"A", "D"}
       /\ e.super => e.ppn % Radix = 0
TlbCoherent == synced => \A v \in DOMAIN tlb : Cached(v, tlb[v])

\* The TLB is invisible to software that flushes: as long as the tables have not
\* changed under it, every hit answers any access (fault, or which physical page)
\* just as a walk would, in every mode and for every type of access.
TlbTransparent ==
    synced => \A v \in DOMAIN tlb, type \in Types, g \in Regimes :
        /\ check_permissions(tlb[v].flags, type, g) <=> Walk(v, type, g) # {}
        /\ \A s \in Walk(v, type, g) :
              Page(tlb[v].ppn, tlb[v].super, v) = Page(pt[s].ppn, Super(v), v)

\* The page tables tell which pages were used: the A bit of a page that an access
\* reached is set, whether the TLB answered or the walk, and so is the D bit of one that
\* a store reached, unless the TLB answered it from an entry that only loads and fetches
\* had used (translate() then returns before the update of the walk).
UseMarked ==
    /\ \A v \in used : \A s \in LeafSlots(v) : "A" \in pt[s].flags
    /\ \A v \in stored : \A s \in LeafSlots(v) : "D" \in pt[s].flags
=============================================================================
