---------------------------- MODULE MemoryProofs ----------------------------
(***************************************************************************)
(* The hart's view of memory.  LR/SC loops are atomic for any number of    *)
(* words, any word width and any depth of nesting, as long as no word that *)
(* a loop updates is also the target of an AMO or of a DMA transfer.  The  *)
(* MMU and its TLB keep their promises for every geometry of the tables,   *)
(* every TLB size and every set of entries, roots and regimes.             *)
(***************************************************************************)
EXTENDS LrSc, Mmu, FiniteSetTheorems, TLAPS

-----------------------------------------------------------------------------
(* LR/SC.                                                                   *)

LoopRec == [at : {"idle", "retry", "loaded"}, addr : Words, val : Vals]

\* The parts of the inductive invariant.  Types, without the histories:
Typed ==
    /\ mem \in [Words -> Vals]
    /\ lr_sc \in [addr : Words, valid : BOOLEAN]
    /\ level \in Levels
    /\ loop \in [Levels -> LoopRec]
    /\ dirty \subseteq Levels

\* Loops are under way at the running level and below it, on loop words only.
Nested ==
    /\ \A n \in Levels : n > level => loop[n].at = "idle"
    /\ \A n \in Levels : loop[n].at # "idle" => loop[n].addr \in LoopWords
    /\ lr_sc.valid => lr_sc.addr \in LoopWords

\* A reservation taken by the innermost loop vouches for the value it loaded and for
\* there having been no write since.
Vouched ==
    lr_sc.valid =>
        \A n \in Levels :
            (/\ loop[n].at = "loaded" /\ loop[n].addr = lr_sc.addr
             /\ \A m \in Levels : m > n => loop[m].at = "idle")
            => loop[n].val = mem[lr_sc.addr] /\ n \notin dirty

LrScInv == Typed /\ Nested /\ Vouched /\ NoLostUpdate

\* A sum taken modulo the word size is a word.
LEMMA ModVals == \A n \in Int : n % Modulus \in Vals
BY LrScAssumption DEF Vals

\* The value of an idle loop is well-typed.
LEMMA NoLoopType == NoLoop \in LoopRec /\ NoLoop.at = "idle"
BY LrScAssumption DEF NoLoop, LoopRec, Vals

\* The reset state satisfies the invariant.
LEMMA LrScInvInit == LrScInit => LrScInv
<1> SUFFICES ASSUME LrScInit PROVE LrScInv
  OBVIOUS
<1> USE LrScAssumption, NoLoopType DEF LrScInit
<1>1. Typed BY DEF Typed, Vals, Levels, LoopRec
<1>2. Nested BY DEF Nested
<1>3. Vouched BY DEF Vouched
<1>4. QED BY <1>1, <1>2, <1>3 DEF LrScInv, NoLostUpdate

\* LR.W keeps the invariant: the running level becomes the innermost loop.
LEMMA LrStep == ASSUME LrScInv, NEW w \in LoopWords, LR_W(w) PROVE LrScInv'
<1> USE LrScAssumption DEF LrScInv, LR_W
<1>1. level \in Levels /\ level' \in Levels /\ level' >= level
  BY DEF Typed, Levels, Trap
<1>2. PICK r \in LoopRec : /\ loop' = [loop EXCEPT ![level] = r]
                           /\ r.at # "idle" /\ r.addr = w
                           /\ r.at = "loaded" => r.val = mem[w]
  BY DEF Typed, LoopRec, Vals
<1>3. Typed'
  BY <1>1, <1>2 DEF Typed
<1>4. \A n \in Levels : loop'[n] = IF n = level THEN r ELSE loop[n]
  BY <1>2 DEF Typed
<1>5. Nested'
  BY <1>1, <1>2, <1>4 DEF Nested, Levels
<1>6. Vouched'
  BY <1>1, <1>2, <1>4 DEF Vouched, Nested, Levels
<1>7. QED BY <1>3, <1>5, <1>6 DEF NoLostUpdate

\* SC.W keeps the invariant: if the reservation checks, the value it increments
\* is the one in memory; and afterwards nothing is reserved.
LEMMA ScStep == ASSUME LrScInv, SC_W PROVE LrScInv'
<1> DEFINE w == loop[level].addr
           ok == lr_sc.valid /\ lr_sc.addr = w
<1> USE LrScAssumption DEF LrScInv
<1>1. level \in Levels /\ level' \in Levels /\ level' >= level
  BY DEF Typed, Levels, Trap, SC_W
<1>2. w \in Words /\ loop[level].val \in Vals /\ loop[level].at = "loaded"
  BY <1>1 DEF Typed, LoopRec, SC_W
<1>3. ok => loop[level].val = mem[w]
  BY <1>1, <1>2 DEF Vouched, Nested
<1>4. mem' = expected' /\ mem' \in [Words -> Vals]
  <2>1. CASE mem' = mem /\ expected' = expected
    BY <2>1 DEF NoLostUpdate, Typed
  <2>2. CASE ok /\ mem' = [mem EXCEPT ![w] = (loop[level].val + 1) % Modulus]
                /\ expected' = Incremented(expected, w)
    <3>1. (loop[level].val + 1) % Modulus \in Vals
      BY <1>2, ModVals DEF Vals
    <3>2. QED BY <1>2, <1>3, <2>2, <3>1 DEF Incremented, NoLostUpdate, Typed
  <2>3. QED BY <2>1, <2>2 DEF SC_W
<1>5. lr_sc' = [lr_sc EXCEPT !.valid = FALSE]
  BY DEF SC_W, Unreserve
<1>6. loop' = loop \/ loop' = [loop EXCEPT ![level] = NoLoop]
  BY DEF SC_W
<1>7. loop' \in [Levels -> LoopRec]
  BY <1>6, NoLoopType DEF Typed
<1>8. Typed'
  <2>1. dirty' \subseteq Levels
    BY DEF SC_W, LoadedFrom, Typed
  <2>2. QED BY <1>1, <1>4, <1>5, <1>7, <2>1 DEF Typed
<1>9. ~lr_sc'.valid
  BY <1>5 DEF Typed
<1>10. \A n \in Levels : loop'[n].at = "idle" \/ loop'[n] = loop[n]
  BY <1>1, <1>6, NoLoopType DEF Typed
<1>11. Nested'
  BY <1>1, <1>9, <1>10 DEF Nested, Levels
<1>12. Vouched'
  BY <1>9 DEF Vouched
<1>13. QED BY <1>4, <1>8, <1>11, <1>12 DEF NoLostUpdate

\* A store keeps the invariant: it drops the reservation.
LEMMA StoreStep ==
  ASSUME LrScInv, NEW w \in Words, NEW v \in Vals, Store(w, v) PROVE LrScInv'
<1> USE LrScAssumption DEF LrScInv
<1>1. level \in Levels /\ level' \in Levels /\ level' >= level
  BY DEF Typed, Levels, Trap, Store
<1>2. mem' = expected' /\ mem' \in [Words -> Vals]
  BY DEF Store, Update, NoLostUpdate, Typed
<1>3. lr_sc' = [lr_sc EXCEPT !.valid = FALSE] /\ loop' = loop
  BY DEF Store, Unreserve
<1>4. ~lr_sc'.valid
  BY <1>3 DEF Typed
<1>5. Typed'
  <2>1. dirty' \subseteq Levels
    BY DEF Store, Note, LoadedFrom, Typed
  <2>2. QED BY <1>1, <1>2, <1>3, <2>1 DEF Typed
<1>6. Nested'
  BY <1>1, <1>3, <1>4 DEF Nested, Levels
<1>7. Vouched'
  BY <1>4 DEF Vouched
<1>8. QED BY <1>2, <1>5, <1>6, <1>7 DEF NoLostUpdate

\* A write that leaves the reservation alone keeps the invariant if the word is
\* not one that a loop may have loaded.
LEMMA OtherStep ==
  ASSUME LrScInv, NEW w \in Words, w \notin LoopWords, NEW v \in Vals,
         mem' = [mem EXCEPT ![w] = v], expected' = [expected EXCEPT ![w] = v],
         Note(w), UNCHANGED <<lr_sc, level, loop>>
  PROVE  LrScInv'
<1> USE DEF LrScInv
<1>0. dirty' = dirty
  BY DEF Note, LoadedFrom, Nested
<1>1. mem' = expected'
  BY DEF NoLostUpdate
<1>2. Typed'
  BY <1>0 DEF Typed
<1>3. Nested'
  BY DEF Nested
<1>4. lr_sc.valid => mem'[lr_sc.addr] = mem[lr_sc.addr]
  BY DEF Nested, Typed
<1>5. Vouched'
  BY <1>0, <1>4 DEF Vouched
<1>6. QED BY <1>1, <1>2, <1>3, <1>5 DEF NoLostUpdate

\* Entering and leaving a handler keep the invariant.
LEMMA NestStep == ASSUME LrScInv, Enter \/ Return PROVE LrScInv'
<1> USE LrScAssumption DEF LrScInv
<1>1. level \in Levels /\ level' \in Levels /\ (level' >= level \/ level' = level - 1)
  BY DEF Typed, Levels, Trap, Enter, Return
<1>2. UNCHANGED <<mem, lr_sc, loop, expected, dirty>>
  BY DEF Enter, Return
<1>3. level' < level => level' = level - 1 /\ loop[level].at = "idle"
  BY <1>1 DEF Enter, Return, Trap, Levels
<1>4. Typed'
  BY <1>1, <1>2 DEF Typed
<1>5. Nested'
  BY <1>1, <1>2, <1>3 DEF Nested, Levels
<1>6. Vouched'
  BY <1>2 DEF Vouched
<1>7. QED BY <1>2, <1>4, <1>5, <1>6 DEF NoLostUpdate

\* The invariant holds throughout when the loops have their words to themselves.
LEMMA LrScInductive ==
  ASSUME LoopWords \cap (AmoWords \cup DmaWords) = {}
  PROVE  LrScSpec => []LrScInv
<1>1. LrScInv /\ [LrScNext]_lrscVars => LrScInv'
  <2> SUFFICES ASSUME LrScInv, [LrScNext]_lrscVars PROVE LrScInv'
    OBVIOUS
  <2>1. ASSUME NEW w \in DmaWords, NEW v \in Vals, DmaWrite(w, v) PROVE LrScInv'
    BY <2>1, LrScAssumption, OtherStep DEF DmaWrite, Update
  <2>2. ASSUME NEW w \in AmoWords, AMO_W(w) PROVE LrScInv'
    <3> SUFFICES ASSUME ~(Trap /\ UNCHANGED <<mem, lr_sc, loop, expected, dirty>>)
                 PROVE  LrScInv'
      BY NestStep DEF Enter
    <3>1. w \in Words /\ w \notin LoopWords
      BY LrScAssumption
    <3>2. mem[w] \in Vals /\ expected = mem
      BY <3>1 DEF LrScInv, Typed, NoLostUpdate
    <3>3. (mem[w] + 1) % Modulus \in Vals
      BY <3>2, ModVals DEF Vals
    <3>4. /\ mem' = [mem EXCEPT ![w] = (mem[w] + 1) % Modulus]
          /\ expected' = [expected EXCEPT ![w] = (mem[w] + 1) % Modulus]
          /\ Note(w) /\ UNCHANGED <<lr_sc, level, loop>>
      BY <2>2, <3>2 DEF AMO_W, Incremented
    <3>5. QED BY <3>1, <3>3, <3>4, OtherStep
  <2>3. CASE UNCHANGED lrscVars
    BY <2>3 DEF lrscVars, LrScInv, Typed, Nested, Vouched, NoLostUpdate
  <2>4. QED
    BY <2>1, <2>2, <2>3, LrStep, ScStep, StoreStep, NestStep DEF LrScNext
<1>2. QED BY <1>1, LrScInvInit, PTL DEF LrScSpec

\* LR/SC loops never lose an update of the handlers that interrupt them, nor
\* apply an increment to a stale value, when no word they work on is also
\* written by an AMO or by the DMA engine.
THEOREM LrScNoLostUpdate ==
  ASSUME LoopWords \cap (AmoWords \cup DmaWords) = {}
  PROVE  LrScSpec => []NoLostUpdate
<1>1. LrScInv => NoLostUpdate
  BY DEF LrScInv
<1>2. QED BY <1>1, LrScInductive, PTL

\* Under the same condition an SC.W succeeds only if its word has not been written,
\* by the program or by a handler at any depth, since the LR.W of its own loop.
THEOREM LrScReservationFresh ==
  ASSUME LoopWords \cap (AmoWords \cup DmaWords) = {}
  PROVE  LrScSpec => []ReservationFresh
<1>1. LrScInv => ReservationFresh
  <2> SUFFICES ASSUME LrScInv, loop[level].at = "loaded", lr_sc.valid,
                      lr_sc.addr = loop[level].addr
               PROVE  level \notin dirty
    BY DEF ReservationFresh
  <2>1. level \in Levels /\ \A m \in Levels : m > level => loop[m].at = "idle"
    BY DEF LrScInv, Typed, Nested
  <2>2. QED BY <2>1 DEF LrScInv, Vouched
<1>2. QED BY <1>1, LrScInductive, PTL
-----------------------------------------------------------------------------
(* Entries.  The update of the walk adds A and D and changes nothing else,   *)
(* so that no walk goes another way after it.                                *)

\* q is p, perhaps with A or D added.
Gained(p, q) ==
    /\ q.ppn = p.ppn
    /\ p.flags \subseteq q.flags /\ q.flags \subseteq p.flags \cup {"A", "D"}

\* Setting A and D on an entry adds just those flags.
LEMMA MarkedGains ==
    ASSUME NEW p \in Pte, NEW type \in Types
    PROVE  /\ Marked(p, type) \in Pte
           /\ Gained(p, Marked(p, type))
           /\ "A" \in Marked(p, type).flags
           /\ type = "STORE" => "D" \in Marked(p, type).flags
<1>1. /\ Marked(p, type).ppn = p.ppn
      /\ Marked(p, type).flags = p.flags \cup {"A"} \cup {d \in {"D"} : type = "STORE"}
  BY DEF Marked, Pte
<1>2. Marked(p, type) \in Pte
  BY DEF Marked, Pte, Flags
<1>3. QED BY <1>1, <1>2 DEF Gained

\* An entry that gained A or D is as well formed, and as much a leaf, as before.
LEMMA GainedShape ==
    ASSUME NEW p, NEW q, Gained(p, q)
    PROVE  /\ Malformed(q) <=> Malformed(p)
           /\ IsLeaf(q) <=> IsLeaf(p)
           /\ q.flags \cap {"V", "R", "W", "X"} = p.flags \cap {"V", "R", "W", "X"}
<1>1. \A f \in {"V", "R", "W", "X"} : f \in q.flags <=> f \in p.flags
  BY DEF Gained
<1>2. q.flags \cap {"V", "R", "W", "X"} = p.flags \cap {"V", "R", "W", "X"}
  BY <1>1
<1>3. q.flags \cap {"R", "W", "X"} = p.flags \cap {"R", "W", "X"}
  BY <1>1
<1>4. QED BY <1>1, <1>2, <1>3 DEF Malformed, IsLeaf

\* check_permissions() looks at U, R, W and X alone.
LEMMA SamePermissions ==
    ASSUME NEW f, NEW h, NEW type \in Types, NEW g,
           f \subseteq h, h \subseteq f \cup {"A", "D"}
    PROVE  check_permissions(f, type, g) <=> check_permissions(h, type, g)
<1>1. ("U" \in f <=> "U" \in h) /\ ("R" \in f <=> "R" \in h)
      /\ ("W" \in f <=> "W" \in h) /\ ("X" \in f <=> "X" \in h)
  OBVIOUS
<1>2. CASE type = "FETCH"
  BY <1>1, <1>2, Zenon DEF check_permissions
<1>3. CASE type = "LOAD"
  BY <1>1, <1>3, Zenon DEF check_permissions
<1>4. CASE type = "STORE"
  BY <1>1, <1>4, Zenon DEF check_permissions
<1>5. QED BY <1>2, <1>3, <1>4 DEF Types
-----------------------------------------------------------------------------
(* The walk stays in the tables and finds at most one leaf.                  *)

\* The walk reads slots of the tables, and ends at one valid leaf at most.
LEMMA WalkStays ==
    ASSUME TablesOK, root \in Roots, NEW v \in Vpns
    PROVE  /\ Upper(v) \in Slots
           /\ ~Malformed(pt[Upper(v)]) /\ ~IsLeaf(pt[Upper(v)]) => Lower(v) \in Slots
           /\ LeafSlots(v) \subseteq Slots
           /\ \A s, t \in LeafSlots(v) : s = t
           /\ \A s \in LeafSlots(v) : "V" \in pt[s].flags /\ IsLeaf(pt[s])
<1>1. v[1] \in Vpn1s /\ v[2] \in Vpn0s
  BY DEF Vpns
<1>2. Upper(v) \in Slots
  BY <1>1, MmuAssumption DEF Upper
<1>3. ASSUME ~Malformed(pt[Upper(v)]), ~IsLeaf(pt[Upper(v)]) PROVE Lower(v) \in Slots
  <2>1. pt[Upper(v)].flags \cap {"V", "R", "W", "X"} = {"V"}
    BY <1>3 DEF Malformed, IsLeaf
  <2>2. QED BY <1>1, <1>2, <2>1 DEF TablesOK, Lower
<1>4. QED BY <1>2, <1>3 DEF LeafSlots, Malformed

\* Adding A or D to entries leaves every walk where it was.
LEMMA WalkAfterGain ==
    ASSUME TablesOK, root \in Roots, root' = root, NEW v \in Vpns,
           \A s \in Slots : Gained(pt[s], pt'[s])
    PROVE  /\ LeafSlots(v)' = LeafSlots(v)
           /\ Super(v)' <=> Super(v)
<1>1. Upper(v) \in Slots /\ Upper(v)' = Upper(v)
  BY WalkStays DEF Upper
<1>2. Gained(pt[Upper(v)], pt'[Upper(v)])
  BY <1>1
<1>3. /\ Malformed(pt[Upper(v)])' <=> Malformed(pt[Upper(v)])
      /\ IsLeaf(pt[Upper(v)])' <=> IsLeaf(pt[Upper(v)])
      /\ Lower(v)' = Lower(v)
  <2>1. pt'[Upper(v)'].ppn = pt[Upper(v)].ppn
    BY <1>1, <1>2 DEF Gained
  <2>2. Lower(v)' = Lower(v)
    BY <2>1 DEF Lower
  <2>3. Malformed(pt'[Upper(v)]) <=> Malformed(pt[Upper(v)])
    BY <1>2, GainedShape
  <2>4. IsLeaf(pt'[Upper(v)]) <=> IsLeaf(pt[Upper(v)])
    BY <1>2, GainedShape
  <2>5. QED BY <1>1, <2>2, <2>3, <2>4 DEF Malformed, IsLeaf
<1>4. CASE Malformed(pt[Upper(v)]) \/ IsLeaf(pt[Upper(v)])
  BY <1>1, <1>3, <1>4 DEF LeafSlots, Super
<1>5. CASE ~Malformed(pt[Upper(v)]) /\ ~IsLeaf(pt[Upper(v)])
  <2>1. Lower(v) \in Slots
    BY <1>5, WalkStays
  <2>2. /\ Malformed(pt'[Lower(v)]) <=> Malformed(pt[Lower(v)])
        /\ IsLeaf(pt'[Lower(v)]) <=> IsLeaf(pt[Lower(v)])
    BY <2>1, GainedShape
  <2>3. LeafSlots(v) = {s \in {Lower(v)} : ~Malformed(pt[s]) /\ IsLeaf(pt[s])}
    BY <1>5 DEF LeafSlots
  <2>4. LeafSlots(v)' = {s \in {Lower(v)} : ~Malformed(pt'[s]) /\ IsLeaf(pt'[s])}
    BY <1>3, <1>5 DEF LeafSlots
  <2>5. QED BY <1>3, <2>2, <2>3, <2>4 DEF Super
<1>6. QED BY <1>4, <1>5

\* The tables stay tables.
LEMMA TablesAfterGain ==
    ASSUME TablesOK, pt' \in [Slots -> Pte], \A s \in Slots : Gained(pt[s], pt'[s])
    PROVE  TablesOK'
<1> SUFFICES ASSUME NEW s \in Slots, NEW i \in Vpn0s,
                    pt'[s].flags \cap {"V", "R", "W", "X"} = {"V"}
             PROVE  <<pt'[s].ppn, i>> \in Slots
  BY DEF TablesOK
<1>1. Gained(pt[s], pt'[s])
  OBVIOUS
<1>2. pt[s].flags \cap {"V", "R", "W", "X"} = {"V"} /\ pt'[s].ppn = pt[s].ppn
  BY <1>1, GainedShape DEF Gained
<1>3. QED BY <1>2 DEF TablesOK
-----------------------------------------------------------------------------
(* The inductive invariant: what is cached is what the walk finds.           *)

MmuInv == TypeOK /\ IsFiniteSet(DOMAIN tlb) /\ TablesOK /\ TlbCoherent /\ UseMarked

\* The empty TLB satisfies the invariant.
LEMMA InitMmu == Init => MmuInv
<1> SUFFICES ASSUME Init PROVE MmuInv
  OBVIOUS
<1>1. DOMAIN tlb = {}
  BY DEF Init
<1>2. TypeOK
  BY <1>1, FS_EmptySet, MmuAssumption DEF Init, TypeOK
<1>3. IsFiniteSet(DOMAIN tlb)
  BY <1>1, FS_EmptySet
<1>4. TablesOK
  BY MmuAssumption DEF Init, TablesOK
<1>5. QED BY <1>1, <1>2, <1>3, <1>4 DEF Init, MmuInv, TlbCoherent, UseMarked

\* What a fill does, in the terms of the lemmas above.
LEMMA FillGains ==
    ASSUME TablesOK, root \in Roots, NEW v \in Vpns, NEW type \in Types, NEW g,
           NEW s \in Walk(v, type, g), pt' = [pt EXCEPT ![s] = Marked(pt[s], type)]
    PROVE  /\ s \in Slots /\ s \in LeafSlots(v)
           /\ \A t \in Slots : Gained(pt[t], pt'[t])
           /\ pt' \in [Slots -> Pte]
           /\ pt'[s] = Marked(pt[s], type)
<1>1. s \in LeafSlots(v) /\ s \in Slots
  BY WalkStays DEF Walk
<1>2. pt \in [Slots -> Pte] /\ pt[s] \in Pte
  BY <1>1 DEF TablesOK
<1>3. Marked(pt[s], type) \in Pte /\ Gained(pt[s], Marked(pt[s], type))
  BY <1>2, MarkedGains
<1>4. \A t \in Slots : Gained(pt[t], pt[t])
  BY DEF Gained
<1>5. QED BY <1>1, <1>2, <1>3, <1>4

\* A fill keeps the types and a finite TLB.
LEMMA FillTypes ==
    ASSUME MmuInv, NEW v \in Vpns, NEW type \in Types, NEW g, TlbFill(v, type, g)
    PROVE  TypeOK' /\ IsFiniteSet(DOMAIN tlb)'
<1>1. PICK s \in Walk(v, type, g), kept \in Kept :
         /\ pt' = [pt EXCEPT ![s] = Marked(pt[s], type)]
         /\ tlb' = [x \in kept \cup {v} |->
               IF x = v THEN [ppn |-> Marked(pt[s], type).ppn, flags |-> Marked(pt[s], type).flags,
                              super |-> Super(v)]
               ELSE tlb[x]]
  BY DEF TlbFill
<1>2. /\ TypeOK /\ TablesOK /\ IsFiniteSet(DOMAIN tlb) /\ root \in Roots
      /\ Cardinality(DOMAIN tlb) \in Nat /\ v \notin DOMAIN tlb
  BY FS_CardinalityType DEF MmuInv, TypeOK, TlbFill
<1>3. kept \subseteq DOMAIN tlb /\ IsFiniteSet(kept) /\ Cardinality(kept) + 1 <= TLB_SIZE
      /\ Cardinality(kept) \in Nat
  <2>1. CASE Cardinality(DOMAIN tlb) >= TLB_SIZE
    <3>1. PICK x \in DOMAIN tlb : kept = DOMAIN tlb \ {x}
      BY <2>1 DEF Kept
    <3>2. IsFiniteSet(kept) /\ Cardinality(kept) = Cardinality(DOMAIN tlb) - 1
      BY <1>2, <3>1, FS_RemoveElement
    <3>3. Cardinality(kept) \in Nat
      BY <3>2, FS_CardinalityType
    <3>4. QED BY <1>2, <3>1, <3>2, <3>3, MmuAssumption DEF TypeOK
  <2>2. CASE ~(Cardinality(DOMAIN tlb) >= TLB_SIZE)
    <3>1. kept = DOMAIN tlb
      BY <2>2 DEF Kept
    <3>2. QED BY <1>2, <2>2, <3>1, MmuAssumption
  <2>3. QED BY <2>1, <2>2
<1>4. DOMAIN tlb' = kept \cup {v}
  BY <1>1
<1>5. IsFiniteSet(kept \cup {v}) /\ Cardinality(kept \cup {v}) = Cardinality(kept) + 1
  BY <1>2, <1>3, FS_AddElement
<1>6. /\ pt[s] \in Pte /\ "V" \in pt[s].flags /\ IsLeaf(pt[s])
  <2>1. s \in LeafSlots(v)
    BY DEF Walk
  <2>2. s \in Slots /\ "V" \in pt[s].flags /\ IsLeaf(pt[s])
    BY <1>2, <2>1, WalkStays
  <2>3. QED BY <1>2, <2>2 DEF TablesOK
<1>7. \A x \in kept \cup {v} :
         {"V", "A"} \subseteq tlb'[x].flags /\ tlb'[x].flags \cap {"R", "W", "X"} # {}
  <2>1. /\ Gained(pt[s], Marked(pt[s], type)) /\ "A" \in Marked(pt[s], type).flags
    BY <1>6, MarkedGains
  <2>2. /\ {"V", "A"} \subseteq Marked(pt[s], type).flags
        /\ Marked(pt[s], type).flags \cap {"R", "W", "X"} # {}
    BY <1>6, <2>1 DEF Gained, IsLeaf
  <2>3. tlb'[v].flags = Marked(pt[s], type).flags
    BY <1>1
  <2>4. \A x \in kept : tlb'[x] = tlb[x]
    BY <1>1, <1>2, <1>3
  <2>5. QED BY <1>2, <1>3, <2>2, <2>3, <2>4 DEF TypeOK
<1>8. used' \subseteq Vpns /\ stored' \subseteq used'
  BY <1>2 DEF TlbFill, Record, TypeOK
<1>9. root' = root /\ synced' = synced
  BY DEF TlbFill
<1>10. QED BY <1>2, <1>3, <1>4, <1>5, <1>7, <1>8, <1>9 DEF TypeOK

\* A fill keeps the whole invariant.
LEMMA FillKeeps ==
    ASSUME MmuInv, NEW v \in Vpns, NEW type \in Types, NEW g, TlbFill(v, type, g)
    PROVE  MmuInv'
<1>1. PICK s \in Walk(v, type, g), kept \in Kept :
         /\ pt' = [pt EXCEPT ![s] = Marked(pt[s], type)]
         /\ tlb' = [x \in kept \cup {v} |->
               IF x = v THEN [ppn |-> Marked(pt[s], type).ppn, flags |-> Marked(pt[s], type).flags,
                              super |-> Super(v)]
               ELSE tlb[x]]
  BY DEF TlbFill
<1>2. /\ TypeOK /\ TablesOK /\ TlbCoherent /\ UseMarked /\ root \in Roots
      /\ kept \subseteq DOMAIN tlb /\ DOMAIN tlb \subseteq Vpns /\ v \notin DOMAIN tlb
      /\ root' = root /\ synced' = synced
  BY DEF MmuInv, TypeOK, TlbFill, Kept
<1>3. /\ s \in Slots /\ s \in LeafSlots(v)
      /\ \A t \in Slots : Gained(pt[t], pt'[t])
      /\ pt' \in [Slots -> Pte] /\ pt'[s] = Marked(pt[s], type)
  BY <1>1, <1>2, FillGains
<1>4. TablesOK'
  BY <1>2, <1>3, TablesAfterGain
<1>5. \A w \in Vpns : LeafSlots(w)' = LeafSlots(w) /\ (Super(w)' <=> Super(w))
  BY <1>2, <1>3, WalkAfterGain
<1>6. pt[s] \in Pte /\ "A" \in pt'[s].flags /\ (type = "STORE" => "D" \in pt'[s].flags)
  BY <1>2, <1>3, MarkedGains DEF TablesOK
<1>7. TlbCoherent'
  <2> SUFFICES ASSUME synced', NEW w \in DOMAIN tlb' PROVE Cached(w, tlb[w])'
    BY DEF TlbCoherent
  <2>1. CASE w = v
    <3>1. tlb'[v].ppn = pt'[s].ppn /\ tlb'[v].flags = pt'[s].flags /\ tlb'[v].super = Super(v)
      BY <1>1, <1>3
    <3>2. Super(v) => pt'[s].ppn % Radix = 0
      BY <1>3 DEF Walk, Gained
    <3>3. Super(v)' = Super(v) /\ s \in LeafSlots(v)'
      BY <1>3, <1>5 DEF Super, IsLeaf
    <3>4. QED BY <2>1, <3>1, <3>2, <3>3 DEF Cached
  <2>2. CASE w # v
    <3>1. w \in DOMAIN tlb /\ w \in Vpns /\ tlb'[w] = tlb[w]
      BY <1>1, <1>2, <2>2
    <3>2. Cached(w, tlb[w])
      BY <1>2, <3>1 DEF TlbCoherent
    <3>3. PICK t \in LeafSlots(w) :
             /\ tlb[w].ppn = pt[t].ppn /\ tlb[w].super = Super(w)
             /\ tlb[w].flags \subseteq pt[t].flags /\ pt[t].flags \subseteq tlb[w].flags \cup {"A", "D"}
             /\ tlb[w].super => tlb[w].ppn % Radix = 0
      BY <3>2 DEF Cached
    <3>4. Gained(pt[t], pt'[t])
      BY <1>2, <1>3, <3>1, WalkStays
    <3>5. Super(w)' = Super(w) /\ t \in LeafSlots(w)'
      BY <1>5, <3>1 DEF Super, IsLeaf
    <3>6. /\ tlb'[w].ppn = pt'[t].ppn /\ tlb'[w].super = Super(w)'
          /\ tlb'[w].flags \subseteq pt'[t].flags
          /\ pt'[t].flags \subseteq tlb'[w].flags \cup {"A", "D"}
      BY <3>1, <3>3, <3>4, <3>5 DEF Gained
    <3>7. QED BY <3>1, <3>3, <3>5, <3>6 DEF Cached
  <2>3. QED BY <2>1, <2>2
<1>8. UseMarked'
  <2>1. \A w \in used : \A t \in LeafSlots(w) : "A" \in pt'[t].flags
    BY <1>2, <1>3, WalkStays DEF UseMarked, TypeOK, Gained
  <2>2. \A w \in stored : \A t \in LeafSlots(w) : "D" \in pt'[t].flags
    BY <1>2, <1>3, WalkStays DEF UseMarked, TypeOK, Gained
  <2>3. \A t \in LeafSlots(v) : t = s
    BY <1>2, <1>3, WalkStays
  <2>4. used' \subseteq used \cup {v} /\ (stored' \subseteq stored
          \/ (type = "STORE" /\ stored' \subseteq stored \cup {v}))
    BY DEF TlbFill, Record
  <2>5. used \subseteq Vpns /\ stored \subseteq Vpns
    BY <1>2 DEF TypeOK
  <2>6. QED BY <1>5, <1>6, <2>1, <2>2, <2>3, <2>4, <2>5 DEF UseMarked
<1>9. QED BY <1>4, <1>7, <1>8, FillTypes DEF MmuInv

\* A hit that counts as used, or as stored to, was marked by the walk that filled it.
LEMMA HitKeeps ==
    ASSUME MmuInv, NEW v \in Vpns, NEW type \in Types, NEW g, TlbHit(v, type, g)
    PROVE  MmuInv'
<1>1. /\ pt' = pt /\ root' = root /\ tlb' = tlb /\ synced' = synced /\ v \in DOMAIN tlb
      /\ Record(v, type, "D" \notin tlb[v].flags)
  BY DEF TlbHit
<1>2. TypeOK'
  BY <1>1 DEF MmuInv, TypeOK, Record
<1>3. IsFiniteSet(DOMAIN tlb)' /\ TablesOK' /\ TlbCoherent'
  BY <1>1 DEF MmuInv, TablesOK, TlbCoherent, Cached, LeafSlots, Super, Upper, Lower
<1>4. \A w \in Vpns : LeafSlots(w)' = LeafSlots(w)
  BY <1>1 DEF LeafSlots, Upper, Lower
<1>5. used \subseteq Vpns /\ stored \subseteq Vpns /\ UseMarked /\ TablesOK /\ root \in Roots
  BY DEF MmuInv, TypeOK
<1>6. CASE synced
  <2>1. PICK s \in LeafSlots(v) : tlb[v].flags \subseteq pt[s].flags
    BY <1>1, <1>6 DEF MmuInv, TlbCoherent, Cached
  <2>2. \A t \in LeafSlots(v) : t = s
    BY <1>5, WalkStays
  <2>3. "A" \in pt[s].flags
    BY <1>1, <2>1 DEF MmuInv, TypeOK
  <2>4. type = "STORE" /\ "D" \in tlb[v].flags => "D" \in pt[s].flags
    BY <2>1
  <2>5. used' \subseteq used \cup {v} /\ (stored' \subseteq stored
          \/ ("D" \in tlb[v].flags /\ stored' \subseteq stored \cup {v}))
    BY <1>1 DEF Record
  <2>6. UseMarked'
    BY <1>1, <1>4, <1>5, <2>1, <2>2, <2>3, <2>5 DEF UseMarked
  <2>7. QED BY <1>2, <1>3, <2>6 DEF MmuInv
<1>7. CASE ~synced
  <2>1. used' = used /\ stored' = stored
    BY <1>1, <1>7 DEF Record
  <2>2. QED BY <1>1, <1>2, <1>3, <1>4, <1>5, <2>1 DEF MmuInv, UseMarked
<1>8. QED BY <1>6, <1>7

\* So do a page table write, SFENCE.VMA and a write of satp.
LEMMA SoftwareKeeps ==
    ASSUME MmuInv,
           \/ \E s \in Slots : \E p \in Ptes[s] : SetPte(s, p)
           \/ SfenceVma
           \/ \E r \in Roots : WriteSatp(r)
    PROVE  MmuInv'
<1>1. ASSUME NEW s \in Slots, NEW p \in Ptes[s], SetPte(s, p) PROVE MmuInv'
  <2>1. /\ pt' = [pt EXCEPT ![s] = p] /\ root' = root /\ tlb' = tlb
        /\ synced' = (DOMAIN tlb = {}) /\ used' = {} /\ stored' = {}
    BY <1>1 DEF SetPte
  <2>2. TablesOK'
    BY <2>1, MmuAssumption DEF MmuInv, TablesOK
  <2>3. TlbCoherent'
    BY <2>1 DEF TlbCoherent
  <2>4. QED BY <2>1, <2>2, <2>3 DEF MmuInv, TypeOK, UseMarked
<1>2. CASE SfenceVma
  <2>1. DOMAIN tlb' = {} /\ tlb' = <<>> /\ synced' = TRUE
        /\ pt' = pt /\ root' = root /\ used' = used /\ stored' = stored
    BY <1>2 DEF SfenceVma
  <2>2. TypeOK' /\ IsFiniteSet(DOMAIN tlb)'
    BY <2>1, FS_EmptySet, MmuAssumption DEF MmuInv, TypeOK
  <2>3. TablesOK' /\ TlbCoherent'
    BY <2>1 DEF MmuInv, TablesOK, TlbCoherent
  <2>4. UseMarked'
    BY <2>1 DEF MmuInv, UseMarked, LeafSlots, Upper, Lower
  <2>5. QED BY <2>2, <2>3, <2>4 DEF MmuInv
<1>3. ASSUME NEW r \in Roots, WriteSatp(r) PROVE MmuInv'
  <2>1. DOMAIN tlb' = {} /\ tlb' = <<>> /\ synced' = TRUE
        /\ pt' = pt /\ root' = r /\ used' = {} /\ stored' = {}
    BY <1>3 DEF WriteSatp
  <2>2. TypeOK' /\ IsFiniteSet(DOMAIN tlb)'
    BY <2>1, FS_EmptySet, MmuAssumption DEF MmuInv, TypeOK
  <2>3. QED BY <2>1, <2>2 DEF MmuInv, TablesOK, TlbCoherent, UseMarked
<1>4. QED BY <1>1, <1>2, <1>3

\* The inductive invariant holds throughout: the TLB keeps to its size (TypeOK), what
\* it caches are leaves of the tables (TlbCoherent), and what was used is marked.
THEOREM MmuInvariant == Spec => []MmuInv
<1>1. MmuInv /\ [Next]_mmuVars => MmuInv'
  <2> SUFFICES ASSUME MmuInv, [Next]_mmuVars PROVE MmuInv'
    OBVIOUS
  <2>1. CASE UNCHANGED mmuVars
    BY <2>1 DEF mmuVars, MmuInv, TypeOK, TablesOK, TlbCoherent, Cached, UseMarked,
                LeafSlots, Super, Upper, Lower
  <2>2. ASSUME NEW v \in Vpns, NEW type \in Types, NEW g \in Regimes,
               TlbHit(v, type, g) \/ TlbFill(v, type, g)
        PROVE  MmuInv'
    BY <2>2, HitKeeps, FillKeeps
  <2>3. QED BY <2>1, <2>2, SoftwareKeeps DEF Next
<1>2. QED BY <1>1, InitMmu, PTL DEF Spec

\* The TLB never outgrows TLB_SIZE, the eviction of tlb_.begin() included (TypeOK).
THEOREM MmuTypeCorrect == Spec => []TypeOK
<1>1. MmuInv => TypeOK
  BY DEF MmuInv
<1>2. QED BY <1>1, MmuInvariant, PTL

\* While the tables have not changed under it, the TLB answers every access as the walk
\* would (TlbTransparent), because a cached entry differs from its leaf in A and D only,
\* which check_permissions() and the physical page do not depend on.
THEOREM MmuTlbTransparent == Spec => []TlbTransparent
<1>1. MmuInv => TlbTransparent
  <2> SUFFICES ASSUME MmuInv, synced, NEW v \in DOMAIN tlb, NEW type \in Types,
                      NEW g \in Regimes
               PROVE  /\ check_permissions(tlb[v].flags, type, g) <=> Walk(v, type, g) # {}
                      /\ \A s \in Walk(v, type, g) :
                            Page(tlb[v].ppn, tlb[v].super, v) = Page(pt[s].ppn, Super(v), v)
    BY DEF TlbTransparent
  <2>1. PICK s \in LeafSlots(v) :
           /\ tlb[v].ppn = pt[s].ppn /\ tlb[v].super = Super(v)
           /\ tlb[v].flags \subseteq pt[s].flags /\ pt[s].flags \subseteq tlb[v].flags \cup {"A", "D"}
           /\ tlb[v].super => tlb[v].ppn % Radix = 0
    BY DEF MmuInv, TlbCoherent, Cached
  <2>2. LeafSlots(v) = {s}
    <3>1. v \in Vpns /\ TablesOK /\ root \in Roots
      BY DEF MmuInv, TypeOK
    <3>2. QED BY <3>1, WalkStays
  <2>3. check_permissions(tlb[v].flags, type, g) <=> check_permissions(pt[s].flags, type, g)
    BY <2>1, SamePermissions
  <2>4. Walk(v, type, g) = {t \in {s} : check_permissions(pt[t].flags, type, g)}
    BY <2>1, <2>2 DEF Walk
  <2>5. QED BY <2>1, <2>3, <2>4
<1>2. QED BY <1>1, MmuInvariant, PTL

\* Every page that was used has its A bit, and every page a store was counted for its D
\* bit, in the tables that software reads (UseMarked).
THEOREM MmuUseMarked == Spec => []UseMarked
<1>1. MmuInv => UseMarked
  BY DEF MmuInv
<1>2. QED BY <1>1, MmuInvariant, PTL
=============================================================================
