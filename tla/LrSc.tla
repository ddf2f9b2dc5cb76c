-------------------------------- MODULE LrSc --------------------------------
(***************************************************************************)
(* LR.W, SC.W, stores and AMOs of the ISS (src/src/cpu/execute.cpp,        *)
(* rv32a.h) and the writes of the other bus master, the DMA engine.  The   *)
(* hart has one reservation, shared by the program and by the trap         *)
(* handlers that interrupt it.                                             *)
(*                                                                         *)
(* Every level of nesting increments shared words: with a retry loop of    *)
(* LR.W and SC.W, with a plain store of a new value, or with an AMOADD.W.  *)
(* A handler completes what it began before it returns, and an instruction *)
(* that faulted is executed again when its handler returns.                *)
(***************************************************************************)
EXTENDS Integers

CONSTANTS Words,        \* aligned word addresses
          Modulus,      \* number of values of a word (2^32)
          Depth,        \* bound: how deep handlers nest
          LoopWords,    \* the words incremented with LR.W and SC.W,
          AmoWords,     \* those updated with AMOs,
          DmaWords      \* and those a DMA transfer may write

ASSUME LrScAssumption ==
    /\ Words # {}
    /\ Modulus \in Nat \ {0} /\ Depth \in Nat \ {0}
    /\ LoopWords \subseteq Words /\ AmoWords \subseteq Words /\ DmaWords \subseteq Words

VARIABLES mem,
          lr_sc,        \* Reservation: addr and valid
          level,        \* the running level of nesting
          loop,         \* per level: the increment under way, "idle", "retry" an
                        \* LR.W that faulted, or "loaded"
          expected,     \* history: what each word must hold, every completed
                        \* update applied once
          dirty         \* history: the levels whose word was written by anyone after
                        \* their LR.W loaded it

lrscVars == <<mem, lr_sc, level, loop, expected, dirty>>

Vals   == 0 .. Modulus - 1
Levels == 1 .. Depth
NoLoop == [at |-> "idle", addr |-> CHOOSE w \in Words : TRUE, val |-> 0]

\* A write of word w by anyone.
LoadedFrom(w) == {n \in Levels : loop[n].at = "loaded" /\ loop[n].addr = w}
Note(w) == dirty' = dirty \cup LoadedFrom(w)
Update(w, v) == mem' = [mem EXCEPT ![w] = v] /\ expected' = [expected EXCEPT ![w] = v]

\* amo_add() of 1 on a word of f.
Incremented(f, w) == [f EXCEPT ![w] = (@ + 1) % Modulus]
-----------------------------------------------------------------------------
LrScInit ==
    /\ mem = [w \in Words |-> 0] /\ expected = mem
    /\ lr_sc = [addr |-> NoLoop.addr, valid |-> FALSE]
    /\ level = 1 /\ loop = [n \in Levels |-> NoLoop]
    /\ dirty = {}

\* The running level is interrupted, or its instruction faults.  take_trap()
\* leaves the reservation alone.
Trap == level < Depth /\ level' = level + 1

\* LR.W: the load, then lr_sc.set() -- also when the load faulted.
LR_W(w) ==
    /\ loop[level].at = "idle" \/ (loop[level].at = "retry" /\ loop[level].addr = w)
    /\ lr_sc' = [addr |-> w, valid |-> TRUE]
    /\ dirty' = dirty \ {level}
    /\ \/ /\ loop' = [loop EXCEPT ![level] = [at |-> "loaded", addr |-> w, val |-> mem[w]]]
          /\ UNCHANGED level
       \/ /\ Trap
          /\ loop' = [loop EXCEPT ![level] = [at |-> "retry", addr |-> w, val |-> 0]]
    /\ UNCHANGED <<mem, expected>>

\* Mutant of Unreserve: the reservation is kept.
Unreserve_Never == UNCHANGED lr_sc

\* lr_sc.clear() at the end of a store or of an SC.W, whatever its address is and
\* whether or not the access faulted.
Unreserve == lr_sc' = [lr_sc EXCEPT !.valid = FALSE]

\* Mutant of SC_W: only stores clear the reservation (and SC.W does not fault).
SC_W_KeepsReservation ==
    LET w == loop[level].addr
        ok == lr_sc.valid /\ lr_sc.addr = w IN
    /\ loop[level].at = "loaded"
    /\ mem' = IF ok THEN [mem EXCEPT ![w] = (loop[level].val + 1) % Modulus] ELSE mem
    /\ expected' = IF ok THEN Incremented(expected, w) ELSE expected
    /\ dirty' = IF ok THEN (dirty \cup LoadedFrom(w)) \ {level} ELSE dirty \ {level}
    /\ loop' = [loop EXCEPT ![level] = NoLoop]
    /\ UNCHANGED <<level, lr_sc>>

\* SC.W of the incremented value: it writes only if the reservation checks.  On
\* failure the loop starts over; after a fault SC.W is executed again.
SC_W ==
    LET w == loop[level].addr
        ok == lr_sc.valid /\ lr_sc.addr = w IN
    /\ loop[level].at = "loaded"
    /\ \/ /\ mem' = IF ok THEN [mem EXCEPT ![w] = (loop[level].val + 1) % Modulus] ELSE mem
          /\ expected' = IF ok THEN Incremented(expected, w) ELSE expected
          /\ dirty' = (IF ok THEN dirty \cup LoadedFrom(w) ELSE dirty) \ {level}
          /\ loop' = [loop EXCEPT ![level] = NoLoop]
          /\ UNCHANGED level
       \/ ok /\ Trap /\ UNCHANGED <<mem, expected, loop, dirty>>
    /\ Unreserve

\* SB, SH, SW; one that faults writes nothing.
Store(w, v) ==
    /\ loop[level].at # "retry"
    /\ \/ Update(w, v) /\ Note(w) /\ UNCHANGED level
       \/ Trap /\ UNCHANGED <<mem, expected, dirty>>
    /\ Unreserve
    /\ UNCHANGED loop

\* AMOADD.W of 1, standing for all AMOs: read and write in one instruction, or
\* a fault and neither.
AMO_W(w) ==
    /\ loop[level].at # "retry"
    /\ \/ /\ mem' = Incremented(mem, w) /\ expected' = Incremented(expected, w)
          /\ Note(w)
          /\ UNCHANGED level
       \/ Trap /\ UNCHANGED <<mem, expected, dirty>>
    /\ UNCHANGED <<lr_sc, loop>>

\* A burst of the DMA engine writes the word while the ISS has yielded.
DmaWrite(w, v) ==
    /\ Update(w, v) /\ Note(w)
    /\ UNCHANGED <<lr_sc, level, loop>>

\* An interrupt is taken between two instructions, or an access is misaligned
\* and returns before it touches memory or the reservation.
Enter == Trap /\ UNCHANGED <<mem, lr_sc, loop, expected, dirty>>

Return ==
    /\ level > 1 /\ loop[level].at = "idle"
    /\ level' = level - 1
    /\ UNCHANGED <<mem, lr_sc, loop, expected, dirty>>

LrScNext ==
    \/ \E w \in LoopWords : LR_W(w)
    \/ SC_W
    \/ \E w \in Words, v \in Vals : Store(w, v)
    \/ \E w \in DmaWords, v \in Vals : DmaWrite(w, v)
    \/ \E w \in AmoWords : AMO_W(w)
    \/ Enter \/ Return

LrScSpec == LrScInit /\ [][LrScNext]_lrscVars
-----------------------------------------------------------------------------
\* The words, the reservation and the loops have their types.
LrScTypeOK ==
    /\ mem \in [Words -> Vals] /\ expected \in [Words -> Vals]
    /\ lr_sc \in [addr : Words, valid : BOOLEAN]
    /\ level \in Levels
    /\ loop \in [Levels -> [at : {"idle", "retry", "loaded"}, addr : Words, val : Vals]]
    /\ dirty \subseteq Levels

\* Read-modify-write with LR.W and SC.W is atomic against the handlers that
\* interrupt it: no increment is lost and none is applied to a stale value,
\* whatever the handlers load, store or reserve in between.
NoLostUpdate == mem = expected

\* While the running loop's SC.W would succeed, nobody has written its word since
\* that loop's own LR.W: neither a handler that interrupted it, at any depth and even
\* if it put the old value back (which NoLostUpdate cannot see), nor an AMO, nor the
\* DMA engine.
ReservationFresh ==
    loop[level].at = "loaded" /\ lr_sc.valid /\ lr_sc.addr = loop[level].addr
        => level \notin dirty
=============================================================================
