-------------------------------- MODULE PLIC --------------------------------
(***************************************************************************)
(* The platform-level interrupt controller, src/src/irq/plic.{h,cpp}: one  *)
(* context, NUM_SOURCES sources of which id 0 is reserved.  Bit masks are  *)
(* sets of bit numbers.  The pending and enable registers are whole words: *)
(* software may set bit 0 and the bits from NumSources up, and the         *)
(* arbitration must ignore them.                                           *)
(*                                                                         *)
(* Every handler is a plain C++ call on a cooperative scheduler, so each   *)
(* one is a single step, the trailing evaluate_irq() included.             *)
(***************************************************************************)
EXTENDS Integers, FiniteSets

CONSTANTS NumSources,   \* cfg::IRQ_NUM_SOURCES (8 in the platform)
          WordBits,     \* width of pending_, enabled_ and claimed_ (32)
          MaxPrio,      \* largest priority the 3-bit field holds (7)
          MaxWrite      \* bound: the largest value software writes to a
                        \* priority, threshold or complete register

ASSUME PLICAssumption ==
    /\ NumSources \in Nat /\ NumSources > 1
    /\ WordBits \in Nat /\ WordBits >= NumSources
    /\ MaxPrio \in Nat
    /\ MaxWrite \in Nat

VARIABLES priority,     \* priority_[id]
          pending,      \* pending_, as a set of bits
          enabled,      \* enabled_
          threshold,    \* threshold_
          claimed,      \* claimed_: the sources in service
          meip          \* the level last given to on_external_irq

plicVars == <<priority, pending, enabled, threshold, claimed, meip>>

Bits    == 0 .. WordBits - 1
Ids     == 0 .. NumSources - 1
Sources == 1 .. NumSources - 1
Prios   == 0 .. MaxPrio
Written == 0 .. MaxWrite
-----------------------------------------------------------------------------
(***************************************************************************)
(* Arbitration.  Beats is what the loops of evaluate_irq and claim_best    *)
(* look for; Scan is the loop itself, source by source, and MCPLIC checks  *)
(* that the two say the same.                                              *)
(***************************************************************************)
Beats(pend, en, cl, prio, thr) ==
    {i \in Sources : i \in pend /\ i \in en /\ i \notin cl /\ prio[i] > thr}

\* The sources that may interrupt the hart in the current state.
Actionable == Beats(pending, enabled, claimed, priority, threshold)

\* claim_best(): the highest priority wins, the lowest id breaks ties.
claim_best ==
    IF Actionable = {} THEN 0
    ELSE CHOOSE i \in Actionable : \A j \in Actionable :
            priority[i] > priority[j] \/ (priority[i] = priority[j] /\ i <= j)

\* Mutant of ScanStep: a tie moves on to the later source.
ScanStep_TieToLast(best, i) ==
    IF i \in (pending \cap enabled) \ claimed
       /\ priority[i] > threshold /\ priority[i] >= best.prio
    THEN [id |-> i, prio |-> priority[i]]
    ELSE best

\* One turn of the loop: does source i displace the best found so far?
ScanStep(best, i) ==
    IF i \in (pending \cap enabled) \ claimed
       /\ priority[i] > threshold /\ priority[i] > best.prio
    THEN [id |-> i, prio |-> priority[i]]
    ELSE best

\* best_id and best_prio after the loop has looked at sources 1 .. n.
ScanTo[n \in Ids] ==
    IF n = 0 THEN [id |-> 0, prio |-> 0] ELSE ScanStep(ScanTo[n - 1], n)

\* Mutant of evaluate_irq: the line is computed before the register changes.
evaluate_irq_Early == meip' = (Actionable # {})

\* evaluate_irq(): the level handed to on_external_irq at the end of a handler,
\* computed from the registers as that handler leaves them.
evaluate_irq == meip' = (Actionable' # {})
-----------------------------------------------------------------------------
Init ==
    /\ priority = [i \in Ids |-> 0]
    /\ pending = {} /\ enabled = {} /\ claimed = {}
    /\ threshold = 0
    /\ meip = FALSE

\* set_pending(): a device drives its line.  Ids 0 and >= NUM_SOURCES return early.
set_pending(id, level) ==
    /\ id \in Sources
    /\ pending' = IF level THEN pending \cup {id} ELSE pending \ {id}
    /\ UNCHANGED <<priority, enabled, threshold, claimed>>
    /\ evaluate_irq

\* Write of a priority register; the one of source 0 is hardwired to 0.
WritePriority(id, val) ==
    /\ priority' = IF id # 0
                   THEN [priority EXCEPT ![id] = val % (MaxPrio + 1)]
                   ELSE priority
    /\ UNCHANGED <<pending, enabled, threshold, claimed>>
    /\ evaluate_irq

\* Write of the pending word, which the code allows "for testing".
WritePending(word) ==
    /\ pending' = word
    /\ UNCHANGED <<priority, enabled, threshold, claimed>>
    /\ evaluate_irq

WriteEnable(word) ==
    /\ enabled' = word
    /\ UNCHANGED <<priority, pending, threshold, claimed>>
    /\ evaluate_irq

\* Read of the claim register.  Only a successful claim changes state.
ReadClaim ==
    LET id == claim_best IN
    \/ /\ id # 0
       /\ claimed' = claimed \cup {id}
       /\ pending' = pending \ {id}
       /\ UNCHANGED <<priority, enabled, threshold>>
       /\ evaluate_irq
    \/ /\ id = 0
       /\ UNCHANGED plicVars

WriteThreshold(val) ==
    /\ threshold' = val % (MaxPrio + 1)
    /\ UNCHANGED <<priority, pending, enabled, claimed>>
    /\ evaluate_irq

\* Mutant of WriteComplete: the bound excludes the last source.
WriteComplete_LastIgnored(val) ==
    /\ claimed' = IF val < NumSources - 1 THEN claimed \ {val} ELSE claimed
    /\ UNCHANGED <<priority, pending, enabled, threshold>>
    /\ evaluate_irq

\* Write of the complete register: any id below NUM_SOURCES is released,
\* whether or not it was in service; larger values are ignored.
WriteComplete(val) ==
    /\ claimed' = IF val < NumSources THEN claimed \ {val} ELSE claimed
    /\ UNCHANGED <<priority, pending, enabled, threshold>>
    /\ evaluate_irq

\* Accesses answered with a TLM error (len # 4 or an unmapped offset), calls of
\* set_pending with a bad id, and plain register reads change nothing and are
\* covered by stuttering.
Next ==
    \/ \E id \in Sources, level \in BOOLEAN : set_pending(id, level)
    \/ \E id \in Ids, val \in Written : WritePriority(id, val)
    \/ \E word \in SUBSET Bits : WritePending(word)
    \/ \E word \in SUBSET Bits : WriteEnable(word)
    \/ \E val \in Written : WriteThreshold(val)
    \/ ReadClaim
    \/ \E val \in Written : WriteComplete(val)

Spec == Init /\ [][Next]_plicVars
-----------------------------------------------------------------------------
(***************************************************************************)
(* Properties.                                                             *)
(***************************************************************************)
\* The registers keep their widths: priorities and the threshold fit the 3-bit
\* field, source 0 keeps priority 0, and only real sources are ever in service.
TypeOK ==
    /\ priority \in [Ids -> Prios] /\ priority[0] = 0
    /\ pending \in SUBSET Bits
    /\ enabled \in SUBSET Bits
    /\ claimed \in SUBSET Sources
    /\ threshold \in Prios
    /\ meip \in BOOLEAN

\* The level on mip.MEIP is never stale: after every handler it is high exactly
\* when some source could be claimed.  It breaks as soon as one handler that
\* changes a register forgets evaluate_irq() or evaluates too early.
LineExact == meip <=> \E i \in Sources :
    /\ i \in pending /\ i \in enabled /\ i \notin claimed
    /\ priority[i] > threshold

\* The arbitration loop finds the declared winner: it ends with the id that
\* claim_best() promises (0 when there is none), and its best_prio is positive
\* exactly when the line must be high.
ScanAgrees ==
    LET best == ScanTo[NumSources - 1] IN
    /\ best.id = claim_best
    /\ (best.prio > 0) <=> (Actionable # {})
=============================================================================
