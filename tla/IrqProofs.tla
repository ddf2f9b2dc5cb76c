----------------------------- MODULE IrqProofs ------------------------------
(***************************************************************************)
(* The interrupt controllers.  The PLIC, for any number of sources, any    *)
(* word width and any priority range: its registers keep their types, the  *)
(* external-interrupt line is exact after every handler and the            *)
(* arbitration loop finds the declared winner.  The CLINT and the          *)
(* firmware's arming sequence, for halves of any width.                    *)
(***************************************************************************)
EXTENDS PLIC, ClintArm, WellFoundedInduction, TLAPS
-----------------------------------------------------------------------------
(* The PLIC. *)

\* A nonempty set of naturals has a least element.
LEMMA NatLeast ==
    ASSUME NEW T, T \subseteq Nat, T # {}
    PROVE  \E x \in T : \A y \in T : x <= y
<1>1. PICK x \in T : \A y \in T : ~ (<<y, x>> \in OpToRel(<, Nat))
  BY NatLessThanWellFounded, WFMin
<1>2. \A y \in T : y < x => <<y, x>> \in OpToRel(<, Nat)
  BY Zenon DEF OpToRel
<1>3. \A y \in T : ~ (y < x)
  BY <1>1, <1>2, Zenon
<1>4. \A y \in T : y \in Nat /\ x \in Nat
  OBVIOUS
<1>5. QED BY <1>3, <1>4

\* Masking a written value to the priority field yields a legal priority.
LEMMA MaskInRange ==
    ASSUME NEW val \in Written
    PROVE  val % (MaxPrio + 1) \in Prios
  BY PLICAssumption DEF Written, Prios

\* The reserved id 0 is among the register indices and is not a source.
LEMMA ZeroReserved == 0 \in Ids /\ 0 \notin Sources /\ Sources \subseteq Ids /\ Sources \subseteq Bits
  BY PLICAssumption DEF Ids, Sources, Bits

\* The priority order with ties broken by id has a greatest element on every
\* nonempty set of sources, so claim_best() is well defined: it returns 0 when
\* no source may interrupt the hart and otherwise one that may, which no other
\* such source outranks.
LEMMA ClaimBestWins ==
    ASSUME TypeOK
    PROVE  /\ Actionable = {} => claim_best = 0
           /\ Actionable # {} =>
                /\ claim_best \in Actionable
                /\ \A j \in Actionable :
                     \/ priority[claim_best] > priority[j]
                     \/ priority[claim_best] = priority[j] /\ claim_best <= j
<1>1. CASE Actionable = {}
  BY <1>1 DEF claim_best
<1>2. CASE Actionable # {}
  <2> DEFINE Gap(i) == MaxPrio - priority[i]
             Gaps   == {Gap(i) : i \in Actionable}
  <2>1. Actionable \subseteq Sources /\ Sources \subseteq Nat
    BY DEF Actionable, Beats, Sources
  <2>2. \A i \in Actionable : priority[i] \in Prios /\ Gap(i) \in Nat
    BY <2>1, ZeroReserved, PLICAssumption DEF TypeOK, Prios
  <2>3. Gaps \subseteq Nat /\ Gaps # {}
    BY <1>2, <2>2
  <2>4. PICK g \in Gaps : \A h \in Gaps : g <= h
    <3> HIDE DEF Gaps
    <3> QED BY <2>3, NatLeast
  <2> DEFINE Top == {i \in Actionable : Gap(i) = g}
  <2>5. Top \subseteq Nat /\ Top # {}
    BY <2>1, <2>4
  <2>6. PICK b \in Top : \A j \in Top : b <= j
    <3> HIDE DEF Top
    <3> QED BY <2>5, NatLeast
  <2>7. \A j \in Actionable : priority[b] > priority[j] \/ (priority[b] = priority[j] /\ b <= j)
    <3> SUFFICES ASSUME NEW j \in Actionable
                 PROVE  priority[b] > priority[j] \/ (priority[b] = priority[j] /\ b <= j)
      OBVIOUS
    <3>1. Gap(b) <= Gap(j)
      BY <2>4, <2>6
    <3>2. CASE Gap(j) = g
      BY <2>6, <3>2, <2>2, PLICAssumption DEF Prios
    <3>3. CASE Gap(j) # g
      BY <3>1, <3>3, <2>6, <2>2, PLICAssumption DEF Prios
    <3>4. QED BY <3>2, <3>3
  <2>8. b \in Actionable
    BY <2>6
  <2>9. QED BY <1>2, <2>7, <2>8 DEF claim_best
<1>3. QED BY <1>1, <1>2

\* The registers keep their widths in every reachable state (TypeOK).
THEOREM PLICTypeCorrect == Spec => []TypeOK
<1>1. Init => TypeOK
  <2> SUFFICES ASSUME Init PROVE TypeOK
    OBVIOUS
  <2>1. 0 \in Prios
    BY PLICAssumption DEF Prios
  <2>2. QED BY <2>1, ZeroReserved DEF Init, TypeOK
<1>2. TypeOK /\ [Next]_plicVars => TypeOK'
  <2> SUFFICES ASSUME TypeOK, [Next]_plicVars PROVE TypeOK'
    OBVIOUS
  <2>1. ASSUME NEW id \in Sources, NEW level \in BOOLEAN, set_pending(id, level)
        PROVE  TypeOK'
    BY <2>1, ZeroReserved DEF TypeOK, set_pending, evaluate_irq
  <2>2. ASSUME NEW id \in Ids, NEW val \in Written, WritePriority(id, val)
        PROVE  TypeOK'
    BY <2>2, MaskInRange, ZeroReserved DEF TypeOK, WritePriority, evaluate_irq
  <2>3. ASSUME NEW word \in SUBSET Bits, WritePending(word)
        PROVE  TypeOK'
    BY <2>3 DEF TypeOK, WritePending, evaluate_irq
  <2>4. ASSUME NEW word \in SUBSET Bits, WriteEnable(word)
        PROVE  TypeOK'
    BY <2>4 DEF TypeOK, WriteEnable, evaluate_irq
  <2>5. ASSUME NEW val \in Written, WriteThreshold(val)
        PROVE  TypeOK'
    BY <2>5, MaskInRange DEF TypeOK, WriteThreshold, evaluate_irq
  <2>6. ASSUME ReadClaim
        PROVE  TypeOK'
    <3>1. CASE claim_best # 0
      <4>1. claim_best \in Sources
        BY <3>1, ClaimBestWins DEF Actionable, Beats
      <4>2. /\ claimed' = claimed \cup {claim_best}
            /\ pending' = pending \ {claim_best}
            /\ UNCHANGED <<priority, enabled, threshold>>
            /\ evaluate_irq
        BY <2>6, <3>1 DEF ReadClaim
      <4>3. QED BY <4>1, <4>2 DEF TypeOK, evaluate_irq
    <3>2. CASE claim_best = 0
      BY <2>6, <3>2 DEF TypeOK, ReadClaim, plicVars
    <3>3. QED BY <3>1, <3>2
  <2>7. ASSUME NEW val \in Written, WriteComplete(val)
        PROVE  TypeOK'
    BY <2>7 DEF TypeOK, WriteComplete, evaluate_irq
  <2>8. CASE UNCHANGED plicVars
    BY <2>8 DEF TypeOK, plicVars
  <2>9. QED
    BY <2>1, <2>2, <2>3, <2>4, <2>5, <2>6, <2>7, <2>8 DEF Next
<1>3. QED BY <1>1, <1>2, PTL DEF Spec

\* A handler that ends with evaluate_irq() leaves the line exact, whatever it
\* did to the registers.
LEMMA EvaluateExact == evaluate_irq => LineExact'
  BY DEF evaluate_irq, LineExact, Actionable, Beats

\* The external-interrupt line is exact in every reachable state (LineExact):
\* no handler leaves mip.MEIP high without a claimable source or low with one.
THEOREM PLICLineExact == Spec => []LineExact
<1>1. Init => LineExact
  BY DEF Init, LineExact
<1>2. LineExact /\ [Next]_plicVars => LineExact'
  <2> SUFFICES ASSUME LineExact, [Next]_plicVars PROVE LineExact'
    OBVIOUS
  <2>1. CASE UNCHANGED plicVars
    BY <2>1 DEF LineExact, plicVars
  <2>2. CASE evaluate_irq
    BY <2>2, EvaluateExact
  <2>3. CASE Next
    <3>1. evaluate_irq \/ UNCHANGED plicVars
      BY <2>3 DEF Next, set_pending, WritePriority, WritePending, WriteEnable,
                  WriteThreshold, ReadClaim, WriteComplete
    <3>2. QED BY <3>1, <2>1, <2>2
  <2>4. QED BY <2>1, <2>3
<1>3. QED BY <1>1, <1>2, PTL DEF Spec

-----------------------------------------------------------------------------
(***************************************************************************)
(* The loop of evaluate_irq() and claim_best().  What it computes is shown *)
(* by induction over the sources it has looked at, as the absence of a     *)
(* least one at which it is wrong.                                         *)
(***************************************************************************)

\* Induction over the prefix 0 .. N of the naturals, for a set.
LEMMA PrefixInduction ==
    ASSUME NEW N \in Nat, NEW S, 0 \in S, \A n \in 0 .. N - 1 : n \in S => n + 1 \in S
    PROVE  0 .. N \subseteq S
<1> DEFINE Wrong == 0 .. N \ S
<1> SUFFICES ASSUME Wrong # {} PROVE FALSE
  OBVIOUS
<1>1. Wrong \subseteq Nat
  OBVIOUS
<1>2. PICK x \in Wrong : \A y \in Wrong : x <= y
  BY <1>1, NatLeast
<1>3. x - 1 \in 0 .. N - 1 /\ x - 1 \notin Wrong
  BY <1>2
<1>4. QED BY <1>2, <1>3

Start == [id |-> 0, prio |-> 0]

\* ScanTo exists: the loop is defined for every prefix of the sources.
LEMMA ScanToUnfolds ==
    ScanTo = [n \in Ids |-> IF n = 0 THEN Start ELSE ScanStep(ScanTo[n - 1], n)]
<1> DEFINE Runs(m, g) == g = [n \in 0 .. m |-> IF n = 0 THEN Start ELSE ScanStep(g[n - 1], n)]
           Some == {m \in Ids : \E g : Runs(m, g)}
<1>1. 0 \in Some
  <2>1. Runs(0, [n \in 0 .. 0 |-> Start])
    OBVIOUS
  <2>2. QED BY <2>1, ZeroReserved
<1>2. ASSUME NEW m \in 0 .. NumSources - 2, m \in Some PROVE m + 1 \in Some
  <2>1. PICK g : Runs(m, g)
    BY <1>2
  <2> DEFINE h == [n \in 0 .. m + 1 |-> IF n <= m THEN g[n] ELSE ScanStep(g[m], n)]
  <2>2. \A n \in 0 .. m : g[n] = IF n = 0 THEN Start ELSE ScanStep(g[n - 1], n)
    BY <2>1
  <2>3. \A n \in 0 .. m + 1 : h[n] = IF n = 0 THEN Start ELSE ScanStep(h[n - 1], n)
    <3> SUFFICES ASSUME NEW n \in 0 .. m + 1
                 PROVE  h[n] = IF n = 0 THEN Start ELSE ScanStep(h[n - 1], n)
      OBVIOUS
    <3>1. CASE n = 0
      BY <2>2, <3>1
    <3>2. CASE n # 0 /\ n <= m
      <4>1. h[n] = g[n] /\ h[n - 1] = g[n - 1] /\ n \in 0 .. m
        BY <3>2
      <4>2. QED BY <2>2, <3>2, <4>1
    <3>3. CASE n = m + 1
      <4>1. h[n] = ScanStep(g[m], n) /\ h[n - 1] = g[m]
        BY <3>3
      <4>2. QED BY <3>3, <4>1
    <3>4. QED BY <3>1, <3>2, <3>3
  <2>4. Runs(m + 1, h)
    BY <2>3
  <2>5. m + 1 \in Ids
    BY PLICAssumption DEF Ids
  <2>6. QED BY <2>4, <2>5
<1>3. NumSources - 1 \in Some
  <2> HIDE DEF Some
  <2>1. NumSources - 1 \in Nat /\ NumSources - 1 - 1 = NumSources - 2
    BY PLICAssumption
  <2>2. 0 .. NumSources - 1 \subseteq Some
    BY <1>1, <1>2, <2>1, PrefixInduction
  <2>3. QED BY <2>1, <2>2
<1>4. PICK g : Runs(NumSources - 1, g)
  BY <1>3
<1>5. g = [n \in Ids |-> IF n = 0 THEN Start ELSE ScanStep(g[n - 1], n)]
  BY <1>4 DEF Ids
<1>6. QED BY <1>5 DEF ScanTo, Start

\* What the loop has found after sources 1 .. n: the winner among them.
Found(n) ==
    LET best == ScanTo[n]
        seen == {i \in Actionable : i <= n} IN
    /\ best.id \in Nat /\ best.prio \in Nat
    /\ seen = {} => best = Start
    /\ seen # {} =>
         /\ best.id \in seen /\ best.prio = priority[best.id] /\ best.prio > 0
         /\ \A j \in seen : best.prio > priority[j] \/ (best.prio = priority[j] /\ best.id <= j)

\* After each source the scan holds the best of the actionable sources seen so far.
LEMMA ScanFinds ==
    ASSUME TypeOK
    PROVE  \A n \in Ids : Found(n)
<1> DEFINE S == {n \in Ids : Found(n)}
<1>1. 0 \in S
  <2>1. ScanTo[0] = Start
    BY ScanToUnfolds, ZeroReserved
  <2>2. {i \in Actionable : i <= 0} = {}
    BY DEF Actionable, Beats, Sources
  <2>3. QED BY <2>1, <2>2, ZeroReserved DEF Found, Start
<1>2. ASSUME NEW n \in 0 .. NumSources - 2, n \in S PROVE n + 1 \in S
  <2> DEFINE best == ScanTo[n]
             i    == n + 1
             seen == {k \in Actionable : k <= n}
             now  == {k \in Actionable : k <= n + 1}
  <2>1. n \in Ids /\ i \in Ids /\ i \in Sources /\ n \in Nat /\ i # 0 /\ i - 1 = n
    BY PLICAssumption DEF Ids, Sources
  <2>2. ScanTo[i] = ScanStep(best, i)
    BY <2>1, ScanToUnfolds
  <2>3. Actionable \subseteq Sources /\ Sources \subseteq Nat
    BY DEF Actionable, Beats, Sources
  <2>4. i \in Actionable <=> i \in (pending \cap enabled) \ claimed /\ priority[i] > threshold
    BY <2>1 DEF Actionable, Beats
  <2>5. \A k \in Actionable : priority[k] \in Nat /\ priority[k] > 0
    <3>1. \A k \in Actionable : priority[k] \in Prios /\ threshold \in Prios /\ priority[k] > threshold
      BY <2>3, ZeroReserved DEF TypeOK, Actionable, Beats
    <3>2. QED BY <3>1, PLICAssumption DEF Prios
  <2>upto. \A k \in Actionable : k <= n + 1 <=> k <= n \/ k = n + 1
    BY <2>1, <2>3
  <2>6. CASE i \notin Actionable
    <3>1. now = seen
      BY <2>upto, <2>6
    <3>2. ScanTo[i] = best
      BY <2>2, <2>4, <2>6 DEF ScanStep
    <3>3. QED BY <1>2, <2>1, <3>1, <3>2 DEF Found
  <2>7. CASE i \in Actionable
    <3>1. now = seen \cup {i}
      BY <2>1, <2>upto, <2>7
    <3>2. ScanTo[i] = IF priority[i] > best.prio THEN [id |-> i, prio |-> priority[i]] ELSE best
      BY <2>2, <2>4, <2>7 DEF ScanStep
    <3>3. CASE seen = {}
      <4>1. best.prio = 0
        BY <1>2, <3>3 DEF Found, Start
      <4>2. ScanTo[i] = [id |-> i, prio |-> priority[i]]
        BY <2>5, <2>7, <3>2, <4>1
      <4>3. QED BY <2>1, <2>5, <2>7, <3>1, <3>3, <4>2 DEF Found
    <3>4. CASE seen # {}
      <4>1. /\ best.id \in seen /\ best.prio = priority[best.id] /\ best.prio > 0
            /\ best.prio \in Nat /\ best.id \in Nat
            /\ \A j \in seen : best.prio > priority[j] \/ (best.prio = priority[j] /\ best.id <= j)
        BY <1>2, <3>4 DEF Found
      <4>2. \A k \in seen : k \in Nat /\ k <= n /\ priority[k] \in Nat
        BY <2>3, <2>5
      <4>3. CASE priority[i] > best.prio
        <5>1. ScanTo[i] = [id |-> i, prio |-> priority[i]]
          BY <3>2, <4>3
        <5>2. \A j \in seen : priority[i] > priority[j]
          BY <2>5, <2>7, <4>1, <4>2, <4>3
        <5>3. QED BY <2>1, <2>5, <2>7, <3>1, <5>1, <5>2 DEF Found
      <4>4. CASE ~(priority[i] > best.prio)
        <5>1. ScanTo[i] = best
          BY <3>2, <4>4
        <5>2. best.prio > priority[i] \/ (best.prio = priority[i] /\ best.id <= i)
          BY <2>1, <2>5, <2>7, <4>1, <4>2, <4>4
        <5>3. \A j \in now : best.prio > priority[j] \/ (best.prio = priority[j] /\ best.id <= j)
          BY <3>1, <4>1, <5>2
        <5>4. now # {} /\ best.id \in now
          BY <3>1, <4>1
        <5>5. QED BY <2>1, <4>1, <5>1, <5>3, <5>4 DEF Found
      <4>5. QED BY <4>3, <4>4
    <3>5. QED BY <3>3, <3>4
  <2>8. QED BY <2>6, <2>7
<1>3. 0 .. NumSources - 1 \subseteq S
  <2> HIDE DEF S
  <2>1. NumSources - 1 \in Nat /\ NumSources - 1 - 1 = NumSources - 2
    BY PLICAssumption
  <2>2. QED BY <1>1, <1>2, <2>1, PrefixInduction
<1>4. QED BY <1>3 DEF Ids

\* The loop ends with the source that claim_best() promises, for any number of sources:
\* the highest priority above the threshold, the lowest id among equals, and 0 when the
\* line must be low (ScanAgrees).
THEOREM PLICScanAgrees == Spec => []ScanAgrees
<1>1. TypeOK => ScanAgrees
  <2> SUFFICES ASSUME TypeOK PROVE ScanAgrees
    OBVIOUS
  <2> DEFINE last == NumSources - 1
             best == ScanTo[last]
  <2>1. Found(last)
    BY ScanFinds, PLICAssumption DEF Ids
  <2>2. {i \in Actionable : i <= last} = Actionable
    BY PLICAssumption DEF Actionable, Beats, Sources
  <2>3. CASE Actionable = {}
    BY <2>1, <2>2, <2>3, ClaimBestWins DEF Found, Start, ScanAgrees
  <2>4. CASE Actionable # {}
    <3>1. /\ best.id \in Actionable /\ best.prio = priority[best.id] /\ best.prio > 0
          /\ \A j \in Actionable : best.prio > priority[j] \/ (best.prio = priority[j] /\ best.id <= j)
      BY <2>1, <2>2, <2>4 DEF Found
    <3>2. /\ claim_best \in Actionable
          /\ \A j \in Actionable : \/ priority[claim_best] > priority[j]
                                   \/ priority[claim_best] = priority[j] /\ claim_best <= j
      BY <2>4, ClaimBestWins
    <3>3. /\ claim_best \in Nat /\ best.id \in Nat
          /\ priority[claim_best] \in Nat /\ priority[best.id] \in Nat
      BY <3>1, <3>2, ZeroReserved, PLICAssumption
         DEF Actionable, Beats, Sources, TypeOK, Prios
    <3>4. best.id = claim_best
      BY <3>1, <3>2, <3>3
    <3>5. QED BY <2>4, <3>1, <3>4 DEF ScanAgrees
  <2>5. QED BY <2>3, <2>4
<1>2. QED BY <1>1, PLICTypeCorrect, PTL
-----------------------------------------------------------------------------
(* The CLINT. *)

\* The register operations stay within 64-bit words.
LEMMA WordOps ==
    ASSUME NEW x \in Word, NEW v \in Halves
    PROVE  SetLo(x, v) \in Word /\ SetHi(x, v) \in Word /\ Inc(x) \in Word
  BY HalfAssumption DEF Word, Halves, SetLo, SetHi, Inc

\* Zero and the largest value are words.
LEMMA WordConsts == ZeroWord \in Word /\ MaxWord \in Word
  BY HalfAssumption DEF ZeroWord, MaxWord, Word, Halves

\* The initial CLINT is well typed.
LEMMA InitType == ClintInit => ClintTypeOK
  BY WordConsts DEF ClintInit, ClintTypeOK

\* Every tick and every bus write preserves the types.
LEMMA StepType == ClintTypeOK /\ [ClintNext]_clintVars => ClintTypeOK'
<1> SUFFICES ASSUME ClintTypeOK, [ClintNext]_clintVars PROVE ClintTypeOK'
  OBVIOUS
<1> USE DEF ClintTypeOK
<1>0. \A x, y : Geq(x, y) \in BOOLEAN
  BY DEF Geq
<1>1. CASE Tick
  BY <1>0, <1>1, WordOps, HalfAssumption DEF Tick, update_timer_irq, Halves
<1>2. ASSUME NEW val \in MsipWrites, WriteMsip(val) PROVE ClintTypeOK'
  <2>1. val % 2 \in {0, 1}
    BY MsipAssumption
  <2>2. QED BY <1>2, <2>1 DEF WriteMsip
<1>3. ASSUME NEW val \in Halves,
             WriteMtimecmpLo(val) \/ WriteMtimecmpHi(val)
             \/ WriteMtimeLo(val) \/ WriteMtimeHi(val)
      PROVE  ClintTypeOK'
  BY <1>0, <1>3, WordOps DEF WriteMtimecmpLo, WriteMtimecmpHi, WriteMtimeLo, WriteMtimeHi,
                       update_timer_irq
<1>4. CASE UNCHANGED clintVars
  BY <1>4 DEF clintVars
<1>5. QED BY <1>1, <1>2, <1>3, <1>4 DEF ClintNext, BusWrite

\* The counters stay 64-bit words and msip keeps one bit (ClintTypeOK).
THEOREM CLINTTypeCorrect == ClintSpec => []ClintTypeOK
<1>1. QED BY InitType, StepType, PTL DEF ClintSpec

\* At reset the comparator is ahead of the counter.
LEMMA InitLines == ClintInit => LinesExact
<1>1. ~Geq(ZeroWord, MaxWord)
  BY HalfAssumption DEF Geq, ZeroWord, MaxWord
<1>2. QED BY <1>1 DEF ClintInit, LinesExact

\* Every handler leaves both levels exact.
LEMMA StepLines == ClintTypeOK /\ LinesExact /\ [ClintNext]_clintVars => LinesExact'
<1> SUFFICES ASSUME ClintTypeOK, LinesExact, [ClintNext]_clintVars PROVE LinesExact'
  OBVIOUS
<1> USE DEF LinesExact
<1>1. CASE update_timer_irq /\ UNCHANGED <<msip, msip_line>>
  BY <1>1 DEF update_timer_irq
<1>2. ASSUME NEW val \in MsipWrites, WriteMsip(val) PROVE LinesExact'
  <2>1. val % 2 \in {0, 1}
    BY MsipAssumption
  <2>2. msip' \in {0, 1} /\ (msip_line' <=> msip' # 0)
    BY <1>2, <2>1 DEF WriteMsip
  <2>3. msip_line' <=> msip' = 1
    BY <2>2
  <2>4. mtip' <=> Geq(mtime', mtimecmp')
    BY <1>2 DEF WriteMsip
  <2>5. QED BY <2>3, <2>4
<1>3. CASE UNCHANGED clintVars
  BY <1>3 DEF clintVars
<1>4. QED
  BY <1>1, <1>2, <1>3 DEF ClintNext, BusWrite, Tick, WriteMtimecmpLo, WriteMtimecmpHi, WriteMtimeLo,
                          WriteMtimeHi

\* MTIP and MSIP are never stale (LinesExact).
THEOREM CLINTLinesExact == ClintSpec => []LinesExact
<1>1. QED BY InitLines, StepLines, CLINTTypeCorrect, PTL DEF ClintSpec

-----------------------------------------------------------------------------
(* The arming sequence of the CLINT. *)

\* The firmware's stores and the tick are steps of the CLINT.
LEMMA ArmStepIsClint == ArmInv /\ [ArmNext]_armVars => [ClintNext]_clintVars
<1> SUFFICES ASSUME ArmInv, [ArmNext]_armVars PROVE [ClintNext]_clintVars
  OBVIOUS
<1>1. Half - 1 \in Halves /\ deadline.lo \in Halves /\ deadline.hi \in Halves
  BY HalfAssumption DEF Halves, ArmInv, Word
<1>2. QED
  BY <1>1 DEF ArmNext, ArmLowMax, ArmHigh, ArmLow, OtherStore, TickStep, ClintNext, BusWrite, armVars, clintVars

\* Each store establishes its part of ArmInv, and the tick leaves the
\* comparator alone.
LEMMA ArmInvStep == ArmInv /\ ClintTypeOK /\ [ArmNext]_armVars => ArmInv'
<1> SUFFICES ASSUME ArmInv, ClintTypeOK, [ArmNext]_armVars PROVE ArmInv'
  OBVIOUS
<1> USE DEF ArmInv
<1>1. CASE ArmLowMax
  BY <1>1 DEF ArmLowMax, WriteMtimecmpLo, SetLo
<1>2. CASE ArmHigh
  BY <1>2 DEF ArmHigh, WriteMtimecmpHi, SetHi
<1>3. CASE ArmLow
  <2>1. deadline = [hi |-> deadline.hi, lo |-> deadline.lo]
    BY DEF Word
  <2>2. QED BY <1>3, <2>1 DEF ArmLow, WriteMtimecmpLo, SetLo
<1>4. CASE OtherStore
  BY <1>4 DEF OtherStore
<1>5. CASE TickStep
  BY <1>5 DEF TickStep, Tick
<1>6. CASE UNCHANGED armVars
  BY <1>6 DEF armVars, clintVars
<1>7. QED BY <1>1, <1>2, <1>3, <1>4, <1>5, <1>6 DEF ArmNext

\* The inductive invariant of the armed CLINT.
LEMMA ArmInductive == ArmSpec => [](ArmInv /\ ClintTypeOK /\ LinesExact)
<1>1. ArmInit => ArmInv /\ ClintTypeOK /\ LinesExact
  BY WordConsts, InitType, InitLines DEF ArmInit, ArmInv
<1>2. ArmInv /\ ClintTypeOK /\ LinesExact /\ [ArmNext]_armVars => (ArmInv /\ ClintTypeOK /\ LinesExact)'
  BY ArmStepIsClint, ArmInvStep, StepType, StepLines
<1>3. QED BY <1>1, <1>2, PTL DEF ArmSpec

\* Once armed, MTIP tells exactly whether the deadline has passed.
LEMMA ArmedIsExact == ArmInv /\ LinesExact => ArmedExact
  BY DEF ArmInv, LinesExact, ArmedExact

\* No store of the sequence fires the timer early, and once armed it is exact (ArmQuiet).
THEOREM CLINTArmQuiet == ArmSpec => ArmQuiet
<1> DEFINE Quiet == phase' # phase /\ mtip' => mtip \/ Geq(mtime, deadline')
<1>1. ArmInv /\ ClintTypeOK /\ LinesExact /\ [ArmNext]_armVars => [Quiet]_armVars
  <2> SUFFICES ASSUME ArmInv, ClintTypeOK, LinesExact, ArmNext, phase' # phase, mtip'
               PROVE  mtip \/ Geq(mtime, deadline')
    OBVIOUS
  <2>1. mtimecmp \in Word /\ mtime \in Word /\ deadline \in Word
    BY DEF ClintTypeOK, ArmInv
  <2>2. CASE ArmLowMax
    <3>1. Geq(mtime, [hi |-> mtimecmp.hi, lo |-> Half - 1])
      BY <2>2 DEF ArmLowMax, WriteMtimecmpLo, SetLo, update_timer_irq
    <3>2. Geq(mtime, mtimecmp)
      BY <2>1, <3>1, HalfAssumption DEF Geq, Word, Halves
    <3>3. QED BY <3>2 DEF LinesExact
  <2>3. CASE ArmHigh
    <3>1. Geq(mtime, [hi |-> deadline.hi, lo |-> mtimecmp.lo]) /\ mtimecmp.lo = Half - 1
      BY <2>3 DEF ArmHigh, ArmInv, WriteMtimecmpHi, SetHi, update_timer_irq
    <3>2. Geq(mtime, deadline)
      BY <2>1, <3>1, HalfAssumption DEF Geq, Word, Halves
    <3>3. QED BY <2>3, <3>2 DEF ArmHigh
  <2>4. CASE ArmLow
    <3>1. Geq(mtime, [hi |-> mtimecmp.hi, lo |-> deadline.lo]) /\ mtimecmp.hi = deadline.hi
      BY <2>4 DEF ArmLow, ArmInv, WriteMtimecmpLo, SetLo, update_timer_irq
    <3>2. Geq(mtime, deadline)
      BY <2>1, <3>1 DEF Geq, Word, Halves
    <3>3. QED BY <2>4, <3>2 DEF ArmLow
  <2>5. CASE OtherStore \/ TickStep
    BY <2>5 DEF OtherStore, TickStep
  <2>6. QED BY <2>2, <2>3, <2>4, <2>5 DEF ArmNext
<1>2. (ArmInv /\ ClintTypeOK /\ LinesExact)' => ArmedExact'
  BY ArmedIsExact, PTL
<1>3. ArmInv /\ ClintTypeOK /\ LinesExact /\ (ArmInv /\ ClintTypeOK /\ LinesExact)'
        /\ [ArmNext]_armVars => [Quiet /\ ArmedExact']_armVars
  BY <1>1, <1>2
<1>4. QED BY <1>3, ArmInductive, PTL DEF ArmSpec, ArmQuiet
=============================================================================
