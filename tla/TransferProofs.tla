--------------------------- MODULE TransferProofs ---------------------------
(***************************************************************************)
(* The two bus masters that copy memory, for every memory map, burst size, *)
(* block size, card image and count.  What a transfer does is shown by     *)
(* induction over its bursts or blocks, as the absence of a first one at   *)
(* which it goes wrong.                                                    *)
(***************************************************************************)
EXTENDS Dma, SdCtrl, WellFoundedInduction, TLAPS

\* Induction over the prefix 0 .. N of the naturals, for a set.
LEMMA CountInduction ==
    ASSUME NEW N \in Nat, NEW S, 0 \in S, \A n \in 0 .. N - 1 : n \in S => n + 1 \in S
    PROVE  0 .. N \subseteq S
<1> DEFINE Wrong == 0 .. N \ S
<1> SUFFICES ASSUME Wrong # {} PROVE FALSE
  OBVIOUS
<1>1. Wrong \subseteq Nat
  OBVIOUS
<1>2. PICK x \in Wrong : \A y \in Wrong : ~ (<<y, x>> \in OpToRel(<, Nat))
  <2> HIDE DEF Wrong
  <2> QED BY <1>1, NatLessThanWellFounded, WFMin
<1>3. x \in Nat /\ x <= N /\ x \notin S /\ x # 0
  OBVIOUS
<1>4. x - 1 \in Nat /\ x - 1 \in 0 .. N - 1 /\ x - 1 < x /\ (x - 1) + 1 = x
  BY <1>3
<1>5. x - 1 \in Wrong
  BY <1>3, <1>4
<1>6. <<x - 1, x>> \in OpToRel(<, Nat)
  <2> HIDE DEF Wrong
  <2> QED BY <1>3, <1>4, Zenon DEF OpToRel
<1>7. QED BY <1>2, <1>5, <1>6

\* Products with the size of a burst or of a block.
LEMMA NextMultiple ==
    ASSUME NEW n \in Nat, NEW b \in Nat
    PROVE  n * b \in Nat /\ (n + 1) * b = n * b + b
  OBVIOUS

\* Multiplication by a natural number is monotone.
LEMMA MultipleMono ==
    ASSUME NEW m \in Nat, NEW n \in Nat, NEW b \in Nat, m <= n
    PROVE  m * b <= n * b
<1>1. (n - m) \in Nat /\ n = m + (n - m)
  OBVIOUS
<1>2. (n - m) * b \in Nat
  BY <1>1
<1>3. n * b = m * b + (n - m) * b
  BY <1>1
<1>4. m * b \in Int /\ n * b \in Int
  OBVIOUS
<1>5. QED BY <1>2, <1>3, <1>4

\* A multiple leaves no remainder.
LEMMA MultipleMod ==
    ASSUME NEW q \in Nat, NEW b \in Nat \ {0}
    PROVE  (q * b) % b = 0
<1> DEFINE x == q * b
           d == x \div b
           r == x % b
<1>1. x \in Nat /\ d \in Int /\ r \in 0 .. b - 1 /\ x = b * d + r
  OBVIOUS
<1>2. d \in Nat
  BY <1>1
<1>3. CASE d < q
  <2>1. (d + 1) * b <= q * b
    BY <1>2, <1>3, MultipleMono
  <2>2. (d + 1) * b = d * b + b
    BY <1>2, NextMultiple
  <2>3. QED BY <1>1, <2>1, <2>2
<1>4. CASE q < d
  <2>1. (q + 1) * b <= d * b
    BY <1>2, <1>4, MultipleMono
  <2>2. (q + 1) * b = q * b + b
    BY NextMultiple
  <2>3. QED BY <1>1, <2>1, <2>2
<1>5. CASE q = d
  BY <1>1, <1>5
<1>6. QED BY <1>2, <1>3, <1>4, <1>5
-----------------------------------------------------------------------------
(* The memory behind the bus.                                                *)

\* An access that succeeds lies in one memory, a write in the RAM, and the address
\* after it does not wrap.
LEMMA AccessIn ==
    ASSUME NEW w \in BOOLEAN, NEW a \in Addrs, NEW n \in Nat, Access(w, a, n) = "ok"
    PROVE  /\ a .. a + n - 1 \subseteq Cells
           /\ w => a .. a + n - 1 \subseteq Span(Ram)
           /\ a + n \in Nat /\ (n > 0 => a + n < Space /\ (a + n) % Space = a + n)
<1>1. /\ Space \in Nat /\ a \in Nat
      /\ Rom.lo \in Nat /\ Rom.hi \in Nat /\ Rom.lo <= Rom.hi /\ Rom.hi + 1 < Space
      /\ Ram.lo \in Nat /\ Ram.hi \in Nat /\ Ram.lo <= Ram.hi /\ Ram.hi + 1 < Space
      /\ Rom.hi < Ram.lo
  BY BusMemAssumption DEF Addrs
<1>2. CASE a \in Span(Rom)
  <2>1. a + n - 1 <= Rom.hi /\ ~w
    BY <1>1, <1>2 DEF Access
  <2>2. QED BY <1>1, <1>2, <2>1 DEF Span, Cells
<1>3. CASE a \notin Span(Rom)
  <2>1. a \in Span(Ram) /\ a + n - 1 <= Ram.hi
    BY <1>1, <1>3 DEF Access
  <2>2. QED BY <1>1, <2>1 DEF Span, Cells
<1>4. QED BY <1>2, <1>3

\* What an access may answer.
LEMMA AccessAnswers ==
    ASSUME NEW w, NEW a, NEW n
    PROVE  Access(w, a, n) \in {"ok", "error", "abort"}
  BY DEF Access

\* Put() changes the cells of its range and no other.
LEMMA PutIn ==
    ASSUME NEW m \in [Cells -> Bytes], NEW a \in Int, NEW n \in Nat,
           NEW data \in [0 .. n - 1 -> Bytes]
    PROVE  /\ Put(m, a, n, data) \in [Cells -> Bytes]
           /\ \A c \in Cells : Put(m, a, n, data)[c] =
                                 IF c \in a .. a + n - 1 THEN data[c - a] ELSE m[c]
<1>1. \A c \in Cells : c \in a .. a + n - 1 => c - a \in 0 .. n - 1
  OBVIOUS
<1>2. QED BY <1>1 DEF Put
-----------------------------------------------------------------------------
(* The DMA engine.                                                           *)

DmaStart == [src |-> src_addr, dst |-> dst_addr, left |-> byte_count, answer |-> "ok", mem |-> mem]
Turn(t) == IF t.left = 0 THEN t ELSE Burst(t)

\* The loop is defined for every number of bursts.
LEMMA BurstsUnfold ==
    ASSUME byte_count \in Nat
    PROVE  Bursts = [n \in 0 .. byte_count |-> IF n = 0 THEN DmaStart ELSE Turn(Bursts[n - 1])]
<1> DEFINE Runs(m, g) == g = [n \in 0 .. m |-> IF n = 0 THEN DmaStart ELSE Turn(g[n - 1])]
           Some == {m \in 0 .. byte_count : \E g : Runs(m, g)}
<1>1. 0 \in Some
  <2>1. Runs(0, [n \in 0 .. 0 |-> DmaStart])
    OBVIOUS
  <2>2. 0 \in 0 .. byte_count
    OBVIOUS
  <2>3. QED BY <2>1, <2>2
<1>2. ASSUME NEW m \in 0 .. byte_count - 1, m \in Some PROVE m + 1 \in Some
  <2>1. PICK g : Runs(m, g)
    BY <1>2
  <2> DEFINE h == [n \in 0 .. m + 1 |-> IF n <= m THEN g[n] ELSE Turn(g[m])]
  <2>2. \A n \in 0 .. m : g[n] = IF n = 0 THEN DmaStart ELSE Turn(g[n - 1])
    BY <2>1
  <2>3. \A n \in 0 .. m + 1 : h[n] = IF n = 0 THEN DmaStart ELSE Turn(h[n - 1])
    <3> SUFFICES ASSUME NEW n \in 0 .. m + 1
                 PROVE  h[n] = IF n = 0 THEN DmaStart ELSE Turn(h[n - 1])
      OBVIOUS
    <3>1. CASE n = 0
      BY <2>2, <3>1
    <3>2. CASE n # 0 /\ n <= m
      <4>1. h[n] = g[n] /\ h[n - 1] = g[n - 1] /\ n \in 0 .. m
        BY <3>2
      <4>2. QED BY <2>2, <3>2, <4>1
    <3>3. CASE n = m + 1
      <4>1. h[n] = Turn(g[m]) /\ h[n - 1] = g[m]
        BY <3>3
      <4>2. QED BY <3>3, <4>1
    <3>4. QED BY <3>1, <3>2, <3>3
  <2>4. Runs(m + 1, h)
    BY <2>3
  <2>5. m + 1 \in 0 .. byte_count
    OBVIOUS
  <2>6. QED BY <2>4, <2>5
<1>3. byte_count \in Some
  <2> HIDE DEF Some
  <2>1. QED BY <1>1, <1>2, CountInduction
<1>4. PICK g : Runs(byte_count, g)
  BY <1>3
<1>5. QED BY <1>4 DEF Bursts, DmaStart, Turn

\* Where a transfer stands once it has copied k bytes: nothing outside those k is
\* touched, they lie in the RAM, they are the source's when the overlap is safe, and k
\* is a number of whole bursts unless it is everything.
Progress(t, k) ==
    /\ t = [src |-> t.src, dst |-> t.dst, left |-> t.left, answer |-> t.answer, mem |-> t.mem]
    /\ t.mem \in [Cells -> Bytes]
    /\ \A a \in Cells : a \notin dst_addr .. dst_addr + k - 1 => t.mem[a] = mem[a]
    /\ \A i \in 0 .. k - 1 : dst_addr + i \in Span(Ram) /\ src_addr + i \in Cells
    /\ SafeOverlap => \A i \in 0 .. k - 1 : t.mem[dst_addr + i] = mem[src_addr + i]
    /\ k = byte_count \/ (\E q \in Nat : k = q * BurstSize)
    /\ k = byte_count \/ k = 0 \/ k >= BurstSize
    /\ t.answer \in {"ok", "error", "abort"}
    /\ t.answer = "ok" => /\ t.left = byte_count - k
                          /\ t.src = src_addr + k /\ t.dst = dst_addr + k
                          /\ t.left # 0 => t.src \in Addrs /\ t.dst \in Addrs
    /\ t.answer # "ok" => t.left = 0 /\ k < byte_count

\* A burst that is read and written moves on by its length.
LEMMA BurstCopies ==
    ASSUME TypeOK, byte_count \in Nat, NEW t, NEW k \in 0 .. byte_count, Progress(t, k),
           t.left # 0, Access(FALSE, t.src, BurstLen(t.left)) = "ok",
           Access(TRUE, t.dst, BurstLen(t.left)) = "ok"
    PROVE  /\ k + BurstLen(t.left) \in 0 .. byte_count
           /\ Progress(Burst(t), k + BurstLen(t.left))
           /\ Burst(t).left = t.left - BurstLen(t.left)
<1> DEFINE n    == BurstLen(t.left)
           k2   == k + n
           data == [i \in 0 .. n - 1 |-> t.mem[t.src + i]]
           u    == Burst(t)
<1>1. /\ t.answer = "ok" /\ t.left = byte_count - k
      /\ t.src = src_addr + k /\ t.dst = dst_addr + k /\ t.src \in Addrs /\ t.dst \in Addrs
      /\ t.mem \in [Cells -> Bytes]
  BY DEF Progress
<1>2. /\ src_addr \in Nat /\ dst_addr \in Nat /\ BurstSize \in Nat \ {0} /\ Space \in Nat
      /\ t.left \in Nat \ {0} /\ k \in Nat /\ k < byte_count
  BY <1>1, BusMemAssumption, DmaAssumption DEF TypeOK, Addrs
<1>3. /\ n \in Nat \ {0} /\ n <= t.left /\ n <= BurstSize /\ k2 \in 0 .. byte_count
      /\ n = BurstSize \/ k2 = byte_count
  BY <1>1, <1>2 DEF BurstLen
<1>4. /\ t.src .. t.src + n - 1 \subseteq Cells
      /\ t.src + n < Space /\ (t.src + n) % Space = t.src + n
  <2>1. Access(FALSE, t.src, n) = "ok"
    OBVIOUS
  <2> HIDE DEF n
  <2>2. n \in Nat /\ n > 0
    BY <1>3
  <2>3. QED BY <1>1, <2>1, <2>2, AccessIn
<1>5. /\ t.dst .. t.dst + n - 1 \subseteq Span(Ram) /\ t.dst .. t.dst + n - 1 \subseteq Cells
      /\ t.dst + n < Space /\ (t.dst + n) % Space = t.dst + n
  <2>1. Access(TRUE, t.dst, n) = "ok"
    OBVIOUS
  <2> HIDE DEF n
  <2>2. n \in Nat /\ n > 0
    BY <1>3
  <2>3. QED BY <1>1, <2>1, <2>2, AccessIn
<1>6. /\ u.src = t.src + n /\ u.dst = t.dst + n /\ u.left = t.left - n /\ u.answer = "ok"
      /\ u.mem = Put(t.mem, t.dst, n, data)
  BY <1>4, <1>5 DEF Burst
<1>shape. u = [src |-> u.src, dst |-> u.dst, left |-> u.left, answer |-> u.answer, mem |-> u.mem]
  BY <1>4, <1>5 DEF Burst
<1>7. data \in [0 .. n - 1 -> Bytes]
  <2>1. \A i \in 0 .. n - 1 : t.src + i \in t.src .. t.src + n - 1
    BY <1>1, <1>2, <1>3
  <2>2. QED BY <1>1, <1>4, <2>1
<1>8. /\ u.mem \in [Cells -> Bytes]
      /\ \A c \in Cells : u.mem[c] = IF c \in t.dst .. t.dst + n - 1 THEN data[c - t.dst] ELSE t.mem[c]
  <2> HIDE DEF data, n, u
  <2>1. t.dst \in Int
    BY <1>1, <1>2
  <2>2. QED BY <1>1, <1>3, <1>6, <1>7, <2>1, PutIn
<1>9. Cells \subseteq Nat
  BY BusMemAssumption DEF Cells, Span
<1>10. \A a \in Cells : a \notin dst_addr .. dst_addr + k2 - 1 => u.mem[a] = mem[a]
  <2> SUFFICES ASSUME NEW a \in Cells, a \notin dst_addr .. dst_addr + k2 - 1
               PROVE  u.mem[a] = mem[a]
    OBVIOUS
  <2>1. a \notin t.dst .. t.dst + n - 1 /\ a \notin dst_addr .. dst_addr + k - 1
    BY <1>1, <1>2, <1>3, <1>9
  <2>2. QED BY <1>8, <2>1 DEF Progress
<1>11. \A i \in 0 .. k2 - 1 : dst_addr + i \in Span(Ram) /\ src_addr + i \in Cells
  <2> SUFFICES ASSUME NEW i \in 0 .. k2 - 1
               PROVE  dst_addr + i \in Span(Ram) /\ src_addr + i \in Cells
    OBVIOUS
  <2>1. CASE i < k
    BY <1>2, <2>1 DEF Progress
  <2>2. CASE i >= k
    <3>1. dst_addr + i \in t.dst .. t.dst + n - 1 /\ src_addr + i \in t.src .. t.src + n - 1
      BY <1>1, <1>2, <1>3, <2>2
    <3>2. QED BY <1>4, <1>5, <3>1
  <2>3. QED BY <1>2, <2>1, <2>2
<1>12. ASSUME SafeOverlap, NEW i \in 0 .. k2 - 1 PROVE u.mem[dst_addr + i] = mem[src_addr + i]
  <2>1. dst_addr + i \in Cells /\ src_addr + i \in Cells /\ i \in Nat
    BY <1>2, <1>3, <1>11 DEF Cells
  <2>2. CASE i < k
    <3>1. dst_addr + i \notin t.dst .. t.dst + n - 1
      BY <1>1, <1>2, <1>3, <2>2
    <3>2. i \in 0 .. k - 1
      BY <1>2, <2>2
    <3>3. QED BY <1>8, <1>12, <2>1, <3>1, <3>2 DEF Progress
  <2>3. CASE i >= k
    <3>1. /\ dst_addr + i \in t.dst .. t.dst + n - 1 /\ (dst_addr + i) - t.dst = i - k
          /\ i - k \in 0 .. n - 1 /\ t.src + (i - k) = src_addr + i
      BY <1>1, <1>2, <1>3, <2>1, <2>3
    <3>2. u.mem[dst_addr + i] = t.mem[src_addr + i]
      BY <1>8, <2>1, <3>1
    <3>3. src_addr + i \notin dst_addr .. dst_addr + k - 1
      <4>1. CASE k = 0
        BY <1>2, <4>1
      <4>2. CASE k # 0
        <5>1. k >= BurstSize
          BY <1>2, <4>2 DEF Progress
        <5>2. CASE dst_addr <= src_addr
          BY <1>2, <2>1, <2>3, <5>2
        <5>3. CASE Sources \cap Targets = {}
          <6>1. src_addr + i \in Sources
            BY <1>2, <1>3 DEF Sources
          <6>2. \A x \in dst_addr .. dst_addr + k - 1 : x \in Targets
            <7> SUFFICES ASSUME NEW x \in dst_addr .. dst_addr + k - 1 PROVE x \in Targets
              OBVIOUS
            <7>1. x - dst_addr \in 0 .. byte_count - 1 /\ x = dst_addr + (x - dst_addr)
              BY <1>2
            <7>2. QED BY <7>1 DEF Targets
          <6>3. QED BY <5>3, <6>1, <6>2
        <5>4. CASE byte_count <= BurstSize
          BY <1>2, <5>1, <5>4
        <5>5. QED BY <1>12, <5>2, <5>3, <5>4 DEF SafeOverlap
      <4>3. QED BY <4>1, <4>2
    <3>4. QED BY <2>1, <3>2, <3>3 DEF Progress
  <2>4. QED BY <1>2, <2>1, <2>2, <2>3
<1>13. k2 = byte_count \/ (\E q \in Nat : k2 = q * BurstSize)
  <2>1. CASE n = BurstSize
    <3>1. PICK q \in Nat : k = q * BurstSize
      BY <1>2 DEF Progress
    <3>2. k2 = (q + 1) * BurstSize /\ q + 1 \in Nat
      BY <1>2, <2>1, <3>1, NextMultiple
    <3>3. QED BY <3>2
  <2>2. QED BY <1>3, <2>1
<1>14. k2 = byte_count \/ k2 = 0 \/ k2 >= BurstSize
  BY <1>2, <1>3
<1>15. /\ u.left = byte_count - k2 /\ u.src = src_addr + k2 /\ u.dst = dst_addr + k2
       /\ u.src \in Addrs /\ u.dst \in Addrs
  <2> HIDE DEF n, u
  <2>1. u.left = byte_count - k2 /\ u.src = src_addr + k2 /\ u.dst = dst_addr + k2
    BY <1>1, <1>2, <1>3, <1>6
  <2>2. u.src \in 0 .. Space - 1 /\ u.dst \in 0 .. Space - 1
    BY <1>1, <1>2, <1>3, <1>4, <1>5, <1>6
  <2>3. QED BY <2>1, <2>2 DEF Addrs
<1>16. Progress(u, k2)
  <2> HIDE DEF u, k2, n, data
  <2>1. QED BY <1>6, <1>shape, <1>8, <1>10, <1>11, <1>12, <1>13, <1>14, <1>15 DEF Progress
<1>17. QED BY <1>3, <1>6, <1>16

\* A burst of a transfer that goes on makes progress and leaves less to do.
LEMMA BurstProgress ==
    ASSUME TypeOK, byte_count \in Nat, NEW t, NEW k \in 0 .. byte_count, Progress(t, k), t.left # 0
    PROVE  /\ \E k2 \in 0 .. byte_count : Progress(Burst(t), k2)
           /\ Burst(t).left \in Nat /\ Burst(t).left < t.left
<1> DEFINE n == BurstLen(t.left)
           r == Access(FALSE, t.src, n)
           w == Access(TRUE, t.dst, n)
<1>1. /\ t.answer = "ok" /\ t.left = byte_count - k
      /\ t = [src |-> t.src, dst |-> t.dst, left |-> t.left, answer |-> t.answer, mem |-> t.mem]
  BY DEF Progress
<1>2. /\ t.left \in Nat /\ t.left > 0 /\ k < byte_count /\ n \in Nat /\ n > 0 /\ n <= t.left
  BY <1>1, DmaAssumption DEF BurstLen
<1>3. ASSUME NEW x \in {"error", "abort"}, Burst(t) = [t EXCEPT !.left = 0, !.answer = x]
      PROVE  Progress(Burst(t), k) /\ Burst(t).left = 0
  <2>1. /\ Burst(t) = [src |-> t.src, dst |-> t.dst, left |-> 0, answer |-> x, mem |-> t.mem]
    BY <1>1, <1>3
  <2>2. QED BY <1>2, <2>1 DEF Progress
<1>4. CASE r # "ok"
  <2>1. r \in {"error", "abort"} /\ Burst(t) = [t EXCEPT !.left = 0, !.answer = r]
    BY <1>4, AccessAnswers DEF Burst
  <2> HIDE DEF r
  <2>2. Progress(Burst(t), k) /\ Burst(t).left = 0
    BY <1>3, <2>1
  <2>3. QED BY <1>2, <2>2
<1>5. CASE r = "ok" /\ w # "ok"
  <2>1. w \in {"error", "abort"} /\ Burst(t) = [t EXCEPT !.left = 0, !.answer = w]
    BY <1>5, AccessAnswers DEF Burst
  <2> HIDE DEF w
  <2>2. Progress(Burst(t), k) /\ Burst(t).left = 0
    BY <1>3, <2>1
  <2>3. QED BY <1>2, <2>2
<1>6. CASE r = "ok" /\ w = "ok"
  <2>1. /\ k + n \in 0 .. byte_count /\ Progress(Burst(t), k + n)
        /\ Burst(t).left = t.left - n
    BY <1>6, BurstCopies
  <2> HIDE DEF n
  <2>2. QED BY <1>2, <2>1
<1>7. QED BY <1>4, <1>5, <1>6

\* The whole transfer: it is over after at most byte_count bursts.
LEMMA TransferResult ==
    ASSUME TypeOK
    PROVE  /\ byte_count \in Nat
           /\ \E k \in 0 .. byte_count : Progress(Transfer, k)
           /\ Transfer.left = 0
<1>1. byte_count \in Nat
  BY DmaAssumption, BusMemAssumption DEF TypeOK
<1> DEFINE Ok(n) == /\ \E k \in 0 .. byte_count : Progress(Bursts[n], k)
                    /\ Bursts[n].left \in Nat /\ Bursts[n].left <= byte_count - n
           S == {n \in 0 .. byte_count : Ok(n)}
<1>2. 0 \in S
  <2>1. Bursts[0] = DmaStart /\ 0 \in 0 .. byte_count
    BY <1>1, BurstsUnfold
  <2>2. Progress(DmaStart, 0)
    <3>1. \A i \in 0 .. 0 - 1 : FALSE
      OBVIOUS
    <3>2. 0 = 0 * BurstSize /\ 0 \in Nat
      BY DmaAssumption
    <3>3. /\ src_addr + 0 = src_addr /\ dst_addr + 0 = dst_addr /\ byte_count - 0 = byte_count
      BY <1>1, BusMemAssumption DEF TypeOK, Addrs
    <3>4. QED BY <3>1, <3>2, <3>3 DEF Progress, DmaStart, TypeOK
  <2>3. DmaStart.left = byte_count
    BY DEF DmaStart
  <2>4. QED BY <1>1, <2>1, <2>2, <2>3
<1>3. ASSUME NEW n \in 0 .. byte_count - 1, n \in S PROVE n + 1 \in S
  <2>1. n + 1 \in 0 .. byte_count /\ n + 1 # 0 /\ (n + 1) - 1 = n
    BY <1>1
  <2>2. Bursts[n + 1] = Turn(Bursts[n])
    BY <1>1, <2>1, BurstsUnfold
  <2>3. CASE Bursts[n].left = 0
    BY <1>1, <1>3, <2>1, <2>2, <2>3 DEF Turn
  <2>4. CASE Bursts[n].left # 0
    <3>1. PICK k \in 0 .. byte_count : Progress(Bursts[n], k)
      BY <1>3
    <3>2. /\ \E k2 \in 0 .. byte_count : Progress(Burst(Bursts[n]), k2)
          /\ Burst(Bursts[n]).left \in Nat /\ Burst(Bursts[n]).left < Bursts[n].left
      BY <1>1, <2>4, <3>1, BurstProgress
    <3>3. Bursts[n + 1] = Burst(Bursts[n])
      BY <2>2, <2>4 DEF Turn
    <3>4. Bursts[n].left \in Nat /\ Bursts[n].left <= byte_count - n
      BY <1>3
    <3>5. Bursts[n + 1].left \in Nat /\ Bursts[n + 1].left <= byte_count - (n + 1)
      BY <1>1, <3>2, <3>3, <3>4
    <3>6. QED BY <2>1, <3>2, <3>3, <3>5
  <2>5. QED BY <2>3, <2>4
<1>4. byte_count \in S
  <2> HIDE DEF S
  <2>1. 0 .. byte_count \subseteq S
    BY <1>1, <1>2, <1>3, CountInduction
  <2>2. QED BY <1>1, <2>1
<1>5. QED BY <1>1, <1>4 DEF Transfer

\* The step of dma_thread, in the terms of its transfer.
LEMMA ThreadStep ==
    ASSUME dma_thread
    PROVE  /\ mem' = Transfer.mem /\ UNCHANGED regVars /\ start_event' = FALSE
           /\ \/ Transfer.answer = "abort" /\ ~alive' /\ UNCHANGED <<status, irq>>
              \/ /\ Transfer.answer # "abort" /\ status' = Report(Transfer.answer)
                 /\ irq' = (irq \/ irq_enable) /\ UNCHANGED alive
  BY DEF dma_thread

\* The registers and the memory keep their types (TypeOK), whatever a transfer copies.
THEOREM DmaTypeCorrect == Spec => []TypeOK
<1>1. Init => TypeOK
  <2>1. 0 \in Addrs
    BY BusMemAssumption DEF Addrs
  <2>2. QED BY <2>1 DEF Init, TypeOK
<1>2. TypeOK /\ [Next]_dmaVars => TypeOK'
  <2> SUFFICES ASSUME TypeOK, [Next]_dmaVars PROVE TypeOK'
    OBVIOUS
  <2>1. CASE dma_thread
    <3>1. Transfer.mem \in [Cells -> Bytes]
      BY TransferResult DEF Progress
    <3>2. /\ mem' = Transfer.mem /\ UNCHANGED regVars /\ start_event' = FALSE
          /\ status' \in {IDLE, DONE, DONE_ERROR} /\ irq' \in BOOLEAN /\ alive' \in BOOLEAN
      <4>1. CASE Transfer.answer = "abort"
        BY <2>1, <4>1 DEF dma_thread, TypeOK
      <4>2. CASE Transfer.answer # "abort"
        BY <2>1, <4>2 DEF dma_thread, TypeOK, Report
      <4>3. QED BY <4>1, <4>2
    <3>3. QED BY <3>1, <3>2 DEF TypeOK, regVars
  <2>2. CASE UNCHANGED dmaVars
    BY <2>2 DEF TypeOK, dmaVars, regVars
  <2>3. CASE Next /\ ~dma_thread
    BY <2>3 DEF Next, TypeOK, WriteSrc, WriteDst, WriteCount, WriteCtrl, WriteStatus, regVars
  <2>4. QED BY <2>1, <2>2, <2>3
<1>3. QED BY <1>1, <1>2, PTL DEF Spec

\* The line is up only while there is a report to acknowledge (IrqHasReport).
THEOREM DmaIrqHasReport == Spec => []IrqHasReport
<1>1. Init => IrqHasReport
  BY DEF Init, IrqHasReport
<1>2. IrqHasReport /\ [Next]_dmaVars => IrqHasReport'
  <2> SUFFICES ASSUME IrqHasReport, [Next]_dmaVars PROVE IrqHasReport'
    OBVIOUS
  <2>1. CASE dma_thread
    <3>1. CASE Transfer.answer = "abort"
      BY <2>1, <3>1 DEF dma_thread, IrqHasReport
    <3>2. CASE Transfer.answer # "abort"
      <4>1. status' = Report(Transfer.answer)
        BY <2>1, <3>2 DEF dma_thread
      <4>2. QED BY <4>1 DEF IrqHasReport, Report, IDLE, DONE, DONE_ERROR
    <3>3. QED BY <3>1, <3>2
  <2>2. CASE UNCHANGED dmaVars
    BY <2>2 DEF IrqHasReport, dmaVars
  <2>3. CASE Next /\ ~dma_thread
    BY <2>3 DEF Next, IrqHasReport, WriteSrc, WriteDst, WriteCount, WriteCtrl, WriteStatus
  <2>4. QED BY <2>1, <2>2, <2>3
<1>3. QED BY <1>1, <1>2, PTL DEF Spec

\* Only dma_thread consumes a start.
LEMMA ServedByThread ==
    ASSUME TypeOK, Next, Served
    PROVE  alive /\ dma_thread
  BY DEF Next, Served, WriteSrc, WriteDst, WriteCount, WriteCtrl, WriteStatus, TypeOK

\* A transfer reported as DONE moved exactly the requested bytes (DoneMeansCopied), for
\* every count, burst size and pair of ranges that copying in bursts survives.
THEOREM DmaDoneMeansCopied == Spec => DoneMeansCopied
<1> DEFINE A == Served /\ alive' /\ status' = DONE /\ SafeOverlap =>
                  \A i \in 0 .. byte_count - 1 : mem'[dst_addr + i] = mem[src_addr + i]
<1>1. TypeOK /\ [Next]_dmaVars => [A]_dmaVars
  <2> SUFFICES ASSUME TypeOK, Next, Served, alive', status' = DONE, SafeOverlap
               PROVE  \A i \in 0 .. byte_count - 1 : mem'[dst_addr + i] = mem[src_addr + i]
    BY DEF dmaVars
  <2>1. dma_thread
    BY ServedByThread
  <2>2. Transfer.answer # "abort" /\ status' = Report(Transfer.answer) /\ mem' = Transfer.mem
    BY <2>1, ThreadStep
  <2>3. Transfer.answer = "ok"
    BY <2>2 DEF Report, DONE, DONE_ERROR
  <2>4. PICK k \in 0 .. byte_count : Progress(Transfer, k)
    BY TransferResult
  <2>5. k = byte_count
    BY <2>3, <2>4, TransferResult DEF Progress
  <2>6. QED BY <2>2, <2>4, <2>5 DEF Progress
<1>2. QED BY <1>1, DmaTypeCorrect, PTL DEF Spec, DoneMeansCopied

\* A transfer touches nothing but its targets in the RAM, and one that fails leaves whole
\* bursts behind (OnlyTargets).
THEOREM DmaOnlyTargets == Spec => OnlyTargets
<1> DEFINE A == Served =>
        /\ \A a \in Cells \ (Targets \cap Span(Ram)) : mem'[a] = mem[a]
        /\ alive' /\ status' = DONE_ERROR =>
             \E k \in 0 .. byte_count : k % BurstSize = 0 /\ k < byte_count /\
                \A i \in k .. byte_count - 1 :
                    dst_addr + i \in Cells => mem'[dst_addr + i] = mem[dst_addr + i]
<1>1. TypeOK /\ [Next]_dmaVars => [A]_dmaVars
  <2> SUFFICES ASSUME TypeOK, Next, Served PROVE A
    BY DEF dmaVars
  <2>1. dma_thread
    BY ServedByThread
  <2>2. mem' = Transfer.mem
    BY <2>1, ThreadStep
  <2>3. byte_count \in Nat /\ dst_addr \in Nat /\ Cells \subseteq Nat
    BY TransferResult, BusMemAssumption DEF TypeOK, Addrs, Cells, Span
  <2>4. PICK k \in 0 .. byte_count : Progress(Transfer, k)
    BY TransferResult
  <2>5. ASSUME NEW a \in Cells, a \notin Targets \cap Span(Ram) PROVE mem'[a] = mem[a]
    <3>1. ASSUME a \in dst_addr .. dst_addr + k - 1 PROVE FALSE
      <4>1. /\ a - dst_addr \in 0 .. k - 1 /\ a - dst_addr \in 0 .. byte_count - 1
            /\ a = dst_addr + (a - dst_addr)
        BY <2>3, <3>1
      <4>2. a \in Targets
        BY <4>1 DEF Targets
      <4>3. a \in Span(Ram)
        BY <2>4, <4>1 DEF Progress
      <4>4. QED BY <2>5, <4>2, <4>3
    <3>2. QED BY <2>2, <2>4, <2>5, <3>1 DEF Progress
  <2>6. ASSUME alive', status' = DONE_ERROR
        PROVE  \E x \in 0 .. byte_count : x % BurstSize = 0 /\ x < byte_count /\
                 \A i \in x .. byte_count - 1 :
                    dst_addr + i \in Cells => mem'[dst_addr + i] = mem[dst_addr + i]
    <3>1. Transfer.answer # "ok"
      BY <2>1, <2>6, ThreadStep DEF Report, DONE, DONE_ERROR
    <3>2. k < byte_count
      BY <2>4, <3>1 DEF Progress
    <3>3. PICK q \in Nat : k = q * BurstSize
      BY <2>4, <3>2 DEF Progress
    <3>4. k % BurstSize = 0
      BY <3>3, MultipleMod, DmaAssumption
    <3>5. ASSUME NEW i \in k .. byte_count - 1, dst_addr + i \in Cells
          PROVE  mem'[dst_addr + i] = mem[dst_addr + i]
      <4>1. dst_addr + i \notin dst_addr .. dst_addr + k - 1
        BY <2>3
      <4>2. QED BY <2>2, <2>4, <3>5, <4>1 DEF Progress
    <3>6. QED BY <3>2, <3>4, <3>5
  <2>7. QED BY <2>5, <2>6
<1>2. QED BY <1>1, DmaTypeCorrect, PTL DEF Spec, OnlyTargets
-----------------------------------------------------------------------------
(* The SD controller.                                                        *)

SdFirst == [dest |-> data_addr, answer |-> "ok", good |-> card_good, mem |-> mem]
SdTurn(t, i) == IF t.answer # "ok" THEN t ELSE OneBlock(t, i)

\* The loop is defined for every number of blocks.
LEMMA BlocksUnfold ==
    ASSUME BlockCount \in Nat
    PROVE  SdBlocks = [n \in 0 .. BlockCount |->
                          IF n = 0 THEN SdFirst ELSE SdTurn(SdBlocks[n - 1], n - 1)]
<1> DEFINE Runs(m, g) == g = [n \in 0 .. m |-> IF n = 0 THEN SdFirst ELSE SdTurn(g[n - 1], n - 1)]
           Some == {m \in 0 .. BlockCount : \E g : Runs(m, g)}
<1>1. 0 \in Some
  <2>1. Runs(0, [n \in 0 .. 0 |-> SdFirst])
    OBVIOUS
  <2>2. 0 \in 0 .. BlockCount
    OBVIOUS
  <2>3. QED BY <2>1, <2>2
<1>2. ASSUME NEW m \in 0 .. BlockCount - 1, m \in Some PROVE m + 1 \in Some
  <2>1. PICK g : Runs(m, g)
    BY <1>2
  <2> DEFINE h == [n \in 0 .. m + 1 |-> IF n <= m THEN g[n] ELSE SdTurn(g[m], m)]
  <2>2. \A n \in 0 .. m : g[n] = IF n = 0 THEN SdFirst ELSE SdTurn(g[n - 1], n - 1)
    BY <2>1
  <2>3. \A n \in 0 .. m + 1 : h[n] = IF n = 0 THEN SdFirst ELSE SdTurn(h[n - 1], n - 1)
    <3> SUFFICES ASSUME NEW n \in 0 .. m + 1
                 PROVE  h[n] = IF n = 0 THEN SdFirst ELSE SdTurn(h[n - 1], n - 1)
      OBVIOUS
    <3>1. CASE n = 0
      BY <2>2, <3>1
    <3>2. CASE n # 0 /\ n <= m
      <4>1. h[n] = g[n] /\ h[n - 1] = g[n - 1] /\ n \in 0 .. m
        BY <3>2
      <4>2. QED BY <2>2, <3>2, <4>1
    <3>3. CASE n = m + 1
      <4>1. h[n] = SdTurn(g[m], m) /\ h[n - 1] = g[m] /\ n - 1 = m
        BY <3>3
      <4>2. QED BY <3>3, <4>1
    <3>4. QED BY <3>1, <3>2, <3>3
  <2>4. Runs(m + 1, h)
    BY <2>3
  <2>5. m + 1 \in 0 .. BlockCount
    OBVIOUS
  <2>6. QED BY <2>4, <2>5
<1>3. BlockCount \in Some
  <2> HIDE DEF Some
  <2>1. QED BY <1>1, <1>2, CountInduction
<1>4. PICK g : Runs(BlockCount, g)
  BY <1>3
<1>5. QED BY <1>4 DEF SdBlocks, SdFirst, SdTurn

\* A request that can be served: it is valid and the stream is good.
Servable == card_good /\ ValidRequest

\* Where byte j of block i goes.
Place(i, j) == data_addr + i * BlockSize + j

\* The first n blocks are in their places.
InPlace(m, n) ==
    \A i \in 0 .. n - 1, j \in 0 .. BlockSize - 1 :
        Place(i, j) \in Cells /\ arg + i \in DOMAIN Image /\ m[Place(i, j)] = Image[arg + i][j]

\* Nothing but RAM in the range of the first n blocks has changed.
Untouched(m, n) ==
    \A a \in Cells : m[a] # mem[a] =>
        a \in Span(Ram) /\ a \in data_addr .. data_addr + n * BlockSize - 1

\* Where a transfer stands after n turns of the loop.
Placed(t, n) ==
    /\ t = [dest |-> t.dest, answer |-> t.answer, good |-> t.good, mem |-> t.mem]
    /\ t.mem \in [Cells -> Bytes] /\ t.answer \in {"ok", "error", "abort"}
    /\ t.good \in BOOLEAN
    /\ Untouched(t.mem, n)
    /\ t.answer = "ok" => t.dest = data_addr + n * BlockSize /\ t.dest \in Addrs /\ InPlace(t.mem, n)
    /\ Servable => t.answer = "ok" /\ t.good
    /\ card_good /\ ~PastEnd => t.good

\* The types of what a block transfer computes with.
LEMMA SdFacts ==
    ASSUME SdTypeOK
    PROVE  /\ BlockCount \in Nat /\ arg \in Nat /\ data_addr \in Nat /\ data_addr \in Addrs
           /\ BlockSize \in Nat \ {0} /\ Cells \subseteq Nat /\ Space \in Nat
           /\ Ram.lo \in Nat /\ Ram.hi \in Nat /\ Rom.hi \in Nat /\ Rom.hi < Ram.lo
<1>1. Space \in Nat /\ Rom.lo \in Nat /\ Rom.hi \in Nat /\ Ram.lo \in Nat /\ Ram.hi \in Nat
      /\ Rom.hi < Ram.lo
  BY BusMemAssumption
<1>2. Cells \subseteq Nat /\ Addrs \subseteq Nat
  BY <1>1 DEF Cells, Span, Addrs
<1>3. BlockSize \in Nat \ {0} /\ Blocks \subseteq Nat
  BY SdAssumption
<1>4. arg \in Nat /\ burst_len \in Nat /\ data_addr \in Addrs
  BY <1>3 DEF SdTypeOK
<1>5. BlockCount \in Nat
  BY <1>4 DEF BlockCount
<1> QED
  BY <1>1, <1>2, <1>3, <1>4, <1>5

\* What a turn does when the card refuses, and when it does not.
LEMMA OneBlockCases ==
    ASSUME NEW n, NEW t, Placed(t, n)
    PROVE  /\ ~Readable(arg + n, t.good) => OneBlock(t, n) =
                [dest |-> t.dest, answer |-> "error", good |-> (t.good /\ ~HasCard), mem |-> t.mem]
           /\ Readable(arg + n, t.good) => OneBlock(t, n) =
                [dest |-> (t.dest + BlockSize) % Space,
                 answer |-> Access(TRUE, t.dest, BlockSize), good |-> t.good,
                 mem |-> IF Access(TRUE, t.dest, BlockSize) = "ok"
                         THEN Put(t.mem, t.dest, BlockSize, Image[arg + n]) ELSE t.mem]
<1>1. t = [dest |-> t.dest, answer |-> t.answer, good |-> t.good, mem |-> t.mem]
  BY DEF Placed
<1>2. CASE ~Readable(arg + n, t.good)
  <2>1. OneBlock(t, n) = [t EXCEPT !.answer = "error", !.good = @ /\ ~HasCard]
    BY <1>2 DEF OneBlock
  <2>2. QED BY <1>1, <1>2, <2>1
<1>3. CASE Readable(arg + n, t.good)
  <2> DEFINE w == Access(TRUE, t.dest, BlockSize)
             p == Put(t.mem, t.dest, BlockSize, Image[arg + n])
  <2>1. OneBlock(t, n) = [t EXCEPT !.answer = w, !.dest = (@ + BlockSize) % Space,
                                   !.mem = IF w = "ok" THEN Put(@, t.dest, BlockSize, Image[arg + n]) ELSE @]
    BY <1>3 DEF OneBlock
  <2>2. QED BY <1>1, <1>3, <2>1
<1>4. QED BY <1>2, <1>3

\* The block is moved to its place.
LEMMA BlockMoved ==
    ASSUME SdTypeOK, NEW n \in 0 .. BlockCount - 1, NEW t, Placed(t, n), t.answer = "ok",
           Readable(arg + n, t.good), Access(TRUE, t.dest, BlockSize) = "ok"
    PROVE  Placed(OneBlock(t, n), n + 1)
<1> DEFINE u == OneBlock(t, n)
           B == BlockSize
<1>1. /\ BlockCount \in Nat /\ arg \in Nat /\ data_addr \in Nat /\ B \in Nat \ {0}
      /\ Cells \subseteq Nat /\ Space \in Nat /\ n \in Nat
  BY SdFacts
<1>2. /\ t.dest = data_addr + n * B /\ t.dest \in Addrs /\ InPlace(t.mem, n)
      /\ t.mem \in [Cells -> Bytes] /\ Untouched(t.mem, n)
  BY DEF Placed
<1>3. /\ u = [dest |-> (t.dest + B) % Space, answer |-> "ok", good |-> t.good,
              mem |-> Put(t.mem, t.dest, B, Image[arg + n])]
  BY OneBlockCases
<1>4. /\ t.dest .. t.dest + B - 1 \subseteq Span(Ram) /\ t.dest .. t.dest + B - 1 \subseteq Cells
      /\ t.dest + B < Space /\ (t.dest + B) % Space = t.dest + B
  <2>1. Access(TRUE, t.dest, B) = "ok"
    OBVIOUS
  <2> HIDE DEF B
  <2>2. B \in Nat /\ B > 0
    BY <1>1
  <2>3. QED BY <1>2, <2>1, <2>2, AccessIn
<1>5. arg + n \in DOMAIN Image /\ Image[arg + n] \in [0 .. B - 1 -> Bytes]
  BY SdAssumption DEF Readable
<1>6. n * B \in Nat /\ (n + 1) * B = n * B + B
  BY <1>1, NextMultiple
<1>7. /\ u.mem \in [Cells -> Bytes]
      /\ \A c \in Cells : u.mem[c] = IF c \in t.dest .. t.dest + B - 1
                                     THEN Image[arg + n][c - t.dest] ELSE t.mem[c]
  <2>1. t.dest \in Int /\ B \in Nat
    BY <1>1, <1>2, <1>6
  <2>2. u.mem = Put(t.mem, t.dest, B, Image[arg + n])
    BY <1>3
  <2> HIDE DEF u, B
  <2>3. QED BY <1>2, <1>5, <2>1, <2>2, PutIn
<1>8. u.dest = data_addr + (n + 1) * B /\ u.dest \in Addrs
  <2>1. u.dest = t.dest + B
    BY <1>3, <1>4
  <2> HIDE DEF u, B
  <2>2. QED BY <1>1, <1>2, <1>4, <1>6, <2>1 DEF Addrs
<1>9. Untouched(u.mem, n + 1)
  <2> SUFFICES ASSUME NEW a \in Cells, u.mem[a] # mem[a]
               PROVE  a \in Span(Ram) /\ a \in data_addr .. data_addr + (n + 1) * B - 1
    BY DEF Untouched
  <2> HIDE DEF u, B
  <2>1. CASE a \in t.dest .. t.dest + B - 1
    BY <1>1, <1>2, <1>4, <1>6, <2>1
  <2>2. CASE a \notin t.dest .. t.dest + B - 1
    <3>1. a \in Span(Ram) /\ a \in data_addr .. data_addr + n * B - 1
      BY <1>2, <1>7, <2>2 DEF Untouched, B
    <3>2. QED BY <1>1, <1>6, <3>1
  <2>3. QED BY <2>1, <2>2
<1>10. InPlace(u.mem, n + 1)
  <2> SUFFICES ASSUME NEW i \in 0 .. (n + 1) - 1, NEW j \in 0 .. B - 1
               PROVE  /\ Place(i, j) \in Cells /\ arg + i \in DOMAIN Image
                      /\ u.mem[Place(i, j)] = Image[arg + i][j]
    BY DEF InPlace
  <2>1. i \in Nat /\ j \in Nat /\ i * B \in Nat /\ Place(i, j) = data_addr + i * B + j
    BY <1>1 DEF Place
  <2>2. CASE i = n
    <3>1. Place(i, j) \in t.dest .. t.dest + B - 1 /\ Place(i, j) - t.dest = j
      BY <1>1, <1>2, <1>6, <2>1, <2>2
    <3>2. QED BY <1>4, <1>5, <1>7, <2>2, <3>1
  <2>3. CASE i # n
    <3>1. i \in 0 .. n - 1
      BY <1>1, <2>3
    <3>2. /\ Place(i, j) \in Cells /\ arg + i \in DOMAIN Image
          /\ t.mem[Place(i, j)] = Image[arg + i][j]
      BY <1>2, <3>1 DEF InPlace
    <3>3. (i + 1) * B = i * B + B /\ (i + 1) * B <= n * B
      BY <1>1, <2>1, <3>1, NextMultiple, MultipleMono
    <3>4. Place(i, j) \notin t.dest .. t.dest + B - 1
      BY <1>1, <1>2, <1>6, <2>1, <3>3
    <3>5. QED BY <1>7, <3>2, <3>4
  <2>4. QED BY <2>2, <2>3
<1>11. u.answer = "ok" /\ u.good = t.good
       /\ u = [dest |-> u.dest, answer |-> u.answer, good |-> u.good, mem |-> u.mem]
  BY <1>3
<1>12. u.good \in BOOLEAN /\ (Servable => u.good) /\ (card_good /\ ~PastEnd => u.good)
  BY <1>11 DEF Placed
<1>13. Placed(u, n + 1)
  <2> HIDE DEF u
  <2>1. QED BY <1>7, <1>8, <1>9, <1>10, <1>11, <1>12 DEF Placed
<1>14. QED BY <1>13

\* A servable request is refused neither by the card nor by the bus.
LEMMA BlockServed ==
    ASSUME SdTypeOK, NEW n \in 0 .. BlockCount - 1, NEW t, Placed(t, n), t.answer = "ok", Servable
    PROVE  Readable(arg + n, t.good) /\ Access(TRUE, t.dest, BlockSize) = "ok"
<1>1. /\ BlockCount \in Nat /\ arg \in Nat /\ data_addr \in Nat /\ BlockSize \in Nat \ {0}
      /\ Ram.lo \in Nat /\ Ram.hi \in Nat /\ Rom.hi \in Nat /\ Rom.hi < Ram.lo /\ n \in Nat
  BY SdFacts
<1>2. Readable(arg + n, t.good)
  BY DEF Readable, Servable, ValidRequest, PastEnd, Placed
<1>3. /\ (n + 1) * BlockSize = n * BlockSize + BlockSize /\ n * BlockSize \in Nat
      /\ (n + 1) * BlockSize <= BlockCount * BlockSize /\ BlockCount * BlockSize \in Nat
  <2>1. n + 1 <= BlockCount /\ n + 1 \in Nat /\ BlockSize \in Nat
    BY <1>1
  <2>2. QED BY <1>1, <2>1, NextMultiple, MultipleMono
<1>4. t.dest = data_addr + n * BlockSize
  BY DEF Placed
<1>5. t.dest >= Ram.lo /\ t.dest + BlockSize - 1 <= Ram.hi
  BY <1>1, <1>3, <1>4 DEF Servable, ValidRequest
<1>6. t.dest \in Nat
  BY <1>1, <1>3, <1>4
<1>7. t.dest \in Span(Ram) /\ t.dest \notin Span(Rom)
  BY <1>1, <1>5, <1>6 DEF Span
<1>8. Access(TRUE, t.dest, BlockSize) = "ok"
  BY <1>1, <1>5, <1>6, <1>7 DEF Access
<1>9. QED BY <1>2, <1>8

\* A turn that fails leaves the memory as it is.
LEMMA BlockRefused ==
    ASSUME SdTypeOK, NEW n \in 0 .. BlockCount - 1, NEW t, Placed(t, n), t.answer = "ok",
           ~(Readable(arg + n, t.good) /\ Access(TRUE, t.dest, BlockSize) = "ok")
    PROVE  Placed(OneBlock(t, n), n + 1)
<1> DEFINE u == OneBlock(t, n)
<1>1. ~Servable
  BY BlockServed
<1>2. Untouched(t.mem, n + 1)
  <2>1. /\ data_addr \in Nat /\ BlockSize \in Nat /\ n \in Nat
        /\ n * BlockSize \in Nat /\ (n + 1) * BlockSize = n * BlockSize + BlockSize
    BY SdFacts, NextMultiple
  <2>2. Untouched(t.mem, n)
    BY DEF Placed
  <2>3. data_addr .. data_addr + n * BlockSize - 1
          \subseteq data_addr .. data_addr + (n + 1) * BlockSize - 1
    BY <2>1
  <2>4. QED BY <2>2, <2>3 DEF Untouched
<1>3. /\ t.mem \in [Cells -> Bytes] /\ t.good \in BOOLEAN
      /\ card_good /\ ~PastEnd => t.good
  BY DEF Placed
<1>4. CASE ~Readable(arg + n, t.good)
  <2>1. u = [dest |-> t.dest, answer |-> "error", good |-> (t.good /\ ~HasCard), mem |-> t.mem]
    BY <1>4, OneBlockCases
  <2>2. u.mem = t.mem /\ u.answer = "error" /\ u.good \in BOOLEAN
        /\ u = [dest |-> u.dest, answer |-> u.answer, good |-> u.good, mem |-> u.mem]
    BY <2>1
  <2>3. card_good /\ ~PastEnd => u.good
    <3>1. card_good /\ ~PastEnd => t.good /\ arg + n \in DOMAIN Image
      BY <1>3 DEF PastEnd
    <3>2. u.good = (t.good /\ ~HasCard)
      BY <2>1
    <3>3. QED BY <1>4, <3>1, <3>2 DEF Readable
  <2>4. Placed(u, n + 1)
    <3> HIDE DEF u
    <3> QED BY <1>1, <1>2, <1>3, <2>2, <2>3 DEF Placed
  <2>5. QED BY <2>4
<1>5. CASE Readable(arg + n, t.good)
  <2> DEFINE w == Access(TRUE, t.dest, BlockSize)
  <2>1. w \in {"error", "abort"}
    BY <1>5, AccessAnswers
  <2>2. u = [dest |-> (t.dest + BlockSize) % Space, answer |-> w, good |-> t.good, mem |-> t.mem]
    BY <1>5, <2>1, OneBlockCases
  <2>3. u.mem = t.mem /\ u.answer \in {"error", "abort"} /\ u.good = t.good
        /\ u = [dest |-> u.dest, answer |-> u.answer, good |-> u.good, mem |-> u.mem]
    <3> HIDE DEF w, u
    <3> QED BY <2>1, <2>2
  <2>4. Placed(u, n + 1)
    <3> HIDE DEF u
    <3> QED BY <1>1, <1>2, <1>3, <2>3 DEF Placed
  <2>5. QED BY <2>4
<1>6. QED BY <1>4, <1>5

\* The whole transfer.
LEMMA SdTransferResult ==
    ASSUME SdTypeOK
    PROVE  BlockCount \in Nat /\ Placed(SdTransfer, BlockCount)
<1>1. /\ BlockCount \in Nat /\ data_addr \in Nat /\ data_addr \in Addrs /\ BlockSize \in Nat \ {0}
  BY SdFacts
<1> DEFINE S == {n \in 0 .. BlockCount : Placed(SdBlocks[n], n)}
<1>2. 0 \in S
  <2>1. SdBlocks[0] = SdFirst /\ 0 \in 0 .. BlockCount
    BY <1>1, BlocksUnfold
  <2>2. Placed(SdFirst, 0)
    <3>1. data_addr = data_addr + 0 * BlockSize
      BY <1>1
    <3>2. /\ SdFirst.mem = mem /\ SdFirst.answer = "ok" /\ SdFirst.good = card_good
          /\ SdFirst.dest = data_addr
          /\ SdFirst = [dest |-> SdFirst.dest, answer |-> SdFirst.answer,
                        good |-> SdFirst.good, mem |-> SdFirst.mem]
      BY DEF SdFirst
    <3>3. Untouched(mem, 0)
      BY DEF Untouched
    <3>4. InPlace(mem, 0)
      BY DEF InPlace
    <3>5. mem \in [Cells -> Bytes] /\ card_good \in BOOLEAN /\ (Servable => card_good)
      BY DEF SdTypeOK, Servable
    <3>6. QED BY <1>1, <3>1, <3>2, <3>3, <3>4, <3>5 DEF Placed
  <2>3. QED BY <2>1, <2>2
<1>3. ASSUME NEW n \in 0 .. BlockCount - 1, n \in S PROVE n + 1 \in S
  <2>1. n + 1 \in 0 .. BlockCount /\ n + 1 # 0 /\ (n + 1) - 1 = n
    BY <1>1
  <2>2. SdBlocks[n + 1] = SdTurn(SdBlocks[n], n)
    BY <1>1, <2>1, BlocksUnfold
  <2>3. Placed(SdBlocks[n], n)
    BY <1>3
  <2>4. CASE SdBlocks[n].answer = "ok"
    <3>1. Placed(OneBlock(SdBlocks[n], n), n + 1)
      BY <2>3, <2>4, BlockMoved, BlockRefused
    <3>2. QED BY <2>1, <2>2, <2>4, <3>1 DEF SdTurn
  <2>5. CASE SdBlocks[n].answer # "ok"
    <3>1. SdBlocks[n + 1] = SdBlocks[n]
      BY <2>2, <2>5 DEF SdTurn
    <3>2. Untouched(SdBlocks[n].mem, n + 1)
      <4>1. /\ n \in Nat /\ n * BlockSize \in Nat
            /\ (n + 1) * BlockSize = n * BlockSize + BlockSize
        BY <1>1, NextMultiple
      <4>2. data_addr .. data_addr + n * BlockSize - 1
              \subseteq data_addr .. data_addr + (n + 1) * BlockSize - 1
        BY <1>1, <4>1
      <4>3. QED BY <2>3, <4>2 DEF Placed, Untouched
    <3>3. Placed(SdBlocks[n], n + 1)
      BY <2>3, <2>5, <3>2 DEF Placed
    <3>4. QED BY <2>1, <3>1, <3>3
  <2>6. QED BY <2>4, <2>5
<1>4. BlockCount \in S
  <2> HIDE DEF S
  <2>1. 0 .. BlockCount \subseteq S
    BY <1>1, <1>2, <1>3, CountInduction
  <2>2. QED BY <1>1, <2>1
<1>5. QED BY <1>1, <1>4 DEF SdTransfer

\* The step of transfer_thread, in the terms of its transfer.
LEMMA SdThreadStep ==
    ASSUME transfer_thread
    PROVE  /\ mem' = SdTransfer.mem /\ card_good' = SdTransfer.good
           /\ UNCHANGED sdRegs /\ sd_start' = FALSE
           /\ SdTransfer.answer = "abort" => ~alive' /\ UNCHANGED <<sd_status, sd_irq>>
           /\ SdTransfer.answer # "abort" =>
                sd_status' = SdReport(SdTransfer.answer) /\ sd_irq' = TRUE /\ UNCHANGED alive
  BY DEF transfer_thread

\* The registers, the stream's state and the memory keep their types (SdTypeOK).
THEOREM SdTypeCorrect == SdSpec => []SdTypeOK
<1>1. SdInit => SdTypeOK
  <2>1. 0 \in Addrs
    BY BusMemAssumption DEF Addrs
  <2>2. QED BY <2>1 DEF SdInit, SdTypeOK, Cmds
<1>2. SdTypeOK /\ [SdNext]_sdVars => SdTypeOK'
  <2> SUFFICES ASSUME SdTypeOK, [SdNext]_sdVars PROVE SdTypeOK'
    OBVIOUS
  <2>1. CASE transfer_thread
    <3>1. SdTransfer.mem \in [Cells -> Bytes] /\ SdTransfer.good \in BOOLEAN
      BY SdTransferResult DEF Placed
    <3>2. /\ mem' = SdTransfer.mem /\ card_good' = SdTransfer.good
          /\ UNCHANGED sdRegs /\ sd_start' = FALSE
      BY <2>1, SdThreadStep
    <3>3. /\ sd_status' \in {SD_IDLE, SD_DONE, SD_DONE_ERROR} /\ sd_irq' \in BOOLEAN
          /\ alive' \in BOOLEAN
      <4>1. CASE SdTransfer.answer = "abort"
        BY <2>1, <4>1 DEF transfer_thread, SdTypeOK
      <4>2. CASE SdTransfer.answer # "abort"
        BY <2>1, <4>2 DEF transfer_thread, SdTypeOK, SdReport
      <4>3. QED BY <4>1, <4>2
    <3>4. QED BY <3>1, <3>2, <3>3 DEF SdTypeOK, sdRegs
  <2>2. CASE UNCHANGED sdVars
    BY <2>2 DEF SdTypeOK, sdVars, sdRegs
  <2>3. CASE SdNext /\ ~transfer_thread
    BY <2>3 DEF SdNext, SdTypeOK, WriteCmd, WriteArg, WriteDataAddr, WriteBurstLen,
                WriteSdStatus, WriteSdCtrl, sdRegs
  <2>4. QED BY <2>1, <2>2, <2>3
<1>3. QED BY <1>1, <1>2, PTL DEF SdSpec

\* The line and the report go up and down together (IrqIsReport).
THEOREM SdIrqIsReport == SdSpec => []IrqIsReport
<1>1. SdInit => IrqIsReport
  BY DEF SdInit, IrqIsReport
<1>2. IrqIsReport /\ [SdNext]_sdVars => IrqIsReport'
  <2> SUFFICES ASSUME IrqIsReport, [SdNext]_sdVars PROVE IrqIsReport'
    OBVIOUS
  <2>1. CASE transfer_thread
    <3>1. CASE SdTransfer.answer = "abort"
      BY <2>1, <3>1 DEF transfer_thread, IrqIsReport
    <3>2. CASE SdTransfer.answer # "abort"
      <4>1. sd_status' = SdReport(SdTransfer.answer) /\ sd_irq' = TRUE
        BY <2>1, <3>2 DEF transfer_thread
      <4>2. QED BY <4>1 DEF IrqIsReport, SdReport, SD_IDLE, SD_DONE, SD_DONE_ERROR
    <3>3. QED BY <3>1, <3>2
  <2>2. CASE UNCHANGED sdVars
    BY <2>2 DEF IrqIsReport, sdVars
  <2>3. CASE SdNext /\ ~transfer_thread
    BY <2>3 DEF SdNext, IrqIsReport, WriteCmd, WriteArg, WriteDataAddr, WriteBurstLen,
                WriteSdStatus, WriteSdCtrl
  <2>4. QED BY <2>1, <2>2, <2>3
<1>3. QED BY <1>1, <1>2, PTL DEF SdSpec

\* Only transfer_thread consumes a start; when the simulation goes on it reports.
LEMMA SdServedByThread ==
    ASSUME SdTypeOK, SdNext, SdServed
    PROVE  /\ mem' = SdTransfer.mem
           /\ sd_status' = SD_DONE <=> SdTransfer.answer = "ok"
<1>1. transfer_thread
  BY DEF SdNext, SdServed, WriteCmd, WriteArg, WriteDataAddr, WriteBurstLen, WriteSdStatus,
         WriteSdCtrl
<1>2. alive'
  BY DEF SdServed
<1>3. SdTransfer.answer # "abort" /\ mem' = SdTransfer.mem
      /\ sd_status' = SdReport(SdTransfer.answer)
  BY <1>1, <1>2, SdThreadStep
<1>4. QED BY <1>3 DEF SdReport, SD_DONE, SD_DONE_ERROR

\* A transfer reported as DONE put every block in its place, and no transfer touches
\* anything but RAM in its range (DoneMeansRead).
THEOREM SdDoneMeansRead == SdSpec => DoneMeansRead
<1> DEFINE A == SdServed =>
        /\ sd_status' = SD_DONE =>
             \A i \in 0 .. BlockCount - 1, j \in 0 .. BlockSize - 1 :
                 LET a == data_addr + i * BlockSize + j IN
                 a \in Cells /\ arg + i \in DOMAIN Image /\ mem'[a] = Image[arg + i][j]
        /\ \A a \in Cells : mem'[a] # mem[a] =>
             a \in Span(Ram) \cap (data_addr .. data_addr + BlockCount * BlockSize - 1)
<1>1. SdTypeOK /\ [SdNext]_sdVars => [A]_sdVars
  <2> SUFFICES ASSUME SdTypeOK, SdNext, SdServed PROVE A
    BY DEF sdVars
  <2>1. mem' = SdTransfer.mem /\ (sd_status' = SD_DONE <=> SdTransfer.answer = "ok")
    BY SdServedByThread
  <2>2. Placed(SdTransfer, BlockCount)
    BY SdTransferResult
  <2>3. QED BY <2>1, <2>2 DEF Placed, InPlace, Untouched, Place
<1>2. QED BY <1>1, SdTypeCorrect, PTL DEF SdSpec, DoneMeansRead

\* A request for blocks of the image, into RAM, is served as long as the stream is good,
\* and transfer_thread breaks the stream only with a request past the end (ReadServed).
THEOREM SdReadServed == SdSpec => ReadServed
<1> DEFINE A == /\ SdServed /\ card_good /\ ValidRequest => sd_status' = SD_DONE
                /\ card_good /\ ~card_good' => PastEnd
<1>1. SdTypeOK /\ [SdNext]_sdVars => [A]_sdVars
  <2> SUFFICES ASSUME SdTypeOK, SdNext PROVE A
    OBVIOUS
  <2>1. Placed(SdTransfer, BlockCount)
    BY SdTransferResult
  <2>2. ASSUME SdServed, Servable PROVE sd_status' = SD_DONE
    <3>1. sd_status' = SD_DONE <=> SdTransfer.answer = "ok"
      BY <2>2, SdServedByThread
    <3>2. QED BY <2>1, <2>2, <3>1 DEF Placed
  <2>3. ASSUME card_good, ~card_good' PROVE PastEnd
    <3>1. transfer_thread
      BY <2>3 DEF SdNext, WriteCmd, WriteArg, WriteDataAddr, WriteBurstLen, WriteSdStatus,
                  WriteSdCtrl
    <3>2. card_good' = SdTransfer.good
      BY <3>1, SdThreadStep
    <3>3. QED BY <2>1, <2>3, <3>2 DEF Placed
  <2>4. QED BY <2>2, <2>3 DEF Servable
<1>2. QED BY <1>1, SdTypeCorrect, PTL DEF SdSpec, ReadServed
=============================================================================
