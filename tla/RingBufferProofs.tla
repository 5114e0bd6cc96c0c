--------------------------- MODULE RingBufferProofs ---------------------------
EXTENDS RingBuffer, ProofBasics

\* A number by quotient and remainder.
LEMMA DivMod ==
    ASSUME NEW w \in Nat \ {0}, NEW i \in Nat
    PROVE  i % w \in 0..(w - 1) /\ i \div w \in Nat /\ i = w * (i \div w) + (i % w)
  OBVIOUS

\* Quotients first.
LEMMA DivOrder ==
    ASSUME NEW w \in Nat \ {0}, NEW i \in Nat, NEW j \in Nat
    PROVE  i \div w < j \div w \/ (i \div w = j \div w /\ i % w < j % w) <=> i < j
  OBVIOUS

\* Quotient and remainder are unique.
LEMMA ModUnique ==
    ASSUME NEW w \in Nat \ {0}, NEW q \in Nat, NEW r \in 0..(w - 1), NEW n \in Nat, n = w * q + r
    PROVE  n % w = r /\ n \div w = q
  <1>1. PICK p \in Nat, t \in 0..(w - 1) : n = w * p + t /\ n % w = t /\ n \div w = p
    BY DivMod
  <1>2. p = q
    <2>1. CASE p < q
      <3>1. PICK d \in Nat : q = p + 1 + d
        <4>1. q - p - 1 \in Nat /\ q = p + 1 + (q - p - 1)
          BY <2>1
        <4> QED
          BY <4>1
      <3>2. w * q = w * p + w + w * d /\ w * d >= 0
        BY <3>1
      <3> QED
        BY <1>1, <3>2
    <2>2. CASE q < p
      <3>1. PICK d \in Nat : p = q + 1 + d
        <4>1. p - q - 1 \in Nat /\ p = q + 1 + (p - q - 1)
          BY <2>2
        <4> QED
          BY <4>1
      <3>2. w * p = w * q + w + w * d /\ w * d >= 0
        BY <3>1
      <3> QED
        BY <1>1, <3>2
    <2> QED
      BY <2>1, <2>2
  <1> QED
    BY <1>1, <1>2

\* Remainders after some steps.
LEMMA ModSteps ==
    ASSUME NEW w \in Nat \ {0}, NEW i \in Nat, NEW k \in 0..(w - 1)
    PROVE  (i + k) % w = IF (i % w) + k < w THEN (i % w) + k ELSE (i % w) + k - w
  <1>1. PICK q \in Nat, r \in 0..(w - 1) : i = w * q + r /\ i % w = r
    BY DivMod
  <1>2. CASE r + k < w
    <2>1. i + k = w * q + (r + k) /\ r + k \in 0..(w - 1)
      BY <1>1, <1>2
    <2>2. PICK n \in Nat, t \in 0..(w - 1) : n = i + k /\ t = r + k
      BY <2>1
    <2>4. n = w * q + t
      BY <2>1, <2>2
    <2>3. n % w = t
      BY <2>4, ModUnique
    <2> QED
      BY <1>1, <1>2, <2>2, <2>3
  <1>3. CASE ~(r + k < w)
    <2>1. i + k = w * (q + 1) + (r + k - w) /\ r + k - w \in 0..(w - 1) /\ q + 1 \in Nat
      BY <1>1, <1>3
    <2>2. PICK n \in Nat, t \in 0..(w - 1), p \in Nat : n = i + k /\ t = r + k - w /\ p = q + 1
      BY <2>1
    <2>4. n = w * p + t
      BY <2>1, <2>2
    <2>3. n % w = t
      BY <2>4, ModUnique
    <2> QED
      BY <1>1, <1>3, <2>2, <2>3
  <1> QED
    BY <1>2, <1>3

\* The number after a multiple, and the number after another number.
LEMMA ModNext ==
    ASSUME NEW w \in Nat \ {0}, NEW i \in Nat
    PROVE  (i + 1) % w = IF (i % w) = w - 1 THEN 0 ELSE (i % w) + 1
  <1>1. PICK q \in Nat, r \in 0..(w - 1) : i = w * q + r /\ i % w = r
    BY DivMod
  <1>2. CASE r = w - 1
    <2>1. PICK n \in Nat, t \in 0..(w - 1), p \in Nat : n = i + 1 /\ t = 0 /\ p = q + 1
      BY <1>1
    <2>2. n = w * p + t
      BY <1>1, <1>2, <2>1
    <2>3. n % w = t
      BY <2>2, ModUnique
    <2> QED
      BY <1>1, <1>2, <2>1, <2>3
  <1>3. CASE r # w - 1
    <2>1. PICK n \in Nat, t \in 0..(w - 1) : n = i + 1 /\ t = r + 1
      BY <1>1, <1>3
    <2>2. n = w * q + t
      BY <1>1, <2>1
    <2>3. n % w = t
      BY <2>2, ModUnique
    <2> QED
      BY <1>1, <1>3, <2>1, <2>3
  <1> QED
    BY <1>2, <1>3
-----------------------------------------------------------------------------
(* The bitmap. *)

\* A bitmap that counts as empty has no bit set.
BitmapInv(b) ==
    /\ b.gap_bitmap \in [Words -> SUBSET Bit]
    /\ b.empty => \A w \in Words : b.gap_bitmap[w] = {}

\* The masks of the words make up the region.
LEMMA MaskIsRegion ==
    ASSUME NEW start \in Nat, NEW len \in Nat \ {0}, NEW i \in Nat
    PROVE  (i % WordBits) \in Mask(i \div WordBits, start, start + len) <=> i \in start..(start + len - 1)
  <1> PICK w \in Nat \ {0} : w = WordBits
    BY BitmapAssumption
  <1> PICK last \in Nat : last = start + len - 1
    OBVIOUS
  <1>1. start + len - 1 = last /\ start + len = last + 1 /\ start <= last
    OBVIOUS
  <1>2. (last + 1) % w = IF (last % w) = w - 1 THEN 0 ELSE (last % w) + 1
    BY ModNext
  <1>3. /\ i % w \in 0..(w - 1) /\ start % w \in 0..(w - 1) /\ last % w \in 0..(w - 1)
        /\ i \div w \in Nat /\ start \div w \in Nat /\ last \div w \in Nat
    BY DivMod
  <1>4. i < start <=> i \div w < start \div w \/ (i \div w = start \div w /\ i % w < start % w)
    BY DivOrder
  <1>5. last < i <=> last \div w < i \div w \/ (last \div w = i \div w /\ last % w < i % w)
    <2>1. \A j, k \in Nat : j \div w < k \div w \/ (j \div w = k \div w /\ j % w < k % w) <=> j < k
      BY ONLY w \in Nat \ {0}, DivOrder
    <2> QED
      BY ONLY <2>1, i \in Nat, last \in Nat
  <1> DEFINE a == i \div w
             b == start \div w
             c == last \div w
             x == i % w
             y == start % w
             z == last % w
             h == (last + 1) % w
  <1>6. x \in Mask(a, start, start + len) <=>
          a \in b..c /\ x \in (IF a = b THEN y ELSE 0)..((IF a = c /\ h # 0 THEN h ELSE w) - 1)
    BY <1>1 DEF Mask
  <1>7. i \in start..last <=> ~(i < start) /\ ~(last < i)
    OBVIOUS
  <1> HIDE DEF a, b, c, x, y, z, h
  <1>8. x \in 0..(w - 1) /\ y \in 0..(w - 1) /\ z \in 0..(w - 1) /\ a \in Nat /\ b \in Nat /\ c \in Nat
        /\ h = (IF z = w - 1 THEN 0 ELSE z + 1)
    BY <1>2, <1>3 DEF a, b, c, x, y, z, h
  <1>9. (i < start <=> a < b \/ (a = b /\ x < y)) /\ (last < i <=> c < a \/ (c = a /\ z < x))
    BY <1>4, <1>5 DEF a, b, c, x, y, z
  <1>10. a \in b..c /\ x \in (IF a = b THEN y ELSE 0)..((IF a = c /\ h # 0 THEN h ELSE w) - 1)
         <=> ~(a < b \/ (a = b /\ x < y)) /\ ~(c < a \/ (c = a /\ z < x))
    BY <1>8
  <1> QED
    BY <1>1, <1>6, <1>7, <1>9, <1>10 DEF a, x

\* Each slot has its word.
LEMMA WordOfSlot ==
    ASSUME NEW i \in 0..(capacity - 1)
    PROVE  i \in Nat /\ i \div WordBits \in Words /\ i % WordBits \in Bit
  <1> PICK w \in Nat \ {0} : w = WordBits
    BY BitmapAssumption
  <1>0. capacity \in Nat /\ i \in Nat
    BY BitmapAssumption
  <1> PICK q \in Nat, r \in 0..(w - 1) : i = w * q + r /\ i \div w = q /\ i % w = r
    BY <1>0, DivMod
  <1> PICK n \in Nat : n = capacity + w - 1
    BY BitmapAssumption
  <1> PICK p \in Nat, t \in 0..(w - 1) : n = w * p + t /\ n \div w = p
    BY DivMod
  <1>1. q < p
    <2>1. SUFFICES ASSUME p <= q PROVE FALSE
      OBVIOUS
    <2>2. PICK d \in Nat : q = p + d
      <3>1. q - p \in Nat /\ q = p + (q - p)
        BY <2>1
      <3> QED
        BY <3>1
    <2>3. w * q = w * p + w * d /\ w * d >= 0
      BY <2>2
    <2>4. i + w <= n
      BY BitmapAssumption
    <2> QED
      BY <2>3, <2>4
  <1> QED
    BY <1>1 DEF Words, Bit

\* A mask has bits of a word only.
LEMMA MaskInWord ==
    ASSUME NEW w, NEW start \in Nat, NEW end \in Nat
    PROVE  Mask(w, start, end) \in SUBSET Bit
  <1> PICK n \in Nat \ {0} : n = WordBits
    BY BitmapAssumption
  <1>1. start % n \in 0..(n - 1) /\ end % n \in 0..(n - 1)
    BY DivMod
  <1>2. PICK y \in 0..(n - 1), z \in 0..(n - 1) : y = start % n /\ z = end % n
    BY <1>1
  <1>3. \A lo \in {0, y}, hi \in {z, n} : lo..(hi - 1) \in SUBSET (0..(n - 1))
    BY <1>2
  <1> QED
    BY <1>2, <1>3 DEF Mask, Bit

\* Marking a stretch adds its slots, and no other, to what the bitmap stands for.
LEMMA MarkRegion ==
    ASSUME NEW b, BitmapInv(b), NEW start \in Nat, NEW len \in Nat, start + len <= capacity
    PROVE  /\ BitmapInv(mark_region(b, start, len))
           /\ \A i \in 0..(capacity - 1) :
                i \in Marked(mark_region(b, start, len))
                  <=> i \in Marked(b) \/ i \in start..(start + len - 1)
  <1>1. CASE len = 0
    BY <1>1 DEF mark_region
  <1>2. CASE len # 0
    <2> DEFINE m == mark_region(b, start, len)
    <2>1. /\ m.gap_bitmap = [w \in Words |-> b.gap_bitmap[w] \cup Mask(w, start, start + len)]
          /\ ~m.empty
      BY <1>2 DEF mark_region
    <2>2. m.gap_bitmap \in [Words -> SUBSET Bit]
      BY <2>1, MaskInWord DEF BitmapInv
    <2> HIDE DEF m
    <2>3. ASSUME NEW i \in 0..(capacity - 1)
          PROVE  i \in Marked(m) <=> i \in Marked(b) \/ i \in start..(start + len - 1)
      <3>1. i \div WordBits \in Words /\ i \in Nat
        BY WordOfSlot
      <3>2. m.gap_bitmap[i \div WordBits]
              = b.gap_bitmap[i \div WordBits] \cup Mask(i \div WordBits, start, start + len)
        BY <2>1, <3>1
      <3>3. (i % WordBits) \in Mask(i \div WordBits, start, start + len)
              <=> i \in start..(start + len - 1)
        BY <1>2, <3>1, MaskIsRegion
      <3> QED
        BY <3>2, <3>3 DEF Marked
    <2> QED
      BY <2>1, <2>2, <2>3 DEF BitmapInv, m
  <1> QED
    BY <1>1, <1>2

\* Unmarking a stretch takes its slots, and no other, from what the bitmap stands for.
LEMMA UnmarkRegion ==
    ASSUME NEW b, BitmapInv(b), NEW start \in Nat, NEW len \in Nat, start + len <= capacity
    PROVE  /\ BitmapInv(unmark_region(b, start, len))
           /\ \A i \in 0..(capacity - 1) :
                i \in Marked(unmark_region(b, start, len))
                  <=> i \in Marked(b) /\ i \notin start..(start + len - 1)
  <1>1. CASE len = 0
    BY <1>1 DEF unmark_region
  <1>2. CASE b.empty
    <2>1. ASSUME NEW i \in 0..(capacity - 1)
          PROVE  i \notin Marked(b)
      BY <1>2, WordOfSlot DEF BitmapInv, Marked
    <2> QED
      BY <1>2, <2>1 DEF unmark_region
  <1>3. CASE len # 0 /\ ~b.empty
    <2> DEFINE m == unmark_region(b, start, len)
               cleared == [w \in Words |-> b.gap_bitmap[w] \ Mask(w, start, start + len)]
    <2>1. m = [gap_bitmap |-> cleared, empty |-> \A w \in Words : cleared[w] = {}]
      BY <1>3 DEF unmark_region
    <2>2. cleared \in [Words -> SUBSET Bit]
      BY DEF BitmapInv
    <2>3. m.gap_bitmap = cleared /\ (m.empty => \A w \in Words : cleared[w] = {})
      BY <2>1
    <2>4. \A w \in Words : cleared[w] = b.gap_bitmap[w] \ Mask(w, start, start + len)
      OBVIOUS
    <2> HIDE DEF m, cleared
    <2>5. ASSUME NEW i \in 0..(capacity - 1)
          PROVE  i \in Marked(m) <=> i \in Marked(b) /\ i \notin start..(start + len - 1)
      <3>1. i \div WordBits \in Words /\ i \in Nat
        BY WordOfSlot
      <3>2. m.gap_bitmap[i \div WordBits]
              = b.gap_bitmap[i \div WordBits] \ Mask(i \div WordBits, start, start + len)
        BY <2>3, <2>4, <3>1
      <3>3. (i % WordBits) \in Mask(i \div WordBits, start, start + len)
              <=> i \in start..(start + len - 1)
        BY <1>3, <3>1, MaskIsRegion
      <3> QED
        BY <3>2, <3>3 DEF Marked
    <2>6. BitmapInv(m)
      BY <2>2, <2>3 DEF BitmapInv
    <2> QED
      BY <2>5, <2>6 DEF m
  <1> QED
    BY <1>1, <1>2, <1>3
-----------------------------------------------------------------------------
(* The ring. *)

\* The slots of n instants from the one of slot h on, in two stretches.
Lap(h, n) ==
    LET first == Lesser(capacity - h, n)
    IN  h..(h + first - 1) \cup 0..(n - first - 1)

\* An instant lies in the slots of the n instants from wh on when it is one of them,
\* or one lap behind one of them.
LEMMA SlotInLap ==
    ASSUME NEW wh \in Nat, NEW n \in 0..capacity, NEW t \in Nat, wh <= t + capacity, t < wh + capacity
    PROVE  /\ t % capacity \in 0..(capacity - 1)
           /\ t % capacity \in Lap(wh % capacity, n)
                <=> (wh <= t /\ t < wh + n) \/ t + capacity < wh + n
  <1> PICK c \in Nat \ {0} : c = capacity
    BY BitmapAssumption
  <1> PICK h \in 0..(c - 1), x \in 0..(c - 1) : h = wh % c /\ x = t % c
    BY DivMod
  <1>1. \A k \in 0..(c - 1) :
          LET s == IF h + k < c THEN h + k ELSE h + k - c
          IN  s \in Lap(h, n) <=> k < n
    BY DEF Lap, Lesser
  <1>2. \A k \in 0..(c - 1) : (wh + k) % c = IF h + k < c THEN h + k ELSE h + k - c
    BY ModSteps
  <1>3. CASE wh <= t
    <2>1. PICK k \in 0..(c - 1) : t = wh + k
      <3>1. t - wh \in 0..(c - 1) /\ t = wh + (t - wh)
        BY <1>3
      <3> QED
        BY <3>1
    <2>2. x = IF h + k < c THEN h + k ELSE h + k - c
      BY <1>2, <2>1
    <2>3. x \in Lap(h, n) <=> k < n
      BY <1>1, <2>2
    <2> QED
      BY <1>3, <2>1, <2>3
  <1>4. CASE t < wh
    <2>1. PICK k \in 0..(c - 1) : t + c = wh + k
      <3>1. t + c - wh \in 0..(c - 1) /\ t + c = wh + (t + c - wh)
        BY <1>4
      <3> QED
        BY <3>1
    <2>2. (t + c) % c = x
      <3>1. PICK q \in Nat, r \in 0..(c - 1) : t = c * q + r /\ t % c = r
        BY DivMod
      <3>2. PICK m \in Nat, p \in Nat : m = t + c /\ p = q + 1
        OBVIOUS
      <3>3. m = c * p + r
        <4>1. c * (q + 1) = c * q + c
          BY ONLY c \in Nat, q \in Nat
        <4>2. m = c * (q + 1) + r
          BY ONLY <4>1, <3>1, <3>2, t \in Nat, c * q \in Nat, c \in Nat
        <4> QED
          BY <3>2, <4>2
      <3>4. m % c = r
        BY ONLY <3>3, ModUnique, m \in Nat, c \in Nat \ {0}, p \in Nat, r \in 0..(c - 1)
      <3> QED
        BY <3>1, <3>2, <3>4
    <2>3. x = IF h + k < c THEN h + k ELSE h + k - c
      BY <1>2, <2>1, <2>2
    <2>4. x \in Lap(h, n) <=> k < n
      BY <1>1, <2>3
    <2> QED
      BY <1>4, <2>1, <2>4
  <1> QED
    BY <1>3, <1>4

\* A lap of as many instants as the ring has slots is the whole ring.
LEMMA FullLap ==
    ASSUME NEW wh \in Nat, NEW t \in Nat
    PROVE  t % capacity \in 0..(capacity - 1) /\ t % capacity \in Lap(wh % capacity, capacity)
  <1> PICK c \in Nat \ {0} : c = capacity
    BY BitmapAssumption
  <1> PICK h \in 0..(c - 1), x \in 0..(c - 1) : h = wh % c /\ x = t % c
    BY DivMod
  <1> QED
    BY DEF Lap, Lesser

-----------------------------------------------------------------------------
(* The bitmap is the timeline. *)

\* The bitmap marks the gaps, and nothing else, of the last instants before time h.
GapsUpTo(b, tl, h) ==
    \A t \in Nat : h <= t + capacity /\ t < h =>
      ((t % capacity) \in Marked(b) <=> tl[t + 1] = Gap)

\* What the samples between the timeline's end and the head of a call are.
SamplesStored ==
    /\ Len(job.stored) = Lesser(job.advance, capacity)
    /\ \A t \in Nat : write_head <= t /\ t < write_head + job.advance => timeline[t + 1] # Gap

\* The bitmap follows the timeline as far as the head, or as far as the head will be
\* once the gaps of the call are marked, or those under its samples cleared.
GapsInv ==
    /\ write_head \in Nat
    /\ BitmapInv(gaps)
    /\ timeline \in Seq(Int)
    /\ job.advance \in Nat
    /\ Len(timeline) = write_head + job.advance
    /\ job.step = "idle" => job.advance = 0
    /\ IF job.step = "stored" /\ job.stored # <<>>
       THEN SamplesStored /\ GapsUpTo(gaps, timeline, write_head)
       ELSE GapsUpTo(gaps, timeline, write_head + job.advance)

\* A lap's two stretches lie in the ring.
LEMMA LapBounds ==
    ASSUME NEW h \in 0..(capacity - 1), NEW n \in 0..capacity
    PROVE  LET first == Lesser(capacity - h, n)
           IN  /\ h \in Nat /\ first \in Nat /\ h + first <= capacity
               /\ n - first \in Nat /\ 0 + (n - first) <= capacity
  BY BitmapAssumption DEF Lesser

\* Marking a lap of the ring.
LEMMA MarkLap ==
    ASSUME NEW b, BitmapInv(b), NEW h \in 0..(capacity - 1), NEW n \in 0..capacity
    PROVE  /\ BitmapInv(MarkGaps(b, h, n))
           /\ \A i \in 0..(capacity - 1) :
                i \in Marked(MarkGaps(b, h, n)) <=> i \in Marked(b) \/ i \in Lap(h, n)
  <1> PICK first \in Nat : first = Lesser(capacity - h, n)
    BY LapBounds
  <1>1. /\ h \in Nat /\ h + first <= capacity
        /\ n - first \in Nat /\ 0 + (n - first) <= capacity /\ 0 \in Nat
    BY LapBounds
  <1> PICK m : m = mark_region(b, h, first)
    OBVIOUS
  <1>2. /\ BitmapInv(m)
        /\ \A i \in 0..(capacity - 1) : i \in Marked(m) <=> i \in Marked(b) \/ i \in h..(h + first - 1)
    BY <1>1, MarkRegion
  <1> PICK rest \in Nat : rest = n - first
    BY <1>1
  <1>3. /\ BitmapInv(mark_region(m, 0, rest))
        /\ \A i \in 0..(capacity - 1) :
             i \in Marked(mark_region(m, 0, rest)) <=> i \in Marked(m) \/ i \in 0..(0 + rest - 1)
    BY <1>1, <1>2, MarkRegion
  <1>4. MarkGaps(b, h, n) = mark_region(m, 0, rest)
    BY DEF MarkGaps
  <1>5. Lap(h, n) = h..(h + first - 1) \cup 0..(rest - 1)
    BY DEF Lap
  <1>6. 0 + rest - 1 = rest - 1
    OBVIOUS
  <1> QED
    BY <1>2, <1>3, <1>4, <1>5, <1>6

\* Clearing a lap of the ring.
LEMMA UnmarkLap ==
    ASSUME NEW b, BitmapInv(b), NEW h \in 0..(capacity - 1), NEW n \in 0..capacity, NEW c,
           c = LET first == Lesser(capacity - h, n)
               IN  unmark_region(unmark_region(b, h, first), 0, n - first)
    PROVE  /\ BitmapInv(c)
           /\ \A i \in 0..(capacity - 1) : i \in Marked(c) <=> i \in Marked(b) /\ i \notin Lap(h, n)
  <1> PICK first \in Nat : first = Lesser(capacity - h, n)
    BY LapBounds
  <1>1. /\ h \in Nat /\ h + first <= capacity
        /\ n - first \in Nat /\ 0 + (n - first) <= capacity /\ 0 \in Nat
    BY LapBounds
  <1> PICK m : m = unmark_region(b, h, first)
    OBVIOUS
  <1>2. /\ BitmapInv(m)
        /\ \A i \in 0..(capacity - 1) : i \in Marked(m) <=> i \in Marked(b) /\ i \notin h..(h + first - 1)
    BY <1>1, UnmarkRegion
  <1> PICK rest \in Nat : rest = n - first
    BY <1>1
  <1>3. /\ BitmapInv(unmark_region(m, 0, rest))
        /\ \A i \in 0..(capacity - 1) :
             i \in Marked(unmark_region(m, 0, rest)) <=> i \in Marked(m) /\ i \notin 0..(0 + rest - 1)
    BY <1>1, <1>2, UnmarkRegion
  <1>4. c = unmark_region(m, 0, rest)
    OBVIOUS
  <1>5. Lap(h, n) = h..(h + first - 1) \cup 0..(rest - 1)
    BY DEF Lap
  <1>6. 0 + rest - 1 = rest - 1
    OBVIOUS
  <1> QED
    BY <1>2, <1>3, <1>4, <1>5, <1>6

\* Gaps are appended to the timeline and their slots marked.
LEMMA GapsAppended ==
    ASSUME NEW b, NEW c, NEW tl, NEW u, NEW wh \in Nat, NEW size \in Nat,
           GapsUpTo(b, tl, wh),
           \A t \in Nat : t < wh => u[t + 1] = tl[t + 1],
           \A t \in Nat : wh <= t /\ t < wh + size => u[t + 1] = Gap,
           \A i \in 0..(capacity - 1) :
             i \in Marked(c) <=> i \in Marked(b) \/ i \in Lap(wh % capacity, Lesser(size, capacity))
    PROVE  GapsUpTo(c, u, wh + size)
  <1> PICK n \in 0..capacity : n = Lesser(size, capacity)
    BY BitmapAssumption DEF Lesser
  <1>0. capacity \in Nat \ {0}
    BY BitmapAssumption
  <1> SUFFICES ASSUME NEW t \in Nat, wh + size <= t + capacity, t < wh + size
               PROVE  (t % capacity) \in Marked(c) <=> u[t + 1] = Gap
    BY DEF GapsUpTo
  <1>1. CASE t < wh
    <2>1. wh <= t + capacity /\ t < wh + capacity
      BY <1>0, <1>1
    <2>2. (t % capacity) \in Marked(b) <=> tl[t + 1] = Gap
      BY <1>1, <2>1 DEF GapsUpTo
    <2>3. t % capacity \in 0..(capacity - 1) /\ t % capacity \notin Lap(wh % capacity, n)
      <3>1. ~((wh <= t /\ t < wh + n) \/ t + capacity < wh + n)
        BY <1>0, <1>1 DEF Lesser
      <3> QED
        BY <2>1, <3>1, SlotInLap
    <2> QED
      BY <1>1, <2>2, <2>3
  <1>2. CASE wh <= t
    <2>1. u[t + 1] = Gap
      BY <1>2
    <2>2. CASE size < capacity
      <3>1. n = size /\ wh <= t + capacity /\ t < wh + capacity
        BY <1>0, <1>2, <2>2 DEF Lesser
      <3>2. t % capacity \in 0..(capacity - 1) /\ t % capacity \in Lap(wh % capacity, n)
        BY <1>2, <3>1, SlotInLap
      <3> QED
        BY <2>1, <3>2
    <2>3. CASE capacity <= size
      <3>1. n = capacity
        BY <1>0, <2>3 DEF Lesser
      <3>2. t % capacity \in 0..(capacity - 1) /\ t % capacity \in Lap(wh % capacity, n)
        BY <3>1, <1>0, FullLap
      <3> QED
        BY <2>1, <3>2
    <2> QED
      BY <1>0, <2>2, <2>3
  <1> QED
    BY <1>1, <1>2

\* Samples are appended to the timeline, and their slots cleared.
LEMMA SamplesAppended ==
    ASSUME NEW b, NEW c, NEW u, NEW wh \in Nat, NEW size \in Nat,
           GapsUpTo(b, u, wh),
           \A t \in Nat : wh <= t /\ t < wh + size => u[t + 1] # Gap,
           \A i \in 0..(capacity - 1) :
             i \in Marked(c) <=> i \in Marked(b) /\ i \notin Lap(wh % capacity, Lesser(size, capacity))
    PROVE  GapsUpTo(c, u, wh + size)
  <1> PICK n \in 0..capacity : n = Lesser(size, capacity)
    BY BitmapAssumption DEF Lesser
  <1>0. capacity \in Nat \ {0}
    BY BitmapAssumption
  <1> SUFFICES ASSUME NEW t \in Nat, wh + size <= t + capacity, t < wh + size
               PROVE  (t % capacity) \in Marked(c) <=> u[t + 1] = Gap
    BY DEF GapsUpTo
  <1>1. CASE t < wh
    <2>1. wh <= t + capacity /\ t < wh + capacity
      BY <1>0, <1>1
    <2>2. (t % capacity) \in Marked(b) <=> u[t + 1] = Gap
      BY <1>1, <2>1 DEF GapsUpTo
    <2>3. t % capacity \in 0..(capacity - 1) /\ t % capacity \notin Lap(wh % capacity, n)
      <3>1. ~((wh <= t /\ t < wh + n) \/ t + capacity < wh + n)
        BY <1>0, <1>1 DEF Lesser
      <3> QED
        BY <2>1, <3>1, SlotInLap
    <2> QED
      BY <1>1, <2>2, <2>3
  <1>2. CASE wh <= t
    <2>1. u[t + 1] # Gap
      BY <1>2
    <2>2. CASE size < capacity
      <3>1. n = size /\ wh <= t + capacity /\ t < wh + capacity
        BY <1>0, <1>2, <2>2 DEF Lesser
      <3>2. t % capacity \in 0..(capacity - 1) /\ t % capacity \in Lap(wh % capacity, n)
        BY <1>2, <3>1, SlotInLap
      <3> QED
        BY <2>1, <3>2
    <2>3. CASE capacity <= size
      <3>1. n = capacity
        BY <1>0, <2>3 DEF Lesser
      <3>2. t % capacity \in 0..(capacity - 1) /\ t % capacity \in Lap(wh % capacity, n)
        BY <3>1, <1>0, FullLap
      <3> QED
        BY <2>1, <3>2
    <2> QED
      BY <1>0, <2>2, <2>3
  <1> QED
    BY <1>1, <1>2

\* u is the timeline tl, as long as wh, and then the n items of s.
Grown(u, tl, s, wh, n) ==
    /\ u \in Seq(Int)
    /\ Len(u) = wh + n
    /\ \A t \in Nat : t < wh => u[t + 1] = tl[t + 1]
    /\ \A t \in Nat : wh <= t /\ t < wh + n => \E i \in 1..n : u[t + 1] = s[i]

\* What the append of n instants does to the timeline.
LEMMA TimelineAppended ==
    ASSUME NEW tl \in Seq(Int), NEW s \in Seq(Int), NEW wh \in Nat, Len(tl) = wh,
           NEW n \in Nat, Len(s) = n, NEW u, u = tl \o s
    PROVE  Grown(u, tl, s, wh, n)
  <1>1. u \in Seq(Int) /\ Joined(u, tl, s)
    BY JoinSeq
  <1>2. /\ Len(u) = wh + n
        /\ \A i \in 1..wh : u[i] = tl[i]
        /\ \A i \in 1..n : u[wh + i] = s[i]
    BY <1>1 DEF Joined
  <1>3. \A t \in Nat : t < wh => u[t + 1] = tl[t + 1]
    BY <1>2
  <1>4. ASSUME NEW t \in Nat, wh <= t, t < wh + n
        PROVE  \E i \in 1..n : u[t + 1] = s[i]
    <2>1. t + 1 - wh \in 1..n /\ wh + (t + 1 - wh) = t + 1
      BY <1>4
    <2> QED
      BY <1>2, <2>1
  <1> QED
    BY <1>1, <1>2, <1>3, <1>4 DEF Grown

\* Samples are stored: the bitmap is that of before the call.
LEMMA StoreStep ==
    ASSUME NEW input \in Seq(Int), Len(input) # 0, \A i \in 1..Len(input) : input[i] # Gap,
           GapsInv, Store(input)
    PROVE  GapsInv'
  <1> PICK n \in Nat \ {0} : n = Len(input)
    BY LenProperties
  <1> PICK phys \in Nat \ {0} : phys = Lesser(n, capacity) /\ phys <= n
    BY BitmapAssumption DEF Lesser
  <1> PICK src : src = SubSeq(input, n - phys + 1, n)
    OBVIOUS
  <1>1. /\ job.step = "idle"
        /\ job' = [step |-> "stored", stored |-> src, advance |-> n]
        /\ timeline' = timeline \o input
        /\ write_head' = write_head /\ gaps' = gaps
    BY DEF Store
  <1>2. job'.step = "stored" /\ job'.stored = src /\ job'.advance = n
    BY <1>1
  <1>3. Len(src) = phys /\ src # <<>>
    <2>1. \A i \in (n - phys + 1)..n : input[i] \in Int
      <3>1. \A i \in 1..n : input[i] \in Int
        BY ElementOfSeq
      <3>2. \A i \in (n - phys + 1)..n : i \in 1..n
        OBVIOUS
      <3> QED
        BY <3>1, <3>2
    <2>2. n - phys + 1 \in Int /\ n \in Int
      OBVIOUS
    <2>3. Len(src) = IF n - phys + 1 <= n THEN n - (n - phys + 1) + 1 ELSE 0
      BY <2>1, <2>2, SubSeqProperties
    <2>4. Len(src) = phys
      <3>1. n - phys + 1 <= n /\ n - (n - phys + 1) + 1 = phys
        BY ONLY n \in Nat \ {0}, phys \in Nat \ {0}, phys <= n
      <3> QED
        BY <2>3, <3>1
    <2>5. Len(<<>>) = 0
      OBVIOUS
    <2> QED
      BY <2>4, <2>5
  <1>4. /\ write_head \in Nat /\ BitmapInv(gaps) /\ timeline \in Seq(Int)
        /\ job.advance = 0 /\ Len(timeline) = write_head /\ GapsUpTo(gaps, timeline, write_head)
    <2>1. /\ write_head \in Nat /\ BitmapInv(gaps) /\ timeline \in Seq(Int)
          /\ job.advance = 0 /\ Len(timeline) = write_head + job.advance
          /\ GapsUpTo(gaps, timeline, write_head + job.advance)
      BY <1>1 DEF GapsInv
    <2>2. write_head + job.advance = write_head
      BY ONLY <2>1
    <2> QED
      BY ONLY <2>1, <2>2
  <1>5. /\ timeline' \in Seq(Int) /\ Len(timeline') = write_head + n
        /\ \A t \in Nat : t < write_head => timeline'[t + 1] = timeline[t + 1]
        /\ \A t \in Nat : write_head <= t /\ t < write_head + n =>
             \E i \in 1..n : timeline'[t + 1] = input[i]
    <2> PICK u : u = timeline'
      OBVIOUS
    <2> PICK tl \in Seq(Int), wh \in Nat : tl = timeline /\ wh = write_head
      BY <1>4
    <2>1. u = tl \o input /\ Len(tl) = wh
      BY <1>1, <1>4
    <2>2. Grown(u, tl, input, wh, n)
      BY <2>1, TimelineAppended
    <2> QED
      BY <2>2 DEF Grown
  <1>6. \A t \in Nat : write_head <= t /\ t < write_head + n => timeline'[t + 1] # Gap
    BY <1>5
  <1>7. GapsUpTo(gaps, timeline', write_head)
    BY <1>4, <1>5 DEF GapsUpTo
  <1>8. SamplesStored'
    BY <1>1, <1>2, <1>3, <1>6 DEF SamplesStored
  <1> QED
    BY <1>1, <1>2, <1>3, <1>4, <1>5, <1>7, <1>8 DEF GapsInv

\* Gaps are marked before the head moves.
LEMMA AdvanceTimelineStep ==
    ASSUME GapsInv, advance_timeline
    PROVE  GapsInv'
  <1> PICK size \in AdvanceSizes :
         /\ job.step = "idle"
         /\ gaps' = MarkGaps(gaps, write_head % capacity, Lesser(size, capacity))
         /\ job' = [NoJob EXCEPT !.step = "stored", !.advance = size]
         /\ timeline' = timeline \o Gaps(size)
         /\ write_head' = write_head
    BY DEF advance_timeline, logical_to_ring_index
  <1>1. size \in Nat
    BY RingAssumption
  <1>2. job'.step = "stored" /\ job'.stored = <<>> /\ job'.advance = size
    BY DEF NoJob
  <1>3. /\ write_head \in Nat /\ BitmapInv(gaps) /\ timeline \in Seq(Int)
        /\ Len(timeline) = write_head /\ GapsUpTo(gaps, timeline, write_head)
    BY DEF GapsInv
  <1>4. Gaps(size) \in Seq(Int) /\ Len(Gaps(size)) = size /\ \A i \in 1..size : Gaps(size)[i] = Gap
    BY <1>1, FunctionSeq DEF Gaps, Gap
  <1>5. /\ timeline' \in Seq(Int) /\ Len(timeline') = write_head + size
        /\ \A t \in Nat : t < write_head => timeline'[t + 1] = timeline[t + 1]
        /\ \A t \in Nat : write_head <= t /\ t < write_head + size =>
             \E i \in 1..size : timeline'[t + 1] = Gaps(size)[i]
    <2> PICK u : u = timeline'
      OBVIOUS
    <2> PICK tl \in Seq(Int), wh \in Nat : tl = timeline /\ wh = write_head
      BY <1>3
    <2> PICK s \in Seq(Int) : s = Gaps(size)
      BY <1>4
    <2>1. u = tl \o s /\ Len(tl) = wh /\ Len(s) = size
      BY <1>3, <1>4
    <2>2. Grown(u, tl, s, wh, size)
      BY <1>1, <2>1, TimelineAppended
    <2> QED
      BY <2>2 DEF Grown
  <1>6. \A t \in Nat : write_head <= t /\ t < write_head + size => timeline'[t + 1] = Gap
    BY <1>4, <1>5
  <1>7. write_head % capacity \in 0..(capacity - 1) /\ Lesser(size, capacity) \in 0..capacity
    BY <1>1, <1>3, BitmapAssumption, DivMod DEF Lesser
  <1>8. /\ BitmapInv(gaps')
        /\ \A i \in 0..(capacity - 1) :
             i \in Marked(gaps')
               <=> i \in Marked(gaps) \/ i \in Lap(write_head % capacity, Lesser(size, capacity))
    BY <1>3, <1>7, MarkLap
  <1>9. GapsUpTo(gaps', timeline', write_head + size)
    BY <1>1, <1>3, <1>5, <1>6, <1>8, GapsAppended
  <1> QED
    BY <1>1, <1>2, <1>3, <1>5, <1>8, <1>9 DEF GapsInv

\* The slots under the samples of the call are cleared.
LEMMA CommitSlotsStep ==
    ASSUME GapsInv, CommitSlots
    PROVE  GapsInv'
  <1>1. /\ job.step = "stored"
        /\ job' = [job EXCEPT !.step = "committed"]
        /\ write_head' = write_head /\ timeline' = timeline
        /\ gaps' = LET phys == Len(job.stored)
                       head == write_head % capacity
                       first_len == Lesser(capacity - head, phys)
                   IN  unmark_region(unmark_region(gaps, head, first_len), 0, phys - first_len)
    BY DEF CommitSlots, logical_to_ring_index
  <1>2. job'.advance = job.advance /\ job'.step = "committed"
    BY <1>1
  <1>3. /\ write_head \in Nat /\ BitmapInv(gaps) /\ timeline \in Seq(Int)
        /\ job.advance \in Nat /\ Len(timeline) = write_head + job.advance
    BY DEF GapsInv
  <1>4. write_head % capacity \in 0..(capacity - 1)
    BY <1>3, BitmapAssumption, DivMod
  <1>5. CASE job.stored = <<>>
    <2>1. Len(job.stored) = 0
      BY <1>5
    <2>2. gaps' = gaps
      <3> PICK h \in 0..(capacity - 1) : h = write_head % capacity
        BY <1>4
      <3>1. Lesser(capacity - h, 0) = 0
        BY BitmapAssumption DEF Lesser
      <3> QED
        BY <1>1, <2>1, <3>1 DEF unmark_region
    <2>3. GapsUpTo(gaps, timeline, write_head + job.advance)
      BY <1>5 DEF GapsInv
    <2> QED
      BY <1>1, <1>2, <1>3, <2>2, <2>3 DEF GapsInv
  <1>6. CASE job.stored # <<>>
    <2>1. SamplesStored /\ GapsUpTo(gaps, timeline, write_head)
      BY <1>1, <1>6 DEF GapsInv
    <2>2. /\ Len(job.stored) = Lesser(job.advance, capacity)
          /\ Len(job.stored) \in 0..capacity
          /\ \A t \in Nat : write_head <= t /\ t < write_head + job.advance => timeline[t + 1] # Gap
      BY <1>3, <2>1, BitmapAssumption DEF SamplesStored, Lesser
    <2>3. /\ BitmapInv(gaps')
          /\ \A i \in 0..(capacity - 1) :
               i \in Marked(gaps')
                 <=> i \in Marked(gaps) /\ i \notin Lap(write_head % capacity, Len(job.stored))
      BY <1>1, <1>3, <1>4, <2>2, UnmarkLap
    <2>4. GapsUpTo(gaps', timeline, write_head + job.advance)
      BY <1>3, <2>1, <2>2, <2>3, SamplesAppended
    <2> QED
      BY <1>1, <1>2, <1>3, <2>3, <2>4 DEF GapsInv
  <1> QED
    BY <1>5, <1>6

\* The head moves to where the bitmap is already.
LEMMA AdvanceHeadStep ==
    ASSUME GapsInv, AdvanceHead
    PROVE  GapsInv'
  <1>1. /\ job.step = "committed"
        /\ write_head' = write_head + job.advance
        /\ job' = NoJob /\ gaps' = gaps /\ timeline' = timeline
    BY DEF AdvanceHead
  <1>2. job'.step = "idle" /\ job'.advance = 0
    BY <1>1 DEF NoJob
  <1>3. /\ write_head \in Nat /\ BitmapInv(gaps) /\ timeline \in Seq(Int)
        /\ job.advance \in Nat /\ Len(timeline) = write_head + job.advance
        /\ GapsUpTo(gaps, timeline, write_head + job.advance)
    BY <1>1 DEF GapsInv
  <1>4. write_head' \in Nat /\ write_head' + 0 = write_head'
    BY <1>1, <1>3
  <1> QED
    BY <1>1, <1>2, <1>3, <1>4 DEF GapsInv

\* A step that leaves the producer's state alone.
LEMMA ConsumerStep ==
    ASSUME GapsInv, UNCHANGED <<write_head, gaps, job, timeline>>
    PROVE  GapsInv'
  BY DEF GapsInv, SamplesStored

\* The invariant holds at first.
LEMMA GapsInit ==
    ASSUME Init
    PROVE  GapsInv
  <1>1. /\ write_head = 0 /\ timeline = <<>> /\ job.step = "idle" /\ job.advance = 0
        /\ gaps = NewBitmap
    BY DEF Init, NoJob
  <1>2. BitmapInv(gaps)
    BY <1>1 DEF BitmapInv, NewBitmap
  <1>3. timeline \in Seq(Int) /\ Len(timeline) = 0
    BY <1>1
  <1>4. GapsUpTo(gaps, timeline, 0)
    BY DEF GapsUpTo
  <1> QED
    BY <1>1, <1>2, <1>3, <1>4 DEF GapsInv

\* The bitmap follows the timeline in every step of the ring.
LEMMA GapsStep ==
    ASSUME GapsInv, [Next]_vars
    PROVE  GapsInv'
  <1>1. CASE write
    <2>1. PICK n \in WriteSizes : Store(Fresh(n))
      BY <1>1 DEF write
    <2>2. n \in Nat \ {0} /\ write_head \in Nat
      BY RingAssumption DEF GapsInv
    <2>3. /\ Fresh(n) \in Seq(Int) /\ Len(Fresh(n)) = n
          /\ \A i \in 1..n : Fresh(n)[i] # Gap
      BY <2>2, FunctionSeq DEF Fresh, Gap
    <2> QED
      BY <2>1, <2>2, <2>3, StoreStep
  <1>2. CASE write_default
    <2>1. PICK n \in DefaultSizes : Store(Silence(n))
      BY <1>2 DEF write_default
    <2>2. n \in Nat \ {0}
      BY RingAssumption
    <2>3. /\ Silence(n) \in Seq(Int) /\ Len(Silence(n)) = n
          /\ \A i \in 1..n : Silence(n)[i] # Gap
      BY <2>2, FunctionSeq DEF Silence, Gap, Default
    <2> QED
      BY <2>1, <2>2, <2>3, StoreStep
  <1>3. CASE advance_timeline
    BY <1>3, AdvanceTimelineStep
  <1>4. CASE CommitSlots
    BY <1>4, CommitSlotsStep
  <1>5. CASE AdvanceHead
    BY <1>5, AdvanceHeadStep
  <1>6. CASE \E n \in Requests, u \in BOOLEAN : iter_segments(n, u)
    BY <1>6, ConsumerStep DEF iter_segments
  <1>7. CASE NextOverflow
    BY <1>7, ConsumerStep DEF NextOverflow
  <1>8. CASE NextReadable
    BY <1>8, ConsumerStep DEF NextReadable
  <1>9. CASE CopySlice
    BY <1>9, ConsumerStep DEF CopySlice
  <1>10. CASE NextUnderflow
    BY <1>10, ConsumerStep DEF NextUnderflow
  <1>11. CASE DropIter
    BY <1>11, ConsumerStep DEF DropIter
  <1>12. CASE UNCHANGED vars
    BY <1>12, ConsumerStep DEF vars
  <1> QED
    BY <1>1, <1>2, <1>3, <1>4, <1>5, <1>6, <1>7, <1>8, <1>9, <1>10, <1>11, <1>12 DEF Next

\* Between two calls of the producer the bitmap is the timeline.
LEMMA GapsInvShows ==
    ASSUME GapsInv
    PROVE  GapsAreTimeline
  <1> SUFFICES ASSUME job.step = "idle",
                      NEW t \in saturating_sub(write_head, capacity)..(write_head - 1)
               PROVE  (logical_to_ring_index(t) \in Marked(gaps)) <=> (timeline[t + 1] = Gap)
    BY DEF GapsAreTimeline
  <1>1. write_head \in Nat /\ job.advance = 0 /\ write_head + 0 = write_head
        /\ GapsUpTo(gaps, timeline, write_head + job.advance)
    BY DEF GapsInv
  <1>2. t \in Nat /\ write_head <= t + capacity /\ t < write_head
    BY <1>1, BitmapAssumption DEF saturating_sub
  <1> QED
    BY <1>1, <1>2 DEF GapsUpTo, logical_to_ring_index

\* In every ring, of any capacity and any word width, for calls of any sizes: between
\* two calls of the producer the bitmap marks exactly the gaps of the last `capacity`
\* instants (mark_region, unmark_region and advance_timeline).
THEOREM BitmapFollowsTimeline == Spec => []GapsAreTimeline
  <1>1. Init => GapsInv
    BY GapsInit
  <1>2. GapsInv /\ [Next]_vars => GapsInv'
    BY GapsStep
  <1>3. GapsInv => GapsAreTimeline
    BY GapsInvShows
  <1> QED
    BY <1>1, <1>2, <1>3, PTL DEF Spec

-----------------------------------------------------------------------------
(* The search. *)

\* The least of a set of natural numbers.
LEMMA MinOfNat ==
    ASSUME NEW T \in SUBSET Nat, T # {}
    PROVE  Min(T) \in T /\ \A n \in T : Min(T) <= n
  BY LeastNatural DEF Min

\* A number that is in the set and below the others is its least.
LEMMA MinIs ==
    ASSUME NEW T \in SUBSET Nat, NEW m \in T, \A n \in T : m <= n
    PROVE  Min(T) = m
  <1>1. Min(T) \in T /\ Min(T) <= m
    BY MinOfNat
  <1> PICK k \in T : k = Min(T)
    BY <1>1
  <1>2. k <= m /\ m <= k
    BY <1>1
  <1> QED
    BY <1>2

\* The n numbers from i on are in the set and the next one is not.
Run(P, i, n) ==
    /\ \A p \in Nat : i <= p /\ p < i + n => p \in P
    /\ i + n \notin P

\* Ones counts the bits that are set up to the first that is not.
LEMMA OnesIsRun ==
    ASSUME NEW bits \in SUBSET Bit, NEW from \in 0..WordBits
    PROVE  Ones(bits, from) \in 0..(WordBits - from) /\ Run(bits, from, Ones(bits, from))
  <1> PICK w \in Nat \ {0} : w = WordBits
    BY BitmapAssumption
  <1> DEFINE T == {i \in from..w : i \notin bits}
  <1>1. w \in T /\ T \in SUBSET Nat
    BY DEF Bit
  <1> PICK m \in from..w : m = Min(T)
    BY <1>1, MinOfNat
  <1>2. m \in T /\ \A n \in T : m <= n
    BY <1>1, MinOfNat
  <1>3. Ones(bits, from) = m - from /\ m - from \in 0..(w - from) /\ from + (m - from) = m
    BY DEF Ones
  <1>4. \A p \in Nat : from <= p /\ p < m => p \in bits
    BY <1>2
  <1> HIDE DEF T
  <1> PICK k \in 0..(w - from) : k = m - from
    BY <1>3
  <1>5. m \notin bits
    BY <1>2 DEF T
  <1> QED
    BY <1>3, <1>4, <1>5 DEF Run

\* One step of the function Continued stands for.
More(word, last, f, w) ==
    IF w > last THEN 0
    ELSE IF word[w] = Bit THEN WordBits + f[w + 1]
    ELSE Ones(word[w], 0)

\* A function with these steps exists: it is filled in from the last word backwards.
LEMMA ContinuedExists ==
    ASSUME NEW word, NEW last \in Nat
    PROVE  \E g : g = [w \in Nat |-> More(word, last, g, w)]
  <1> DEFINE S == {n \in Nat : \E f : \A w \in Nat : w + n > last => f[w] = More(word, last, f, w)}
  <1>1. 0 \in S
    <2> DEFINE f == [w \in Nat |-> 0]
    <2>1. \A w \in Nat : w + 0 > last => f[w] = More(word, last, f, w)
      BY DEF More
    <2> QED
      BY <2>1
  <1>2. ASSUME NEW n \in Nat, n \in S
        PROVE  n + 1 \in S
    <2>1. PICK f : \A w \in Nat : w + n > last => f[w] = More(word, last, f, w)
      BY <1>2
    <2> DEFINE g == [w \in Nat |-> IF w + n > last THEN f[w] ELSE More(word, last, f, w)]
    <2>2. ASSUME NEW w \in Nat, w + (n + 1) > last
          PROVE  g[w] = More(word, last, g, w)
      <3>1. w + 1 \in Nat /\ (w + 1) + n > last
        BY <1>2, <2>2
      <3>2. g[w + 1] = f[w + 1]
        BY <3>1
      <3>3. g[w] = More(word, last, f, w)
        BY <2>1
      <3> QED
        BY <3>2, <3>3 DEF More
    <2> HIDE DEF g
    <2> QED
      BY <2>2
  <1>3. \A n \in Nat : n \in S
    <2> HIDE DEF S
    <2> QED
      BY <1>1, <1>2, SetInduction
  <1>4. PICK f : \A w \in Nat : w + (last + 1) > last => f[w] = More(word, last, f, w)
    BY <1>3
  <1>5. \A w \in Nat : f[w] = More(word, last, f, w)
    BY <1>4
  <1> DEFINE g == [w \in Nat |-> f[w]]
  <1>6. \A w \in Nat : More(word, last, g, w) = More(word, last, f, w)
    BY DEF More
  <1>7. g = [w \in Nat |-> More(word, last, g, w)]
    <2>1. g = [w \in Nat |-> More(word, last, f, w)]
      BY <1>5
    <2> HIDE DEF g
    <2> QED
      BY <2>1, <1>6
  <1> QED
    BY <1>7

\* The steps of Continued.
LEMMA ContinuedSteps ==
    ASSUME NEW word, NEW last \in Nat
    PROVE  \A w \in Nat : Continued(word, last)[w] = More(word, last, Continued(word, last), w)
  <1> DEFINE f == Continued(word, last)
  <1>1. f = CHOOSE h : h = [w \in Nat |-> IF w > last THEN 0
                                          ELSE IF word[w] = Bit THEN WordBits + h[w + 1]
                                          ELSE Ones(word[w], 0)]
    BY DEF Continued
  <1>2. \E h : h = [w \in Nat |-> IF w > last THEN 0
                                  ELSE IF word[w] = Bit THEN WordBits + h[w + 1]
                                  ELSE Ones(word[w], 0)]
    BY ContinuedExists DEF More
  <1> HIDE DEF f
  <1>3. f = [w \in Nat |-> IF w > last THEN 0
                           ELSE IF word[w] = Bit THEN WordBits + f[w + 1]
                           ELSE Ones(word[w], 0)]
    BY <1>1, <1>2
  <1>4. \A w \in Nat : f[w] = More(word, last, f, w)
    BY <1>3 DEF More
  <1> QED
    BY <1>4 DEF f

\* The words of a stretch, cut off at its ends, and the slots they stand for.
StretchWords(b, start, end) == [w \in Words |-> b.gap_bitmap[w] \cap Mask(w, start, end)]
Stretch(b, start, end) == {i \in start..(end - 1) : i \in Marked(b)}

\* A bit of a word is a slot of the stretch.
LEMMA WordBit ==
    ASSUME NEW b, BitmapInv(b), NEW start \in Nat, NEW len \in Nat \ {0}, start + len <= capacity,
           NEW w \in Words, NEW x \in Bit
    PROVE  x \in StretchWords(b, start, start + len)[w]
             <=> WordBits * w + x \in Stretch(b, start, start + len)
  <1> PICK n \in Nat \ {0} : n = WordBits
    BY BitmapAssumption
  <1>0. w \in Nat /\ x \in 0..(n - 1) /\ n * w \in Nat
    BY DEF Words, Bit
  <1> PICK i \in Nat, q \in Nat, r \in 0..(n - 1) : i = n * w + x /\ q = w /\ r = x
    BY <1>0
  <1>1. i \div n = w /\ i % n = x
    <2>1. i = n * q + r
      OBVIOUS
    <2>2. i % n = r /\ i \div n = q
      BY ONLY n \in Nat \ {0}, i \in Nat, q \in Nat, r \in 0..(n - 1), <2>1, ModUnique
    <2> QED
      BY <2>2
  <1>2. x \in Mask(w, start, start + len) <=> i \in start..(start + len - 1)
    BY <1>1, MaskIsRegion
  <1>3. i \in start..(start + len - 1) => i \in 0..(capacity - 1)
    BY BitmapAssumption
  <1>4. i \in start..(start + len - 1) => (i \in Marked(b) <=> x \in b.gap_bitmap[w])
    BY <1>1, <1>3 DEF Marked
  <1>5. x \in StretchWords(b, start, start + len)[w] <=> x \in b.gap_bitmap[w] /\ x \in Mask(w, start, start + len)
    BY DEF StretchWords
  <1> QED
    BY <1>2, <1>4, <1>5 DEF Stretch

\* Each slot of the stretch is a bit of a word.
LEMMA SlotBit ==
    ASSUME NEW b, BitmapInv(b), NEW start \in Nat, NEW len \in Nat \ {0}, start + len <= capacity,
           NEW i \in Stretch(b, start, start + len)
    PROVE  \E w \in Words, x \in Bit :
             i = WordBits * w + x /\ x \in StretchWords(b, start, start + len)[w]
  <1> PICK n \in Nat \ {0} : n = WordBits
    BY BitmapAssumption
  <1>1. i \in 0..(capacity - 1) /\ i \in Nat
    BY BitmapAssumption DEF Stretch
  <1>2. i \div n \in Words /\ i % n \in Bit /\ i = n * (i \div n) + (i % n)
    BY <1>1, WordOfSlot, DivMod
  <1> PICK w \in Words, x \in Bit : w = i \div n /\ x = i % n
    BY <1>2
  <1>3. i = WordBits * w + x
    BY <1>2
  <1>4. x \in StretchWords(b, start, start + len)[w]
    BY <1>3, WordBit
  <1> QED
    BY <1>3, <1>4

\* The words of a stretch have bits of a word only.
LEMMA WordsOfBits ==
    ASSUME NEW b, BitmapInv(b), NEW start \in Nat, NEW end \in Nat
    PROVE  \A w \in Words : StretchWords(b, start, end)[w] \in SUBSET Bit
  BY DEF StretchWords, BitmapInv

\* What Continued counts from the start of a word is a run of the stretch.
GoesOn(b, start, len, last, w) ==
    LET n == Continued(StretchWords(b, start, start + len), last)[w]
    IN  n \in Nat /\ Run(Stretch(b, start, start + len), WordBits * w, n)

\* Past the last word nothing goes on.
LEMMA NothingGoesOn ==
    ASSUME NEW b, BitmapInv(b), NEW start \in Nat, NEW len \in Nat \ {0}, start + len <= capacity,
           NEW last \in Nat, last = (start + len - 1) \div WordBits
    PROVE  GoesOn(b, start, len, last, last + 1)
  <1> PICK n \in Nat \ {0} : n = WordBits
    BY BitmapAssumption
  <1>1. last + 1 \in Nat /\ last + 1 > last
    OBVIOUS
  <1>2. Continued(StretchWords(b, start, start + len), last)[last + 1] = 0
    BY <1>1, ContinuedSteps DEF More
  <1> PICK e \in Nat : e = start + len - 1
    OBVIOUS
  <1>3. e = n * last + (e % n) /\ e % n \in 0..(n - 1)
    BY DivMod
  <1> PICK r \in 0..(n - 1) : r = e % n
    BY <1>3
  <1>4. n * (last + 1) = n * last + n
    OBVIOUS
  <1> PICK m \in Nat : m = n * (last + 1)
    OBVIOUS
  <1>5. m + 0 > e
    BY <1>3, <1>4
  <1>6. m + 0 \notin Stretch(b, start, start + len)
    BY <1>5 DEF Stretch
  <1>7. Run(Stretch(b, start, start + len), m, 0)
    BY <1>6 DEF Run
  <1> QED
    BY <1>2, <1>7 DEF GoesOn

\* Through a word it goes on as it does from the next one.
LEMMA GoesOnStep ==
    ASSUME NEW b, BitmapInv(b), NEW start \in Nat, NEW len \in Nat \ {0}, start + len <= capacity,
           NEW last \in Nat, last = (start + len - 1) \div WordBits,
           NEW w \in 0..last, GoesOn(b, start, len, last, w + 1)
    PROVE  GoesOn(b, start, len, last, w)
  <1> PICK n \in Nat \ {0} : n = WordBits
    BY BitmapAssumption
  <1> DEFINE word == StretchWords(b, start, start + len)
             P == Stretch(b, start, start + len)
             f == Continued(word, last)
  <1>0. last \in Words
    <2>1. start + len - 1 \in 0..(capacity - 1)
      BY BitmapAssumption
    <2> QED
      BY <2>1, WordOfSlot
  <1>1. w \in Words /\ w \in Nat /\ ~(w > last) /\ w + 1 \in Nat
    <2> PICK j \in Nat : j = capacity + n - 1
      BY BitmapAssumption
    <2> PICK k \in Nat : k = j \div n
      BY DivMod
    <2> PICK top \in Int : top = k - 1
      OBVIOUS
    <2>1. Words = 0..top
      BY DEF Words
    <2> QED
      BY <1>0, <2>1
  <1>2. f[w] = IF word[w] = Bit THEN n + f[w + 1] ELSE Ones(word[w], 0)
    BY <1>1, ContinuedSteps DEF More
  <1>3. word[w] \in SUBSET Bit
    BY <1>1, WordsOfBits
  <1>4. f[w + 1] \in Nat /\ Run(P, n * (w + 1), f[w + 1])
    BY DEF GoesOn
  <1>5. \A x \in 0..(n - 1) : x \in word[w] <=> n * w + x \in P
    BY <1>1, WordBit DEF Bit
  <1> HIDE DEF word, P, f
  <1> PICK m \in Nat : m = n * w
    BY <1>1
  <1>6. n * (w + 1) = m + n
    BY <1>1
  <1>7. CASE word[w] = Bit
    <2> PICK k \in Nat : k = f[w + 1]
      BY <1>4
    <2>1. f[w] = n + k /\ n + k \in Nat
      BY <1>2, <1>7
    <2>2. Run(P, m + n, k)
      BY <1>4, <1>6
    <2>3. \A x \in 0..(n - 1) : m + x \in P
      BY <1>5, <1>7 DEF Bit
    <2>4. ASSUME NEW p \in Nat, m <= p, p < m + (n + k)
          PROVE  p \in P
      <3>1. CASE p < m + n
        <4>1. p - m \in 0..(n - 1) /\ m + (p - m) = p
          BY <2>4, <3>1
        <4> QED
          BY <2>3, <4>1
      <3>2. CASE m + n <= p
        BY <2>2, <2>4, <3>2 DEF Run
      <3> QED
        BY <3>1, <3>2
    <2>5. m + (n + k) \notin P
      <3>1. m + (n + k) = m + n + k
        OBVIOUS
      <3> QED
        BY <2>2, <3>1 DEF Run
    <2>6. Run(P, m, n + k)
      BY <2>4, <2>5 DEF Run
    <2> QED
      BY <2>1, <2>6 DEF GoesOn, word, P, f
  <1>8. CASE word[w] # Bit
    <2> PICK k \in 0..n : k = Ones(word[w], 0) /\ Run(word[w], 0, k)
      BY <1>3, OnesIsRun
    <2>1. f[w] = k
      BY <1>2, <1>8
    <2>2. \A x \in 0..(k - 1) : x \in word[w]
      BY DEF Run
    <2>3. k # n
      <3>1. SUFFICES ASSUME k = n PROVE FALSE
        OBVIOUS
      <3>2. \A x \in Bit : x \in word[w]
        BY <2>2, <3>1 DEF Bit
      <3> QED
        BY <1>3, <1>8, <3>2
    <2>4. k \in 0..(n - 1) /\ k \notin word[w]
      <3>1. 0 + k = k
        OBVIOUS
      <3> QED
        BY <2>3, <3>1 DEF Run
    <2>5. m + k \notin P
      BY <1>5, <2>4
    <2>6. ASSUME NEW p \in Nat, m <= p, p < m + k
          PROVE  p \in P
      <3>1. p - m \in 0..(n - 1) /\ p - m \in 0..(k - 1) /\ m + (p - m) = p
        BY <2>6
      <3>2. p - m \in word[w]
        BY <2>2, <3>1
      <3> QED
        BY <1>5, <3>1, <3>2
    <2>7. Run(P, m, k)
      BY <2>5, <2>6 DEF Run
    <2> QED
      BY <2>1, <2>7 DEF GoesOn, word, P, f
  <1> QED
    BY <1>7, <1>8

\* What goes on from each word.
LEMMA GoesOnAll ==
    ASSUME NEW b, BitmapInv(b), NEW start \in Nat, NEW len \in Nat \ {0}, start + len <= capacity,
           NEW last \in Nat, last = (start + len - 1) \div WordBits
    PROVE  \A w \in 0..(last + 1) : GoesOn(b, start, len, last, w)
  <1> DEFINE S == {d \in Nat : d <= last + 1 => GoesOn(b, start, len, last, last + 1 - d)}
  <1>1. 0 \in S
    <2>1. last + 1 - 0 = last + 1
      OBVIOUS
    <2> QED
      BY <2>1, NothingGoesOn
  <1>2. ASSUME NEW d \in Nat, d \in S
        PROVE  d + 1 \in S
    <2>1. SUFFICES ASSUME d + 1 <= last + 1
                   PROVE  GoesOn(b, start, len, last, last + 1 - (d + 1))
      OBVIOUS
    <2>2. PICK w \in 0..last : w = last + 1 - (d + 1)
      BY <2>1
    <2>3. w + 1 = last + 1 - d /\ d <= last + 1
      BY <2>1, <2>2
    <2>4. GoesOn(b, start, len, last, w + 1)
      BY <1>2, <2>3
    <2> QED
      BY <2>2, <2>4, GoesOnStep
  <1>3. \A d \in Nat : d \in S
    <2> HIDE DEF S
    <2> QED
      BY <1>1, <1>2, SetInduction
  <1>4. ASSUME NEW w \in 0..(last + 1)
        PROVE  GoesOn(b, start, len, last, w)
    <2>1. last + 1 - w \in Nat /\ last + 1 - w <= last + 1 /\ last + 1 - (last + 1 - w) = w
      OBVIOUS
    <2>2. last + 1 - w \in S
      BY <1>3, <2>1
    <2> QED
      BY <2>1, <2>2
  <1> QED
    BY <1>4

\* r is the first run of numbers that are in P, or that there is none.
IsFirstRun(P, r) ==
    \/ P = {} /\ r = NoGap
    \/ \E i \in P, n \in Nat \ {0} : r = <<i, n>> /\ (\A p \in P : i <= p) /\ Run(P, i, n)

\* The first run, put together from the first word with a bit, its first bit, the run
\* in that word and what goes on from the next word.
LEMMA FirstRunOfWords ==
    ASSUME NEW n \in Nat \ {0}, NEW W \in SUBSET Nat, NEW word, NEW P \in SUBSET Nat,
           \A w \in W, x \in 0..(n - 1) : x \in word[w] <=> n * w + x \in P,
           \A i \in P : \E w \in W, x \in 0..(n - 1) : i = n * w + x /\ x \in word[w],
           \A w \in W : word[w] \in SUBSET (0..(n - 1)),
           NEW wi \in W, \A w \in W : word[w] # {} => wi <= w,
           NEW tz \in 0..(n - 1), tz \in word[wi], \A x \in word[wi] : tz <= x,
           NEW take \in 0..(n - tz), Run(word[wi], tz, take),
           NEW more \in Nat, Run(P, n * (wi + 1), more)
    PROVE  IsFirstRun(P, <<wi * n + tz, IF take < n - tz THEN take ELSE take + more>>)
  <1>0. wi \in Nat /\ tz \in 0..(n - 1) /\ word[wi] \in SUBSET (0..(n - 1))
    OBVIOUS
  <1> PICK m \in Nat : m = n * wi
    BY <1>0
  <1>1. wi * n = m /\ n * (wi + 1) = m + n
    BY <1>0
  <1>2. \A x \in 0..(n - 1) : x \in word[wi] <=> m + x \in P
    OBVIOUS
  <1>3. m + tz \in P
    BY <1>0, <1>2
  <1>4. ASSUME NEW p \in P
        PROVE  m + tz <= p
    <2>1. PICK w \in W, x \in 0..(n - 1) : p = n * w + x /\ x \in word[w]
      OBVIOUS
    <2>2. wi <= w /\ w \in Nat
      BY <2>1
    <2>3. CASE wi = w
      <3>1. tz <= x
        BY <2>1, <2>3
      <3>2. p = m + x
        BY <2>1, <2>3
      <3> QED
        BY <1>0, <3>1, <3>2
    <2>4. CASE wi # w
      <3>1. PICK d \in Nat : w = wi + 1 + d
        <4>1. w - wi - 1 \in Nat /\ w = wi + 1 + (w - wi - 1)
          BY <1>0, <2>2, <2>4
        <4> QED
          BY <4>1
      <3>2. n * w = m + n + n * d /\ n * d \in Nat
        BY <1>0, <3>1
      <3> PICK e \in Nat : e = n * d
        BY <3>2
      <3>3. p = m + n + e + x
        BY <2>1, <3>2
      <3>4. p \in Nat
        OBVIOUS
      <3> QED
        BY ONLY <3>3, <3>4, m \in Nat, n \in Nat, e \in Nat, x \in 0..(n - 1), tz \in 0..(n - 1)
    <2> QED
      BY <2>3, <2>4
  <1>5. take # 0
    <2>1. tz + 0 = tz /\ tz \in word[wi]
      BY <1>0
    <2> QED
      BY <2>1 DEF Run
  <1>6. \A x \in 0..(n - 1) : tz <= x /\ x < tz + take => m + x \in P
    BY <1>2 DEF Run
  <1>7. \A p \in Nat : m + tz <= p /\ p < m + tz + take => p \in P
    <2>1. ASSUME NEW p \in Nat, m + tz <= p, p < m + tz + take
          PROVE  p \in P
      <3>1. p - m \in 0..(n - 1) /\ tz <= p - m /\ p - m < tz + take /\ m + (p - m) = p
        BY <1>0, <2>1
      <3> PICK x \in 0..(n - 1) : x = p - m /\ tz <= x /\ x < tz + take /\ m + x = p
        BY ONLY <3>1
      <3>2. m + x \in P
        BY ONLY <1>6, x \in 0..(n - 1), tz <= x, x < tz + take
      <3> QED
        BY ONLY <3>2, m + x = p
    <2> QED
      BY <2>1
  <1>8. CASE take < n - tz
    <2>1. tz + take \in 0..(n - 1) /\ tz + take \notin word[wi]
      BY <1>0, <1>8 DEF Run
    <2>2. m + (tz + take) \notin P /\ m + (tz + take) = (m + tz) + take
      BY <1>0, <1>2, <2>1
    <2> PICK i \in P, k \in Nat \ {0} : i = m + tz /\ k = take
      BY <1>3, <1>5
    <2>3. Run(P, i, k)
      BY <1>7, <2>2 DEF Run
    <2>4. \A p \in P : i <= p
      BY <1>4
    <2>5. <<wi * n + tz, IF take < n - tz THEN take ELSE take + more>> = <<i, k>>
      BY <1>1, <1>8
    <2> QED
      BY <2>3, <2>4, <2>5 DEF IsFirstRun
  <1>9. CASE ~(take < n - tz)
    <2>1. m + tz + take = m + n /\ take + more \in Nat \ {0}
      BY ONLY <1>5, <1>9, m \in Nat, n \in Nat, tz \in 0..(n - 1), take \in 0..(n - tz), more \in Nat
    <2> PICK i \in P, k \in Nat \ {0} : i = m + tz /\ k = take + more
      BY <1>3, <2>1
    <2>2. Run(P, m + n, more)
      BY <1>1
    <2>3. ASSUME NEW p \in Nat, i <= p, p < i + k
          PROVE  p \in P
      <3>1. CASE p < m + n
        BY <1>0, <1>7, <2>1, <2>3, <3>1
      <3>2. CASE m + n <= p
        <4>1. p < m + n + more
          BY <1>0, <2>1, <2>3
        <4> QED
          BY <2>2, <3>2, <4>1 DEF Run
      <3> QED
        BY <3>1, <3>2
    <2>4. i + k = m + n + more
      BY <1>0, <2>1
    <2>5. Run(P, i, k)
      BY <2>2, <2>3, <2>4 DEF Run
    <2>6. \A p \in P : i <= p
      BY <1>4
    <2>7. <<wi * n + tz, IF take < n - tz THEN take ELSE take + more>> = <<i, k>>
      BY <1>1, <1>9
    <2> QED
      BY <2>5, <2>6, <2>7 DEF IsFirstRun
  <1> QED
    BY <1>8, <1>9

\* The search, given the words of the stretch.
SearchWords(b, start, len, word) ==
    LET end == start + len
        last == (end - 1) \div WordBits
        wi == Min({w \in Words : word[w] # {}})
        tz == Min(word[wi])
        take == Ones(word[wi], tz)
        more == Continued(word, last)
    IN  IF len = 0 \/ b.empty \/ \A w \in Words : word[w] = {} THEN NoGap
        ELSE <<wi * WordBits + tz,
               IF take < WordBits - tz THEN take ELSE take + more[wi + 1]>>

\* The search over the words of a stretch.
LEMMA SearchStretch ==
    ASSUME NEW b, BitmapInv(b), NEW start \in Nat, NEW len \in Nat, start + len <= capacity
    PROVE  IsFirstRun(Stretch(b, start, start + len), search_next_gap(b, start, len))
  <1> PICK n \in Nat \ {0} : n = WordBits
    BY BitmapAssumption
  <1> DEFINE word == StretchWords(b, start, start + len)
             P == Stretch(b, start, start + len)
             some == {w \in Words : word[w] # {}}
  <1>1. CASE len = 0
    <2>1. P = {}
      BY <1>1 DEF Stretch
    <2> QED
      BY <1>1, <2>1 DEF search_next_gap, IsFirstRun
  <1>2. CASE b.empty
    <2>1. P = {}
      BY <1>2, WordOfSlot DEF Stretch, Marked, BitmapInv
    <2> QED
      BY <1>2, <2>1 DEF search_next_gap, IsFirstRun
  <1>3. CASE len # 0 /\ ~b.empty /\ some = {}
    <2>1. \A w \in Words : word[w] = {}
      BY <1>3
    <2>2. P = {}
      BY <1>3, <2>1, SlotBit
    <2>3. search_next_gap(b, start, len) = NoGap
      BY <2>1 DEF search_next_gap, StretchWords
    <2> QED
      BY <2>2, <2>3 DEF IsFirstRun
  <1>4. CASE len # 0 /\ ~b.empty /\ some # {}
    <2>1. \A w \in Words : word[w] \in SUBSET (0..(n - 1))
      BY WordsOfBits DEF Bit
    <2>2. \A w \in Words, x \in 0..(n - 1) : x \in word[w] <=> n * w + x \in P
      BY <1>4, WordBit DEF Bit
    <2>3. \A i \in P : \E w \in Words, x \in 0..(n - 1) : i = n * w + x /\ x \in word[w]
      BY <1>4, SlotBit DEF Bit
    <2>4. P \in SUBSET Nat
      BY DEF Stretch
    <2>5. ~(\A w \in Words : word[w] = {})
      BY <1>4
    <2> PICK last \in Words : last = (start + len - 1) \div WordBits
      <3>1. start + len - 1 \in 0..(capacity - 1)
        BY <1>4, BitmapAssumption
      <3> QED
        BY <3>1, WordOfSlot
    <2>6. Words \in SUBSET Nat
      BY DEF Words
    <2>7. some \in SUBSET Nat
      BY <2>6
    <2> PICK wi \in Words : wi = Min(some) /\ wi \in some /\ \A w \in some : wi <= w
      BY <1>4, <2>7, MinOfNat
    <2>8. word[wi] # {} /\ \A w \in Words : word[w] # {} => wi <= w
      OBVIOUS
    <2> DEFINE first == word[wi]
    <2>9. first # {} /\ first \in SUBSET (0..(n - 1))
      BY <2>1, <2>8
    <2> PICK tz \in 0..(n - 1) : tz \in first /\ tz = Min(first) /\ \A x \in first : tz <= x
      <3> HIDE DEF first
      <3>1. first \in SUBSET Nat
        BY <2>9
      <3>2. Min(first) \in first /\ \A x \in first : Min(first) <= x
        BY <2>9, <3>1, MinOfNat
      <3>3. Min(first) \in 0..(n - 1)
        BY <2>9, <3>2
      <3> QED
        BY <3>2, <3>3
    <2>10. tz \in 0..WordBits /\ first \in SUBSET Bit
      <3> HIDE DEF first
      <3> QED
        BY <2>9 DEF Bit
    <2> PICK take \in 0..(n - tz) : take = Ones(first, tz) /\ Run(first, tz, take)
      <3> HIDE DEF first
      <3> QED
        BY <2>10, OnesIsRun
    <2>11. wi <= last
      <3>1. PICK x \in 0..(n - 1) : x \in word[wi]
        BY <2>9
      <3>2. x \in Mask(wi, start, start + len)
        BY <3>1 DEF StretchWords
      <3>3. wi \in (start \div WordBits)..last
        BY <3>2 DEF Mask
      <3> QED
        BY <3>3
    <2>12. GoesOn(b, start, len, last, wi + 1)
      <3>1. last \in Nat /\ wi \in Nat
        BY <2>6
      <3>2. \A w \in 0..(last + 1) : GoesOn(b, start, len, last, w)
        BY <1>4, <3>1, GoesOnAll
      <3> QED
        BY <2>11, <3>1, <3>2
    <2> PICK more \in Nat : more = Continued(word, last)[wi + 1] /\ Run(P, n * (wi + 1), more)
      BY <2>12 DEF GoesOn
    <2>13. search_next_gap(b, start, len)
             = <<wi * WordBits + tz, IF take < WordBits - tz THEN take ELSE take + more>>
      <3>1. search_next_gap(b, start, len) = SearchWords(b, start, len, word)
        BY DEF search_next_gap, SearchWords, StretchWords
      <3> HIDE DEF word
      <3> QED
        BY <1>4, <2>5, <3>1 DEF SearchWords
    <2>14. IsFirstRun(P, <<wi * n + tz, IF take < n - tz THEN take ELSE take + more>>)
      <3>1. Run(word[wi], tz, take) /\ tz \in word[wi] /\ \A x \in word[wi] : tz <= x
        OBVIOUS
      <3>2. Run(P, n * (wi + 1), more)
        OBVIOUS
      <3> HIDE DEF P, word, some, first
      <3> QED
        BY ONLY n \in Nat \ {0}, wi \in Words, tz \in 0..(n - 1), take \in 0..(n - tz), more \in Nat,
                <2>1, <2>2, <2>3, <2>4, <2>6, <2>8, <3>1, <3>2, FirstRunOfWords
    <2> QED
      BY <2>13, <2>14
  <1> QED
    BY <1>1, <1>2, <1>3, <1>4

\* What is searched in two stretches: H from time sa on, P from slot s on and Q from
\* slot 0 on.
Spliced(H, P, Q, sa, s, f, r) ==
    /\ H \in SUBSET (sa..(sa + f + r - 1))
    /\ P \in SUBSET (s..(s + f - 1))
    /\ Q \in SUBSET (0..(r - 1))
    /\ \A k \in 0..(f - 1) : sa + k \in H <=> s + k \in P
    /\ \A k \in 0..(r - 1) : sa + f + k \in H <=> k \in Q

\* Nothing in the first stretch: what the second one has is the first run.
LEMMA SplicedSecond ==
    ASSUME NEW H, NEW P, NEW Q, NEW sa \in Nat, NEW s \in Nat, NEW f \in Nat, NEW r \in Nat,
           Spliced(H, P, Q, sa, s, f, r), P = {},
           NEW j \in Q, NEW m \in Nat \ {0}, \A q \in Q : j <= q, Run(Q, j, m)
    PROVE  IsFirstRun(H, <<sa + f + j, m>>)
  <1>0. j \in 0..(r - 1) /\ \A q \in Q : q \in 0..(r - 1)
    BY DEF Spliced
  <1> PICK i \in Nat : i = sa + f + j
    BY <1>0
  <1>1. \A t \in H : t \in Nat /\ sa <= t /\ t < sa + f + r
    BY DEF Spliced
  <1>2. \A k \in 0..(f - 1) : sa + k \notin H
    BY DEF Spliced
  <1>3. \A k \in 0..(r - 1) : sa + f + k \in H <=> k \in Q
    BY DEF Spliced
  <1>4. i \in H
    BY <1>0, <1>3
  <1>5. ASSUME NEW t \in H
        PROVE  i <= t
    <2>1. CASE t < sa + f
      <3>1. t - sa \in 0..(f - 1) /\ sa + (t - sa) = t
        BY <1>1, <2>1
      <3> QED
        BY <1>2, <3>1
    <2>2. CASE sa + f <= t
      <3>1. t - sa - f \in 0..(r - 1) /\ sa + f + (t - sa - f) = t
        BY <1>1, <2>2
      <3>2. j <= t - sa - f
        BY <1>3, <3>1
      <3> QED
        BY <1>0, <1>1, <3>2
    <2> QED
      BY <1>1, <2>1, <2>2
  <1>6. ASSUME NEW p \in Nat, i <= p, p < i + m
        PROVE  p \in H
    <2>1. p - sa - f \in Nat /\ j <= p - sa - f /\ p - sa - f < j + m /\ sa + f + (p - sa - f) = p
      BY <1>0, <1>6
    <2>2. p - sa - f \in Q
      BY <2>1 DEF Run
    <2> QED
      BY <1>0, <1>3, <2>1, <2>2
  <1>7. i + m \notin H
    <2>1. SUFFICES ASSUME i + m \in H PROVE FALSE
      OBVIOUS
    <2>2. j + m \in 0..(r - 1) /\ sa + f + (j + m) = i + m
      BY <1>0, <1>1, <2>1
    <2>3. j + m \in Q
      BY <1>3, <2>1, <2>2
    <2> QED
      BY <2>3 DEF Run
  <1>8. Run(H, i, m)
    BY <1>6, <1>7 DEF Run
  <1> QED
    BY <1>4, <1>5, <1>8 DEF IsFirstRun

\* A run of m that begins at time i and slot j, below slot e, begins the first run of H.
Beginning(H, i, j, m, e) ==
    /\ i \in H /\ i \in Nat /\ j + m <= e
    /\ \A t \in H : i <= t
    /\ \A p \in Nat : i <= p /\ p < i + m => p \in H
    /\ j + m < e => i + m \notin H

\* What the first stretch has is the beginning of the first run.
LEMMA SplicedFirst ==
    ASSUME NEW H, NEW P, NEW Q, NEW sa \in Nat, NEW s \in Nat, NEW f \in Nat, NEW r \in Nat,
           Spliced(H, P, Q, sa, s, f, r),
           NEW j \in P, NEW m \in Nat \ {0}, \A q \in P : j <= q, Run(P, j, m)
    PROVE  Beginning(H, sa + j - s, j, m, s + f)
  <1>0. j \in s..(s + f - 1) /\ \A q \in P : q \in s..(s + f - 1)
    BY DEF Spliced
  <1> PICK i \in Nat : i = sa + j - s
    BY <1>0
  <1>1. \A t \in H : t \in Nat /\ sa <= t /\ t < sa + f + r
    BY DEF Spliced
  <1>2. \A k \in 0..(f - 1) : sa + k \in H <=> s + k \in P
    BY DEF Spliced
  <1>3. j - s \in 0..(f - 1) /\ s + (j - s) = j /\ sa + (j - s) = i
    BY <1>0
  <1>4. i \in H
    BY <1>2, <1>3
  <1>5. ASSUME NEW t \in H
        PROVE  i <= t
    <2>1. CASE t < sa + f
      <3>1. t - sa \in 0..(f - 1) /\ sa + (t - sa) = t
        BY <1>1, <2>1
      <3>2. s + (t - sa) \in P
        BY <1>2, <3>1
      <3>3. j <= s + (t - sa)
        BY <3>2
      <3> QED
        BY <1>0, <1>1, <3>3
    <2>2. CASE sa + f <= t
      BY <1>0, <1>1, <2>2
    <2> QED
      BY <1>1, <2>1, <2>2
  <1>6. j + m <= s + f
    <2>1. j + m - 1 \in Nat /\ j <= j + m - 1 /\ j + m - 1 < j + m
      BY <1>0
    <2>2. j + m - 1 \in P
      BY <2>1 DEF Run
    <2> QED
      BY <1>0, <2>2
  <1>7. ASSUME NEW p \in Nat, i <= p, p < i + m
        PROVE  p \in H
    <2>1. /\ p - sa + s \in Nat /\ j <= p - sa + s /\ p - sa + s < j + m
          /\ p - sa \in 0..(f - 1) /\ sa + (p - sa) = p /\ s + (p - sa) = p - sa + s
      BY <1>0, <1>6, <1>7
    <2>2. p - sa + s \in P
      BY <2>1 DEF Run
    <2> QED
      BY <1>2, <2>1, <2>2
  <1>8. ASSUME j + m < s + f
        PROVE  i + m \notin H
    <2>1. j + m - s \in 0..(f - 1) /\ s + (j + m - s) = j + m /\ sa + (j + m - s) = i + m
      BY <1>0, <1>8
    <2>2. j + m \notin P
      BY DEF Run
    <2> QED
      BY <1>2, <2>1, <2>2
  <1> QED
    BY <1>4, <1>5, <1>6, <1>7, <1>8 DEF Beginning

\* What the two stretches make.
Splice(sa, s, f, c, g1, g2) ==
    IF g1 # NoGap
    THEN <<sa + g1[1] - s,
           IF g1[1] + g1[2] = c /\ g2[1] = 0 THEN g1[2] + g2[2] ELSE g1[2]>>
    ELSE IF g2 # NoGap THEN <<sa + f + g2[1], g2[2]>>
    ELSE NoGap

\* The search in two stretches, which meet at slot c, finds the first run.
LEMMA SplicedSearch ==
    ASSUME NEW H, NEW P, NEW Q, NEW sa \in Nat, NEW s \in Nat, NEW f \in Nat, NEW r \in Nat,
           NEW c \in Nat, Spliced(H, P, Q, sa, s, f, r), s + f <= c, r # 0 => s + f = c,
           NEW g1, NEW g2, IsFirstRun(P, g1), IsFirstRun(Q, g2)
    PROVE  IsFirstRun(H, Splice(sa, s, f, c, g1, g2))
  <1>0. /\ \A t \in H : t \in Nat /\ sa <= t /\ t < sa + f + r
        /\ \A k \in 0..(f - 1) : sa + k \in H <=> s + k \in P
        /\ \A k \in 0..(r - 1) : sa + f + k \in H <=> k \in Q
        /\ Q \in SUBSET (0..(r - 1)) /\ P \in SUBSET (s..(s + f - 1))
    BY DEF Spliced
  <1>1. CASE P = {} /\ Q = {}
    <2>1. g1 = NoGap /\ g2 = NoGap
      BY <1>1 DEF IsFirstRun
    <2>2. ASSUME NEW t \in H
          PROVE  FALSE
      <3>1. CASE t < sa + f
        <4>1. t - sa \in 0..(f - 1) /\ sa + (t - sa) = t
          BY <1>0, <3>1
        <4> QED
          BY <1>0, <1>1, <4>1
      <3>2. CASE sa + f <= t
        <4>1. t - sa - f \in 0..(r - 1) /\ sa + f + (t - sa - f) = t
          BY <1>0, <3>2
        <4> QED
          BY <1>0, <1>1, <4>1
      <3> QED
        BY <1>0, <3>1, <3>2
    <2> QED
      BY <2>1, <2>2 DEF IsFirstRun, Splice
  <1>2. CASE P = {} /\ Q # {}
    <2>1. PICK j \in Q, m \in Nat \ {0} : g2 = <<j, m>> /\ (\A q \in Q : j <= q) /\ Run(Q, j, m)
      BY <1>2 DEF IsFirstRun
    <2>2. g1 = NoGap /\ g2 # NoGap /\ g2[1] = j /\ g2[2] = m
      BY <1>0, <1>2, <2>1 DEF IsFirstRun, NoGap
    <2>3. IsFirstRun(H, <<sa + f + j, m>>)
      BY <1>2, <2>1, SplicedSecond
    <2> QED
      BY <2>2, <2>3 DEF Splice
  <1>3. CASE P # {}
    <2>1. PICK j \in P, m \in Nat \ {0} : g1 = <<j, m>> /\ (\A q \in P : j <= q) /\ Run(P, j, m)
      BY <1>3 DEF IsFirstRun
    <2>2. g1 # NoGap /\ g1[1] = j /\ g1[2] = m
      BY <1>0, <2>1 DEF NoGap
    <2>6. Beginning(H, sa + j - s, j, m, s + f)
      BY <2>1, SplicedFirst
    <2> PICK i \in H : i = sa + j - s
      BY <2>6 DEF Beginning
    <2>3. /\ i \in Nat /\ j \in s..(s + f - 1) /\ j + m <= s + f
          /\ \A t \in H : i <= t
          /\ \A p \in Nat : i <= p /\ p < i + m => p \in H
          /\ j + m < s + f => i + m \notin H
      BY <1>0, <2>6 DEF Beginning
    <2>4. CASE j + m = c /\ g2[1] = 0
      <3>1. g2 # NoGap
        BY <2>4 DEF NoGap
      <3>2. PICK k \in Q, n \in Nat \ {0} : g2 = <<k, n>> /\ Run(Q, k, n)
        BY <3>1 DEF IsFirstRun
      <3>3. k = 0 /\ g2[2] = n
        BY <2>4, <3>2
      <3>4. s + f = c /\ i + m = sa + f /\ i \in Nat
        BY <2>3, <2>4
      <3>5. ASSUME NEW p \in Nat, i <= p, p < i + (m + n)
            PROVE  p \in H
        <4>1. CASE p < i + m
          BY <2>3, <3>5, <4>1
        <4>2. CASE i + m <= p
          <5>1. p - sa - f \in Nat /\ 0 <= p - sa - f /\ p - sa - f < 0 + n /\ sa + f + (p - sa - f) = p
            BY <3>4, <3>5, <4>2
          <5>2. p - sa - f \in Q
            BY <3>2, <3>3, <5>1 DEF Run
          <5> QED
            BY <1>0, <5>1, <5>2
        <4> QED
          BY <3>4, <4>1, <4>2
      <3>6. i + (m + n) \notin H
        <4>1. SUFFICES ASSUME i + (m + n) \in H PROVE FALSE
          OBVIOUS
        <4>2. n \in 0..(r - 1) /\ sa + f + n = i + (m + n)
          BY <1>0, <3>4, <4>1
        <4>3. n \in Q /\ 0 + n = n
          BY <1>0, <4>1, <4>2
        <4> QED
          BY <3>2, <3>3, <4>3 DEF Run
      <3>7. Run(H, i, m + n) /\ m + n \in Nat \ {0}
        BY <3>5, <3>6 DEF Run
      <3>8. IsFirstRun(H, <<i, m + n>>)
        BY <2>3, <3>7 DEF IsFirstRun
      <3> QED
        BY <2>2, <2>4, <3>3, <3>8 DEF Splice
    <2>5. CASE ~(j + m = c /\ g2[1] = 0)
      <3>0. i \in Nat /\ \A t \in H : i <= t
        BY <2>3
      <3>1. i + m \notin H
        <4>1. CASE j + m < s + f
          BY <2>3, <4>1
        <4>2. CASE j + m = s + f
          <5>1. SUFFICES ASSUME i + m \in H PROVE FALSE
            OBVIOUS
          <5>2. i + m = sa + f + 0 /\ 0 \in 0..(r - 1) /\ r # 0
            BY <1>0, <2>3, <4>2, <5>1
          <5>3. 0 \in Q /\ g2[1] # 0
            BY <1>0, <2>5, <4>2, <5>1, <5>2
          <5>4. PICK k \in Q, n \in Nat \ {0} : g2 = <<k, n>> /\ \A q \in Q : k <= q
            BY <5>3 DEF IsFirstRun
          <5>5. k <= 0 /\ k \in 0..(r - 1) /\ g2[1] = k
            BY <1>0, <5>3, <5>4
          <5> QED
            BY <5>3, <5>5
        <4> QED
          BY <1>0, <2>3, <4>1, <4>2
      <3>2. Run(H, i, m)
        BY <2>3, <3>1 DEF Run
      <3>3. IsFirstRun(H, <<i, m>>)
        BY <3>0, <3>2 DEF IsFirstRun
      <3> QED
        BY <2>2, <2>5, <3>3 DEF Splice
    <2> QED
      BY <2>4, <2>5
  <1> QED
    BY <1>1, <1>2, <1>3

\* The instants of a stretch of the timeline whose slots are marked.
Hits(start, len) == {t \in start..(start + len - 1) : (t % capacity) \in Marked(gaps)}

\* The search from any instant on, across the end of the ring, finds the first run of
\* marked slots.
LEMMA SearchTimeline ==
    ASSUME BitmapInv(gaps), NEW sa \in Nat, NEW len \in 0..capacity
    PROVE  IsFirstRun(Hits(sa, len), search_gap_abs(sa, len))
  <1> PICK c \in Nat \ {0} : c = capacity
    BY BitmapAssumption
  <1> PICK s \in 0..(c - 1) : s = sa % c
    BY DivMod
  <1> PICK f \in 0..len : f = Lesser(len, c - s)
    BY DEF Lesser
  <1>1. /\ len - f \in Nat /\ s + f <= c /\ (len - f # 0 => s + f = c) /\ 0 + (len - f) <= c
        /\ len \in Nat /\ f \in Nat /\ s \in Nat
    BY DEF Lesser
  <1> PICK r \in Nat : r = len - f
    BY <1>1
  <1>2. IsFirstRun(Stretch(gaps, s, s + f), search_next_gap(gaps, s, f))
    BY <1>1, SearchStretch
  <1>3. IsFirstRun(Stretch(gaps, 0, 0 + r), search_next_gap(gaps, 0, r))
    BY <1>1, SearchStretch
  <1>4. \A k \in 0..(c - 1) : (sa + k) % c = IF s + k < c THEN s + k ELSE s + k - c
    BY ModSteps
  <1>5. Spliced(Hits(sa, len), Stretch(gaps, s, s + f), Stretch(gaps, 0, 0 + r), sa, s, f, r)
    <2>1. Hits(sa, len) \in SUBSET (sa..(sa + f + r - 1))
      <3>1. sa + f + r = sa + len
        BY <1>1
      <3> QED
        BY <3>1 DEF Hits
    <2>2. /\ Stretch(gaps, s, s + f) \in SUBSET (s..(s + f - 1))
          /\ Stretch(gaps, 0, 0 + r) \in SUBSET (0..(r - 1))
      <3>1. 0 + r - 1 = r - 1
        OBVIOUS
      <3> QED
        BY <3>1 DEF Stretch
    <2>3. ASSUME NEW k \in 0..(f - 1)
          PROVE  sa + k \in Hits(sa, len) <=> s + k \in Stretch(gaps, s, s + f)
      <3>1. k \in 0..(c - 1) /\ s + k < c /\ sa + k \in sa..(sa + len - 1) /\ s + k \in s..(s + f - 1)
        BY ONLY c \in Nat, sa \in Nat, len \in Nat, f \in 0..len, s \in Nat, k \in 0..(f - 1), <1>1
      <3>2. (sa + k) % c = s + k
        BY <1>4, <3>1
      <3> QED
        BY <3>1, <3>2 DEF Hits, Stretch
    <2>4. ASSUME NEW k \in 0..(r - 1)
          PROVE  sa + f + k \in Hits(sa, len) <=> k \in Stretch(gaps, 0, 0 + r)
      <3>1. /\ f + k \in 0..(c - 1) /\ ~(s + (f + k) < c) /\ s + (f + k) - c = k
            /\ sa + (f + k) \in sa..(sa + len - 1) /\ sa + (f + k) = sa + f + k
            /\ k \in 0..(0 + r - 1)
        BY <1>1
      <3>2. (sa + (f + k)) % c = k
        BY <1>4, <3>1
      <3> QED
        BY <3>1, <3>2 DEF Hits, Stretch
    <2> QED
      BY <2>1, <2>2, <2>3, <2>4 DEF Spliced
  <1> PICK g1 : g1 = search_next_gap(gaps, s, f)
    OBVIOUS
  <1> PICK g2 : g2 = search_next_gap(gaps, 0, r)
    OBVIOUS
  <1>6. search_gap_abs(sa, len)
          = Splice(sa, s, f, c, g1, g2)
    BY DEF search_gap_abs, logical_to_ring_index, Splice
  <1> PICK H : H = Hits(sa, len)
    OBVIOUS
  <1> PICK P : P = Stretch(gaps, s, s + f)
    OBVIOUS
  <1> PICK Q : Q = Stretch(gaps, 0, 0 + r)
    OBVIOUS
  <1>7. Spliced(H, P, Q, sa, s, f, r) /\ IsFirstRun(P, g1) /\ IsFirstRun(Q, g2)
    BY <1>2, <1>3, <1>5
  <1>8. IsFirstRun(H, Splice(sa, s, f, c, g1, g2))
    BY <1>1, <1>7, SplicedSearch
  <1> QED
    BY <1>6, <1>8

\* The first run by its definition.
LEMMA FirstRunIsFirstGap ==
    ASSUME NEW start \in Nat, NEW len \in Nat, NEW r, IsFirstRun(Hits(start, len), r)
    PROVE  r = FirstGap(start, len)
  <1> DEFINE H == Hits(start, len)
             first == Min(H)
  <1>1. FirstGap(start, len)
          = IF H = {} THEN NoGap
            ELSE <<first, Min({t \in first..(start + len) : t \notin H}) - first>>
    BY DEF FirstGap, Hits, logical_to_ring_index
  <1>2. H \in SUBSET Nat /\ \A t \in H : start <= t /\ t < start + len
    BY DEF Hits
  <1>3. CASE H = {}
    BY <1>1, <1>3 DEF IsFirstRun
  <1>4. CASE H # {}
    <2>1. PICK i \in H, n \in Nat \ {0} : r = <<i, n>> /\ (\A p \in H : i <= p) /\ Run(H, i, n)
      BY <1>4 DEF IsFirstRun
    <2>2. first = i
      <3> HIDE DEF H
      <3> QED
        BY <1>2, <2>1, MinIs
    <2> HIDE DEF H, first
    <2>3. i \in Nat /\ i + n \in Nat /\ i + n <= start + len
      <3>1. i + n - 1 \in H
        <4>1. i \in Nat /\ i + n - 1 \in Nat /\ i <= i + n - 1 /\ i + n - 1 < i + n
          BY <1>2
        <4> QED
          BY <2>1, <4>1 DEF Run
      <3> QED
        BY <1>2, <3>1
    <2> DEFINE T == {t \in i..(start + len) : t \notin H}
    <2>4. T \in SUBSET Nat /\ i + n \in T
      BY <2>1, <2>3 DEF Run
    <2>5. \A t \in T : i + n <= t
      BY <2>1, <2>3 DEF Run
    <2>6. Min(T) = i + n
      <3> HIDE DEF T
      <3> QED
        BY <2>3, <2>4, <2>5, MinIs
    <2>7. FirstGap(start, len) = <<i, Min(T) - i>>
      BY <1>1, <1>4, <2>2
    <2> HIDE DEF T
    <2>8. Min(T) - i = n
      BY <2>3, <2>6
    <2>9. FirstGap(start, len) = <<i, n>>
      BY <2>7, <2>8
    <2> QED
      BY <2>1, <2>9
  <1> QED
    BY <1>3, <1>4

\* The search over words and across the end of the ring is exact.
LEMMA SearchShows ==
    ASSUME GapsInv
    PROVE  GapSearchExact
  <1>1. BitmapInv(gaps)
    BY DEF GapsInv
  <1> SUFFICES ASSUME NEW start \in 0..(capacity - 1), NEW len \in 0..capacity
               PROVE  search_gap_abs(start, len) = FirstGap(start, len)
    BY DEF GapSearchExact
  <1>2. start \in Nat /\ len \in Nat
    BY BitmapAssumption
  <1>3. IsFirstRun(Hits(start, len), search_gap_abs(start, len))
    BY <1>1, <1>2, SearchTimeline
  <1> QED
    BY <1>2, <1>3, FirstRunIsFirstGap

\* In every ring, of any capacity and any word width, and in every state of it: the
\* search over the words of the bitmap and across the end of the ring finds the first
\* run of marked slots, whole (search_next_gap and search_gap_abs).
THEOREM GapSearchCorrect == Spec => []GapSearchExact
  <1>1. Init => GapsInv
    BY GapsInit
  <1>2. GapsInv /\ [Next]_vars => GapsInv'
    BY GapsStep
  <1>3. GapsInv => GapSearchExact
    BY SearchShows
  <1> QED
    BY <1>1, <1>2, <1>3, PTL DEF Spec

-----------------------------------------------------------------------------
(* The consumer hears the timeline. *)

\* Before time h, the last instants have their samples in their slots and in the mirror.
HeldUpTo(r, tl, h) ==
    \A t \in Nat : t < h /\ Len(tl) <= t + capacity /\ tl[t + 1] # Gap =>
      r[t % capacity] = tl[t + 1] /\ r[(t % capacity) + capacity] = tl[t + 1]

\* Before they are mirrored, samples from slot h on go on past the end of the ring.
Straight(h, t) == IF h <= t % capacity THEN t % capacity ELSE (t % capacity) + capacity

\* The samples of the call are in the slots from the head on.
StoredFrom(r, tl, wh) ==
    \A t \in Nat : wh <= t /\ t < Len(tl) /\ Len(tl) <= t + capacity =>
      r[Straight(wh % capacity, t)] = tl[t + 1]

\* The ring holds what the timeline has.
RingInv ==
    /\ ring \in [Slot -> Nat]
    /\ job.step \in {"idle", "stored", "committed"}
    /\ IF job.step = "stored"
       THEN /\ HeldUpTo(ring, timeline, write_head)
            /\ IF job.stored = <<>>
               THEN \A t \in Nat : write_head <= t /\ t < write_head + job.advance => timeline[t + 1] = Gap
               ELSE StoredFrom(ring, timeline, write_head)
       ELSE HeldUpTo(ring, timeline, write_head + job.advance)

\* The time of what the consumer gets next.
Now == heard.at + Len(heard.items)

\* The producer has begun to reuse the slot of instant t.
Reused(t) == t + capacity < Len(timeline)

\* A slice in the consumer's hand has no gap in it, except where slots are reused.
SliceInv ==
    /\ Now + iter.len = read_head + iter.consumed
    /\ Now + iter.len = iter.cursor
    /\ iter.overflow = 0
    /\ iter.len <= capacity
    /\ \A t \in Nat : Now <= t /\ t < Now + iter.len =>
         t < iter.seen /\ (Reused(t) \/ timeline[t + 1] # Gap)

\* The consumer is where its segments say, and they cover what was asked for: lost
\* instants are a lap behind the snapshot, readable ones before it, late ones not.
IterInv ==
    /\ read_head \in Nat
    /\ heard \in [at : Nat, items : Seq(Int), seen : Nat]
    /\ iter \in [step : {"idle", "open", "slice"}, cursor : Nat, overflow : Nat,
                 readable : 0..capacity, underflow : Nat, consumed : Nat, seen : Nat, len : Nat]
    /\ iter.step = "idle" => Now = read_head
    /\ iter.step = "open" =>
         /\ Now = read_head + iter.consumed
         /\ iter.overflow > 0 \/ iter.readable > 0 \/ iter.underflow > 0 =>
              Now + iter.overflow = iter.cursor
    /\ iter.step = "slice" => SliceInv
    /\ iter.step # "idle" =>
         /\ iter.seen <= write_head
         /\ iter.overflow > 0 => iter.cursor + capacity <= iter.seen
         /\ iter.readable > 0 => iter.cursor + iter.readable <= iter.seen
         /\ iter.underflow > 0 => iter.seen <= iter.cursor + iter.readable

\* Slots outside a lap are outside it in the mirror too.
LEMMA OutsideLap ==
    ASSUME NEW h \in 0..(capacity - 1), NEW n \in 0..capacity, NEW x \in 0..(capacity - 1),
           x \notin Lap(h, n)
    PROVE  x \notin h..(h + n - 1) /\ x + capacity \notin h..(h + n - 1)
  <1> PICK c \in Nat \ {0} : c = capacity
    BY BitmapAssumption
  <1> QED
    BY DEF Lap, Lesser

\* The timelines u and tl agree before time wh.
SameBefore(u, tl, wh) == \A t \in Nat : t < wh => u[t + 1] = tl[t + 1]

\* The slots outside the lap of n instants from slot h on are the same.
Untouched(q, r, h, n) ==
    \A x \in 0..(capacity - 1) :
      x \notin Lap(h, n) => q[x] = r[x] /\ q[x + capacity] = r[x + capacity]

\* The ring keeps the last instants before a call that leaves the slots outside its lap
\* alone.
LEMMA HeldKept ==
    ASSUME NEW r, NEW q, NEW tl, NEW u, NEW wh \in Nat, NEW n \in Nat,
           HeldUpTo(r, tl, wh), Len(tl) = wh, Len(u) = wh + n,
           SameBefore(u, tl, wh), Untouched(q, r, wh % capacity, Lesser(n, capacity))
    PROVE  HeldUpTo(q, u, wh)
  <1> PICK c \in Nat \ {0} : c = capacity
    BY BitmapAssumption
  <1> SUFFICES ASSUME NEW t \in Nat, t < wh, Len(u) <= t + c, u[t + 1] # Gap
               PROVE  q[t % c] = u[t + 1] /\ q[(t % c) + c] = u[t + 1]
    BY DEF HeldUpTo
  <1>1. wh <= t + c /\ t < wh + c /\ n <= c /\ Len(tl) <= t + c
    OBVIOUS
  <1>2. Lesser(n, c) = n
    BY <1>1 DEF Lesser
  <1>3. t % c \in 0..(c - 1) /\ t % c \notin Lap(wh % c, n)
    <2>1. n \in 0..c /\ ~((wh <= t /\ t < wh + n) \/ t + c < wh + n)
      BY <1>1
    <2> QED
      BY <1>1, <2>1, SlotInLap
  <1>4. r[t % c] = tl[t + 1] /\ r[(t % c) + c] = tl[t + 1] /\ u[t + 1] = tl[t + 1]
    BY <1>1 DEF HeldUpTo, SameBefore
  <1> QED
    BY <1>2, <1>3, <1>4 DEF Untouched

\* Where the samples of a call go.
LEMMA StraightSlot ==
    ASSUME NEW wh \in Nat, NEW n \in Nat, NEW t \in Nat, wh <= t, t < wh + n, wh + n <= t + capacity
    PROVE  /\ t % capacity \in 0..(capacity - 1) /\ wh % capacity \in 0..(capacity - 1)
           /\ Straight(wh % capacity, t)
                \in (wh % capacity)..((wh % capacity) + Lesser(n, capacity) - 1)
           /\ n <= capacity => Straight(wh % capacity, t) = (wh % capacity) + (t - wh)
  <1> PICK c \in Nat \ {0} : c = capacity
    BY BitmapAssumption
  <1> PICK h \in 0..(c - 1), x \in 0..(c - 1) : h = wh % c /\ x = t % c
    BY DivMod
  <1>1. CASE n <= c
    <2> PICK k \in 0..(c - 1) : t = wh + k
      <3>1. t - wh \in 0..(c - 1) /\ t = wh + (t - wh)
        BY <1>1
      <3> QED
        BY <3>1
    <2>1. x = IF h + k < c THEN h + k ELSE h + k - c
      BY ModSteps
    <2>2. Straight(h, t) = h + k
      BY <2>1 DEF Straight
    <2>3. t - wh = k /\ k < n /\ Lesser(n, c) = n
      BY <1>1 DEF Lesser
    <2> QED
      BY <2>2, <2>3
  <1>2. CASE c < n
    <2>1. Lesser(n, c) = c
      BY <1>2 DEF Lesser
    <2>2. Straight(h, t) \in h..(h + c - 1)
      BY DEF Straight
    <2> QED
      BY <1>2, <2>1, <2>2
  <1> QED
    BY <1>1, <1>2

\* A call's samples of at most a lap, or all alike, are where their instants' slots are.
Alignable(input) ==
    Len(input) <= capacity \/ \A i, j \in 1..Len(input) : input[i] = input[j]

\* The last m elements of a sequence.
LEMMA LastOf ==
    ASSUME NEW s \in Seq(Nat), NEW n \in Nat, n = Len(s), NEW m \in 1..n
    PROVE  /\ Len(SubSeq(s, n - m + 1, n)) = m
           /\ \A i \in 1..m : n - m + i \in 1..n /\ SubSeq(s, n - m + 1, n)[i] = s[n - m + i]
           /\ \A i \in 1..n : s[i] \in Nat
  <1> PICK k \in Nat : k = n - m
    <2>1. n - m \in Nat
      BY ONLY n \in Nat, m \in 1..n
    <2> QED
      BY <2>1
  <1>1. \A i \in 1..n : s[i] \in Nat
    BY ElementOfSeq
  <1>2. \A i \in (k + 1)..n : s[i] \in Nat
    BY <1>1
  <1>3. k + 1 \in Int /\ n \in Int /\ k + 1 <= n /\ n - (k + 1) + 1 = m
    OBVIOUS
  <1>4. /\ Len(SubSeq(s, k + 1, n)) = IF k + 1 <= n THEN n - (k + 1) + 1 ELSE 0
        /\ \A i \in 1..(n - (k + 1) + 1) : SubSeq(s, k + 1, n)[i] = s[(k + 1) + i - 1]
    BY <1>2, <1>3, SubSeqProperties
  <1>5. \A i \in 1..m : (k + 1) + i - 1 = k + i /\ k + i \in 1..n
    BY ONLY n \in Nat, m \in 1..n, k \in Nat, k = n - m
  <1> QED
    BY <1>1, <1>3, <1>4, <1>5

\* The slots after a store of m samples, the last of n, from slot h on.
StoredAt(q, r, input, h, n, m) ==
    /\ q \in [Slot -> Nat]
    /\ \A k \in 0..(m - 1) : q[h + k] = input[n - m + k + 1]
    /\ Untouched(q, r, h, m)

\* What a store does to the slots.
LEMMA SlotsStored ==
    ASSUME NEW h \in 0..(capacity - 1), NEW n \in Nat, NEW m \in 1..n, m <= capacity,
           NEW src, NEW input, NEW r \in [Slot -> Nat],
           \A i \in 1..m : n - m + i \in 1..n /\ src[i] = input[n - m + i],
           \A i \in 1..n : input[i] \in Nat,
           NEW q, q = [s \in Slot |-> IF s \in h..(h + m - 1) THEN src[s - h + 1] ELSE r[s]]
    PROVE  StoredAt(q, r, input, h, n, m)
  <1> PICK c \in Nat \ {0} : c = capacity
    BY BitmapAssumption
  <1>1. \A s \in h..(h + m - 1) : s - h + 1 \in 1..m
    OBVIOUS
  <1>2. \A s \in h..(h + m - 1) : src[s - h + 1] \in Nat
    BY <1>1
  <1>3. q \in [Slot -> Nat]
    BY <1>2
  <1>4. ASSUME NEW k \in 0..(m - 1)
        PROVE  q[h + k] = input[n - m + k + 1]
    <2>1. h + k \in Slot /\ h + k \in h..(h + m - 1) /\ h + k - h + 1 = k + 1 /\ k + 1 \in 1..m
          /\ n - m + (k + 1) = n - m + k + 1
      BY DEF Slot
    <2> QED
      BY <2>1
  <1>5. ASSUME NEW x \in 0..(c - 1), x \notin Lap(h, m)
        PROVE  q[x] = r[x] /\ q[x + c] = r[x + c]
    <2>1. m \in 0..c
      OBVIOUS
    <2>2. x \notin h..(h + m - 1) /\ x + c \notin h..(h + m - 1)
      BY <1>5, <2>1, OutsideLap
    <2>3. x \in Slot /\ x + c \in Slot
      BY DEF Slot
    <2> QED
      BY <2>2, <2>3
  <1> QED
    BY <1>3, <1>4, <1>5 DEF StoredAt, Untouched

\* u is the timeline tl, as long as wh, and then the n samples of s.
Extended(u, tl, s, wh, n) ==
    /\ Len(u) = wh + n
    /\ SameBefore(u, tl, wh)
    /\ \A k \in 0..(n - 1) : u[wh + k + 1] = s[k + 1]

\* What the append of samples does to the timeline.
LEMMA SamplesExtend ==
    ASSUME NEW tl \in Seq(Int), NEW s \in Seq(Nat), NEW wh \in Nat, Len(tl) = wh,
           NEW n \in Nat, Len(s) = n, NEW u, u = tl \o s
    PROVE  Extended(u, tl, s, wh, n)
  <1>1. s \in Seq(Int)
    <2>1. \A i \in 1..n : s[i] \in Int
      <3>1. \A i \in 1..n : s[i] \in Nat
        BY ElementOfSeq
      <3> QED
        BY <3>1
    <2>2. s = [i \in 1..n |-> s[i]]
      BY LenProperties
    <2>3. s \in [1..n -> Int]
      BY <2>1, <2>2
    <2> QED
      BY <2>3, FunctionSeq
  <1>2. Joined(u, tl, s)
    BY <1>1, JoinSeq
  <1>3. Len(u) = wh + n /\ (\A i \in 1..wh : u[i] = tl[i]) /\ \A i \in 1..n : u[wh + i] = s[i]
    BY <1>2 DEF Joined
  <1>4. \A t \in Nat : t < wh => u[t + 1] = tl[t + 1]
    BY <1>3
  <1>5. ASSUME NEW k \in 0..(n - 1)
        PROVE  u[wh + k + 1] = s[k + 1]
    <2>1. k + 1 \in 1..n /\ wh + (k + 1) = wh + k + 1
      OBVIOUS
    <2> QED
      BY <1>3, <2>1
  <1> QED
    BY <1>3, <1>4, <1>5 DEF Extended, SameBefore

\* Where a store puts the samples that are new on the timeline.
LEMMA StoredWhereDue ==
    ASSUME NEW q, NEW r, NEW input, NEW u, NEW tl, NEW wh \in Nat, NEW n \in Nat \ {0}, n = Len(input),
           StoredAt(q, r, input, wh % capacity, n, Lesser(n, capacity)),
           Extended(u, tl, input, wh, n), Alignable(input)
    PROVE  StoredFrom(q, u, wh)
  <1> PICK c \in Nat \ {0} : c = capacity
    BY BitmapAssumption
  <1> PICK h \in 0..(c - 1) : h = wh % c
    BY DivMod
  <1> PICK m \in 1..n : m = Lesser(n, c)
    BY DEF Lesser
  <1>1. Len(u) = wh + n
    BY DEF Extended
  <1> SUFFICES ASSUME NEW t \in Nat, wh <= t, t < wh + n, wh + n <= t + c
               PROVE  q[Straight(h, t)] = u[t + 1]
    BY <1>1 DEF StoredFrom
  <1>2. Straight(h, t) \in h..(h + m - 1) /\ (n <= c => Straight(h, t) = h + (t - wh))
    BY StraightSlot
  <1> PICK k \in 0..(m - 1) : Straight(h, t) = h + k
    <2> PICK s \in h..(h + m - 1) : s = Straight(h, t)
      BY <1>2
    <2>1. s - h \in 0..(m - 1) /\ s = h + (s - h)
      OBVIOUS
    <2> QED
      BY <2>1
  <1>3. q[h + k] = input[n - m + k + 1]
    BY DEF StoredAt
  <1> PICK j \in 0..(n - 1) : t = wh + j
    <2>1. t - wh \in 0..(n - 1) /\ t = wh + (t - wh)
      OBVIOUS
    <2> QED
      BY <2>1
  <1>4. u[wh + j + 1] = input[j + 1]
    BY DEF Extended
  <1>5. CASE n <= c
    <2>1. m = n /\ k = j
      BY <1>2, <1>5 DEF Lesser
    <2>2. n - m + k + 1 = j + 1
      BY <2>1
    <2> QED
      BY <1>3, <1>4, <2>2
  <1>6. CASE ~(n <= c)
    <2>1. \A i, l \in 1..n : input[i] = input[l]
      BY <1>6 DEF Alignable
    <2>2. n - m + k + 1 \in 1..n /\ j + 1 \in 1..n
      OBVIOUS
    <2> QED
      BY <1>3, <1>4, <2>1, <2>2
  <1> QED
    BY <1>5, <1>6

\* The samples of a call go to the ring.
LEMMA RingStoreStep ==
    ASSUME NEW input \in Seq(Nat), Len(input) # 0, Alignable(input),
           GapsInv, RingInv, Store(input)
    PROVE  RingInv'
  <1> PICK n \in Nat \ {0} : n = Len(input)
    BY LenProperties
  <1> PICK c \in Nat \ {0} : c = capacity
    BY BitmapAssumption
  <1> PICK m \in 1..n : m = Lesser(n, c) /\ m <= c
    BY DEF Lesser
  <1> PICK src : src = SubSeq(input, n - m + 1, n)
    OBVIOUS
  <1> PICK wh \in Nat : wh = write_head
    BY DEF GapsInv
  <1> PICK h \in 0..(c - 1) : h = wh % c
    BY DivMod
  <1>1. /\ job.step = "idle"
        /\ ring' = [s \in Slot |-> IF s \in h..(h + m - 1) THEN src[s - h + 1] ELSE ring[s]]
        /\ job' = [step |-> "stored", stored |-> src, advance |-> n]
        /\ timeline' = timeline \o input
        /\ write_head' = write_head
    BY DEF Store, logical_to_ring_index
  <1>2. job'.step = "stored" /\ job'.stored = src /\ job'.advance = n
    BY <1>1
  <1>10. timeline \in Seq(Int) /\ Len(timeline) = wh
    <2>1. timeline \in Seq(Int) /\ Len(timeline) = write_head + job.advance /\ job.advance = 0
      BY <1>1 DEF GapsInv
    <2> QED
      BY ONLY <2>1, wh \in Nat, wh = write_head
  <1> PICK tl \in Seq(Int) : tl = timeline /\ Len(tl) = wh
    BY <1>10
  <1> PICK r \in [Slot -> Nat] : r = ring /\ HeldUpTo(r, tl, wh)
    <2>1. ring \in [Slot -> Nat] /\ HeldUpTo(ring, timeline, write_head + job.advance)
      BY <1>1 DEF RingInv
    <2>2. job.advance = 0
      BY <1>1 DEF GapsInv
    <2>3. write_head + job.advance = wh
      BY ONLY <2>2, wh \in Nat, wh = write_head
    <2> QED
      BY <2>1, <2>3
  <1> PICK u : u = timeline'
    OBVIOUS
  <1> PICK q : q = ring'
    OBVIOUS
  <1>3. /\ Len(src) = m
        /\ \A i \in 1..m : n - m + i \in 1..n /\ src[i] = input[n - m + i]
        /\ \A i \in 1..n : input[i] \in Nat
    <2>1. /\ Len(SubSeq(input, n - m + 1, n)) = m
          /\ \A i \in 1..m : n - m + i \in 1..n /\ SubSeq(input, n - m + 1, n)[i] = input[n - m + i]
          /\ \A i \in 1..n : input[i] \in Nat
      BY ONLY input \in Seq(Nat), n \in Nat, n = Len(input), m \in 1..n, LastOf
    <2> QED
      BY ONLY <2>1, src = SubSeq(input, n - m + 1, n)
  <1>4. src # <<>>
    <2>1. Len(<<>>) = 0
      OBVIOUS
    <2> QED
      BY <1>3, <2>1
  <1>5. StoredAt(q, r, input, h, n, m)
    <2>1. q = [s \in Slot |-> IF s \in h..(h + m - 1) THEN src[s - h + 1] ELSE r[s]]
      BY <1>1
    <2> QED
      BY ONLY <1>3, <2>1, SlotsStored, h \in 0..(c - 1), n \in Nat \ {0}, m \in 1..n, c = capacity,
              r \in [Slot -> Nat], m = Lesser(n, c) /\ m <= c
  <1>6. Extended(u, tl, input, wh, n)
    BY <1>1, SamplesExtend
  <1>7. StoredFrom(q, u, wh)
    BY <1>5, <1>6, StoredWhereDue
  <1>8. HeldUpTo(q, u, wh)
    <2>1. Len(u) = wh + n /\ SameBefore(u, tl, wh)
      BY <1>6 DEF Extended
    <2>2. Untouched(q, r, wh % capacity, Lesser(n, capacity))
      BY <1>5 DEF StoredAt
    <2> QED
      BY <2>1, <2>2, HeldKept
  <1>9. q \in [Slot -> Nat]
    BY <1>5 DEF StoredAt
  <1> QED
    BY <1>1, <1>2, <1>4, <1>7, <1>8, <1>9 DEF RingInv

\* Gaps are put on the timeline: the ring stays as it is.
LEMMA RingAdvanceTimelineStep ==
    ASSUME GapsInv, RingInv, advance_timeline
    PROVE  RingInv'
  <1> PICK size \in AdvanceSizes :
         /\ job.step = "idle"
         /\ job' = [NoJob EXCEPT !.step = "stored", !.advance = size]
         /\ timeline' = timeline \o Gaps(size)
         /\ write_head' = write_head /\ ring' = ring
    BY DEF advance_timeline
  <1>1. size \in Nat
    BY RingAssumption
  <1>2. job'.step = "stored" /\ job'.stored = <<>> /\ job'.advance = size
    BY DEF NoJob
  <1> PICK wh \in Nat : wh = write_head
    BY DEF GapsInv
  <1>3. /\ timeline \in Seq(Int) /\ Len(timeline) = wh /\ job.advance = 0
        /\ ring \in [Slot -> Nat] /\ HeldUpTo(ring, timeline, wh)
    BY DEF GapsInv, RingInv
  <1>4. Gaps(size) \in Seq(Int) /\ Len(Gaps(size)) = size /\ \A i \in 1..size : Gaps(size)[i] = Gap
    BY <1>1, FunctionSeq DEF Gaps, Gap
  <1> PICK u : u = timeline'
    OBVIOUS
  <1>5. Grown(u, timeline, Gaps(size), wh, size)
    <2> PICK tl \in Seq(Int), s \in Seq(Int) : tl = timeline /\ s = Gaps(size)
      BY <1>3, <1>4
    <2>1. u = tl \o s /\ Len(tl) = wh /\ Len(s) = size
      BY <1>3, <1>4
    <2>2. Grown(u, tl, s, wh, size)
      BY <1>1, <2>1, TimelineAppended
    <2> QED
      BY <2>2
  <1>6. /\ Len(u) = wh + size
        /\ \A t \in Nat : t < wh => u[t + 1] = timeline[t + 1]
        /\ \A t \in Nat : wh <= t /\ t < wh + size => u[t + 1] = Gap
    BY <1>4, <1>5 DEF Grown
  <1>7. HeldUpTo(ring, u, wh)
    <2> PICK r, tl : r = ring /\ tl = timeline
      OBVIOUS
    <2>1. SameBefore(u, tl, wh) /\ Len(tl) = wh /\ Len(u) = wh + size /\ HeldUpTo(r, tl, wh)
      BY <1>3, <1>6 DEF SameBefore
    <2>2. Untouched(r, r, wh % capacity, Lesser(size, capacity))
      BY DEF Untouched
    <2>3. HeldUpTo(r, u, wh)
      BY <1>1, <2>1, <2>2, HeldKept
    <2> QED
      BY <2>3
  <1> QED
    BY <1>2, <1>3, <1>6, <1>7 DEF RingInv

\* The samples of the call are mirrored.
LEMMA RingCommitSlotsStep ==
    ASSUME GapsInv, RingInv, CommitSlots
    PROVE  RingInv'
  <1> PICK c \in Nat \ {0} : c = capacity
    BY BitmapAssumption
  <1> PICK wh \in Nat, n \in Nat : wh = write_head /\ n = job.advance
    BY DEF GapsInv
  <1> PICK h \in 0..(c - 1) : h = wh % c
    BY DivMod
  <1>1. /\ job.step = "stored"
        /\ job' = [job EXCEPT !.step = "committed"]
        /\ write_head' = write_head /\ timeline' = timeline
        /\ ring' = Mirrored(h, Len(job.stored))
    BY DEF CommitSlots, logical_to_ring_index
  <1>2. job'.advance = job.advance /\ job'.step = "committed"
    BY <1>1
  <1>3. /\ ring \in [Slot -> Nat] /\ HeldUpTo(ring, timeline, wh)
        /\ timeline \in Seq(Int) /\ Len(timeline) = wh + n
    BY <1>1 DEF GapsInv, RingInv
  <1> PICK phys \in 0..c : phys = Len(job.stored) /\ (job.stored # <<>> => phys = Lesser(n, c))
                           /\ (job.stored = <<>> => phys = 0)
    <2>1. CASE job.stored = <<>>
      <3>1. Len(job.stored) = 0
        BY <2>1
      <3> QED
        BY <2>1, <3>1
    <2>2. CASE job.stored # <<>>
      <3>1. Len(job.stored) = Lesser(n, c)
        BY <1>1, <2>2 DEF GapsInv, SamplesStored
      <3>2. Lesser(n, c) \in 0..c
        BY DEF Lesser
      <3> QED
        BY <2>2, <3>1, <3>2
    <2> QED
      BY <2>1, <2>2
  <1>4. ring' \in [Slot -> Nat]
    <2>1. \A s \in Slot : s >= c => s - c \in Slot
      BY DEF Slot
    <2>2. \A s \in Slot : s < c => s + c \in Slot
      BY DEF Slot
    <2> QED
      BY <1>1, <1>3, <2>1, <2>2 DEF Mirrored
  <1>5. \A x \in 0..(c - 1) :
          /\ ring'[x] = IF x + c \in h..(h + phys - 1) THEN ring[x + c] ELSE ring[x]
          /\ ring'[x + c] = IF x \in h..(h + phys - 1) THEN ring[x] ELSE ring[x + c]
    <2> SUFFICES ASSUME NEW x \in 0..(c - 1)
                 PROVE  /\ ring'[x] = IF x + c \in h..(h + phys - 1) THEN ring[x + c] ELSE ring[x]
                        /\ ring'[x + c] = IF x \in h..(h + phys - 1) THEN ring[x] ELSE ring[x + c]
      OBVIOUS
    <2>1. x \in Slot /\ x + c \in Slot /\ ~(x >= c) /\ x < c /\ x + c >= c /\ ~(x + c < c) /\ x + c - c = x
      BY DEF Slot
    <2> QED
      BY <1>1, <2>1 DEF Mirrored
  <1>6. ASSUME NEW t \in Nat, t < wh + n, wh + n <= t + c, timeline[t + 1] # Gap
        PROVE  ring'[t % c] = timeline[t + 1] /\ ring'[(t % c) + c] = timeline[t + 1]
    <2> PICK x \in 0..(c - 1) : x = t % c
      BY DivMod
    <2>1. CASE t < wh
      <3>1. ring[x] = timeline[t + 1] /\ ring[x + c] = timeline[t + 1]
        <4>1. Len(timeline) <= t + capacity
          BY <1>3, <1>6
        <4> QED
          BY <1>3, <1>6, <2>1, <4>1 DEF HeldUpTo
      <3>2. x \notin Lap(h, phys)
        <4>1. wh <= t + c /\ t < wh + c /\ ~(t + c < wh + n) /\ n <= c
          BY ONLY wh + n <= t + c, t < wh, t \in Nat, c \in Nat \ {0}, wh \in Nat, n \in Nat
        <4>2. phys = n \/ phys = 0
          <5>1. Lesser(n, c) = n
            BY ONLY <4>1, n \in Nat, c \in Nat DEF Lesser
          <5> QED
            BY ONLY <5>1, (job.stored # <<>> => phys = Lesser(n, c)) /\ (job.stored = <<>> => phys = 0)
        <4>3. ~((wh <= t /\ t < wh + phys) \/ t + c < wh + phys)
          BY ONLY <4>1, <4>2, t < wh, t \in Nat, c \in Nat, wh \in Nat, n \in Nat
        <4> QED
          BY <4>1, <4>3, SlotInLap
      <3>3. x \notin h..(h + phys - 1) /\ x + c \notin h..(h + phys - 1)
        BY <3>2, OutsideLap
      <3> QED
        BY <1>5, <3>1, <3>3
    <2>2. CASE wh <= t
      <3>1. job.stored # <<>>
        BY <1>1, <1>6, <2>2 DEF RingInv
      <3>2. StoredFrom(ring, timeline, wh) /\ phys = Lesser(n, c)
        BY <1>1, <3>1 DEF RingInv
      <3>3. ring[Straight(h, t)] = timeline[t + 1]
        BY <1>3, <1>6, <2>2, <3>2 DEF StoredFrom
      <3>4. Straight(h, t) \in h..(h + phys - 1)
        BY <1>6, <2>2, <3>2, StraightSlot
      <3>5. CASE h <= x
        <4>1. Straight(h, t) = x /\ x + c \notin h..(h + phys - 1) /\ x \in h..(h + phys - 1)
          BY <3>4, <3>5 DEF Straight
        <4> QED
          BY <1>5, <3>3, <4>1
      <3>6. CASE x < h
        <4>1. Straight(h, t) = x + c /\ x \notin h..(h + phys - 1) /\ x + c \in h..(h + phys - 1)
          BY <3>4, <3>6 DEF Straight
        <4> QED
          BY <1>5, <3>3, <4>1
      <3> QED
        BY <3>5, <3>6
    <2> QED
      BY <2>1, <2>2
  <1>7. HeldUpTo(ring', timeline, wh + n)
    BY <1>3, <1>6 DEF HeldUpTo
  <1> QED
    BY <1>1, <1>2, <1>4, <1>7 DEF RingInv

\* The head moves.
LEMMA RingAdvanceHeadStep ==
    ASSUME GapsInv, RingInv, AdvanceHead
    PROVE  RingInv'
  <1>1. /\ job.step = "committed"
        /\ write_head' = write_head + job.advance
        /\ job' = NoJob /\ ring' = ring /\ timeline' = timeline
    BY DEF AdvanceHead
  <1>2. job'.step = "idle" /\ job'.advance = 0
    BY <1>1 DEF NoJob
  <1>3. ring \in [Slot -> Nat] /\ HeldUpTo(ring, timeline, write_head + job.advance)
    BY <1>1 DEF RingInv
  <1>4. write_head' + 0 = write_head + job.advance
    BY <1>1 DEF GapsInv
  <1> QED
    BY <1>1, <1>2, <1>3, <1>4 DEF RingInv

\* Steps that leave the producer's state and the ring alone.
LEMMA RingConsumerStep ==
    ASSUME RingInv, UNCHANGED <<write_head, ring, job, timeline>>
    PROVE  RingInv'
  BY DEF RingInv

\* What the consumer got at some time is what the timeline has, or was lost or late.
Told(at, items, seen, tl) ==
    \A i \in 1..Len(items) :
      LET t == at + i - 1
      IN  \/ t < Len(tl) /\ items[i] = tl[t + 1]
          \/ items[i] = Lost /\ t < seen - capacity
          \/ items[i] = Late /\ t >= seen
          \/ items[i] \notin {Lost, Late} /\ t < Len(tl) - capacity

\* The timeline only gets longer.
Longer(u, tl) == Len(tl) <= Len(u) /\ SameBefore(u, tl, Len(tl))

\* What was told stays true.
LEMMA ToldStays ==
    ASSUME NEW at \in Nat, NEW items \in Seq(Int), NEW seen \in Nat, NEW tl, NEW u,
           Len(tl) \in Nat, Len(u) \in Nat, Longer(u, tl), Told(at, items, seen, tl)
    PROVE  Told(at, items, seen, u)
  <1> PICK n \in Nat, m \in Nat : n = Len(tl) /\ m = Len(u)
    OBVIOUS
  <1> PICK c \in Nat \ {0} : c = capacity
    BY BitmapAssumption
  <1> SUFFICES ASSUME NEW i \in 1..Len(items)
               PROVE  LET t == at + i - 1
                      IN  \/ t < m /\ items[i] = u[t + 1]
                          \/ items[i] = Lost /\ t < seen - c
                          \/ items[i] = Late /\ t >= seen
                          \/ items[i] \notin {Lost, Late} /\ t < m - c
    BY DEF Told
  <1> PICK t \in Nat : t = at + i - 1
    BY LenProperties
  <1>1. \/ t < n /\ items[i] = tl[t + 1]
        \/ items[i] = Lost /\ t < seen - c
        \/ items[i] = Late /\ t >= seen
        \/ items[i] \notin {Lost, Late} /\ t < n - c
    BY DEF Told
  <1>2. n <= m /\ (t < n => u[t + 1] = tl[t + 1])
    BY DEF Longer, SameBefore
  <1>3. t < n => t < m
    BY <1>2
  <1>4. t < n - c => t < m - c
    BY <1>2
  <1> QED
    BY <1>1, <1>2, <1>3, <1>4

\* A step of the producer leaves the consumer where it is.
LEMMA IterProducerStep ==
    ASSUME IterInv, UNCHANGED <<iter, heard, read_head>>,
           write_head \in Nat, write_head' \in Nat, write_head <= write_head',
           Len(timeline) \in Nat, Len(timeline') \in Nat, write_head <= Len(timeline),
           Longer(timeline', timeline)
    PROVE  IterInv'

  <1>1. /\ iter' = iter /\ heard' = heard /\ read_head' = read_head /\ Now' = Now
    BY DEF Now
  <1>2. ASSUME iter.step = "slice"
        PROVE  SliceInv'
    <2>1. SliceInv /\ iter.seen <= write_head /\ iter.seen \in Nat
      BY <1>2 DEF IterInv
    <2>2. ASSUME NEW t \in Nat, Now <= t, t < Now + iter.len
          PROVE  t < iter.seen /\ (Reused(t)' \/ timeline'[t + 1] # Gap)
      <3>1. t < iter.seen /\ (Reused(t) \/ timeline[t + 1] # Gap)
        BY <2>1, <2>2 DEF SliceInv
      <3>2. t < Len(timeline)
        BY <2>1, <3>1
      <3>3. timeline'[t + 1] = timeline[t + 1]
        BY <3>2 DEF Longer, SameBefore
      <3>4. Reused(t) => Reused(t)'
        BY BitmapAssumption DEF Reused, Longer
      <3> QED
        BY <3>1, <3>3, <3>4
    <2> QED
      BY <1>1, <2>1, <2>2 DEF SliceInv
  <1>3. ASSUME iter.step # "idle"
        PROVE  iter.seen <= write_head'
    <2>1. iter.seen <= write_head /\ iter.seen \in Nat
      BY <1>3 DEF IterInv
    <2> QED
      BY <2>1
  <1> QED
    BY <1>1, <1>2, <1>3 DEF IterInv

\* The fields of the consumer's state.
LEMMA IterFields ==
    ASSUME IterInv
    PROVE  /\ read_head \in Nat /\ heard.at \in Nat /\ heard.items \in Seq(Int) /\ heard.seen \in Nat
           /\ Len(heard.items) \in Nat /\ Now \in Nat
           /\ iter.cursor \in Nat /\ iter.overflow \in Nat /\ iter.readable \in 0..capacity
           /\ iter.readable \in Nat
           /\ iter.underflow \in Nat /\ iter.consumed \in Nat /\ iter.seen \in Nat /\ iter.len \in Nat
           /\ iter.step \in {"idle", "open", "slice"}
  <1>1. heard.at \in Nat /\ heard.items \in Seq(Int) /\ heard.seen \in Nat
    BY DEF IterInv
  <1>2. Len(heard.items) \in Nat
    BY <1>1, LenProperties
  <1>3. /\ read_head \in Nat
        /\ iter.cursor \in Nat /\ iter.overflow \in Nat /\ iter.readable \in 0..capacity
        /\ iter.underflow \in Nat /\ iter.consumed \in Nat /\ iter.seen \in Nat /\ iter.len \in Nat
        /\ iter.step \in {"idle", "open", "slice"}
    BY DEF IterInv
  <1>4. iter.readable \in Nat
    BY <1>3, BitmapAssumption
  <1> QED
    BY <1>1, <1>2, <1>3, <1>4 DEF Now

\* The consumer asks for segments: a snapshot of the heads.
LEMMA IterSegmentsStep ==
    ASSUME IterInv, write_head \in Nat, NEW requested \in Nat, NEW u, iter_segments(requested, u)
    PROVE  IterInv' /\ UNCHANGED <<heard, timeline>>
  <1> PICK c \in Nat \ {0}, wh \in Nat, rh \in Nat, rq \in Nat :
         c = capacity /\ wh = write_head /\ rh = read_head /\ rq = requested
    BY BitmapAssumption, IterFields
  <1> PICK lost \in Nat : lost = saturating_sub(saturating_sub(wh, c), rh)
    BY DEF saturating_sub
  <1> PICK ov \in Nat : ov = Lesser(lost, rq) /\ ov <= rq
    BY DEF Lesser
  <1> PICK cu \in Nat, rm \in Nat : cu = rh + ov /\ rm = rq - ov
    OBVIOUS
  <1> PICK rd \in 0..c : rd = Lesser(Lesser(saturating_sub(wh, cu), c), rm) /\ rd <= rm
    BY DEF Lesser, saturating_sub
  <1> PICK uf \in Nat : uf = (IF u THEN rm - rd ELSE 0) /\ (uf > 0 => rm > rd)
    <2>1. rm - rd \in Nat
      OBVIOUS
    <2> QED
      BY <2>1
  <1>1. /\ iter.step = "idle"
        /\ iter' = [step |-> "open", cursor |-> cu, overflow |-> ov, readable |-> rd,
                    underflow |-> uf, consumed |-> 0, seen |-> wh, len |-> 0]
        /\ UNCHANGED <<write_head, read_head, ring, gaps, job, timeline, heard>>
    BY DEF iter_segments
  <1>2. ov > 0 => cu + c <= wh
    BY DEF Lesser, saturating_sub
  <1>3. rd > 0 => cu + rd <= wh
    BY DEF Lesser, saturating_sub
  <1>4. uf > 0 => wh <= cu + rd
    <2> SUFFICES ASSUME rd < rm
                 PROVE  wh <= cu + rd
      OBVIOUS
    <2>1. ov # rq
      OBVIOUS
    <2>2. ov = lost
      BY <2>1 DEF Lesser
    <2>3. wh <= cu + c
      BY <2>2 DEF saturating_sub
    <2>4. saturating_sub(wh, cu) <= c /\ saturating_sub(wh, cu) \in Nat
      BY <2>3 DEF saturating_sub
    <2>5. rd = saturating_sub(wh, cu)
      BY <2>4 DEF Lesser
    <2> QED
      BY <2>5 DEF saturating_sub
  <1>5. /\ iter'.step = "open" /\ iter'.cursor = cu /\ iter'.overflow = ov /\ iter'.readable = rd
        /\ iter'.underflow = uf /\ iter'.consumed = 0 /\ iter'.seen = wh
        /\ iter' \in [step : {"idle", "open", "slice"}, cursor : Nat, overflow : Nat,
                      readable : 0..capacity, underflow : Nat, consumed : Nat, seen : Nat, len : Nat]
    BY <1>1
  <1>6. Now' = rh /\ Now' = read_head' + 0 /\ Now' + ov = cu
    BY <1>1 DEF IterInv, Now
  <1>7. heard' \in [at : Nat, items : Seq(Int), seen : Nat] /\ read_head' \in Nat
    BY <1>1 DEF IterInv
  <1>8. iter'.seen <= write_head'
    BY <1>1, <1>5
  <1> QED
    BY <1>1, <1>2, <1>3, <1>4, <1>5, <1>6, <1>7, <1>8 DEF IterInv

\* The consumer hears items and its time moves on by as many.
LEMMA HearStep ==
    ASSUME IterInv, NEW items \in Seq(Int), NEW n \in Nat, Len(items) = n, Hear(items)
    PROVE  /\ heard' \in [at : Nat, items : Seq(Int), seen : Nat]
           /\ heard'.at = Now /\ heard'.items = items /\ heard'.seen = iter.seen
           /\ Now' = Now + n
  <1>1. Now \in Nat /\ iter.seen \in Nat
    BY IterFields
  <1>2. heard' = [at |-> Now, items |-> items, seen |-> iter.seen]
    BY DEF Hear, Now
  <1>3. heard'.at = Now /\ heard'.items = items /\ heard'.seen = iter.seen
    BY <1>2
  <1>4. Now' = Now + n
    BY <1>3 DEF Now
  <1> QED
    BY <1>1, <1>2, <1>3, <1>4

\* A sequence of one item n times.
LEMMA RepeatSeq ==
    ASSUME NEW x \in Int, NEW n \in Nat
    PROVE  Repeat(x, n) \in Seq(Int) /\ Len(Repeat(x, n)) = n /\ \A i \in 1..n : Repeat(x, n)[i] = x
  BY FunctionSeq DEF Repeat

\* What the consumer's state ranges over.
IterState ==
    [step : {"idle", "open", "slice"}, cursor : Nat, overflow : Nat,
     readable : 0..capacity, underflow : Nat, consumed : Nat, seen : Nat, len : Nat]

\* Lost instants are a lap behind the snapshot.
LEMMA NextOverflowStep ==
    ASSUME IterInv, NextOverflow
    PROVE  IterInv' /\ TimelineHeard'
  <1> PICK c \in Nat \ {0}, ov \in Nat, cu \in Nat, se \in Nat, p \in Nat, co \in Nat :
         /\ c = capacity /\ ov = iter.overflow /\ cu = iter.cursor /\ se = iter.seen /\ p = Now
         /\ co = iter.consumed
    BY BitmapAssumption, IterFields
  <1>0. Lost \in Int
    BY DEF Lost
  <1> PICK items \in Seq(Int) : /\ items = Repeat(Lost, ov)
                                /\ Len(items) = ov /\ \A i \in 1..ov : items[i] = Lost
    <2>1. /\ Repeat(Lost, ov) \in Seq(Int) /\ Len(Repeat(Lost, ov)) = ov
          /\ \A i \in 1..ov : Repeat(Lost, ov)[i] = Lost
      BY <1>0, RepeatSeq
    <2> QED
      BY <2>1
  <1>1. Len(items) = ov /\ \A i \in 1..ov : items[i] = Lost
    OBVIOUS
  <1>2. /\ iter.step = "open" /\ ov > 0
        /\ Hear(items)
        /\ iter' = [iter EXCEPT !.overflow = 0, !.consumed = co + ov]
        /\ UNCHANGED <<write_head, read_head, ring, gaps, job, timeline>>
    BY DEF NextOverflow
  <1>3. /\ heard' \in [at : Nat, items : Seq(Int), seen : Nat]
        /\ heard'.at = p /\ heard'.items = items /\ heard'.seen = se
        /\ Now' = p + ov
    BY <1>1, <1>2, HearStep
  <1>4. /\ iter \in [step : {"idle", "open", "slice"}, cursor : Nat, overflow : Nat,
                      readable : 0..capacity, underflow : Nat, consumed : Nat, seen : Nat, len : Nat]
        /\ read_head \in Nat
        /\ p = read_head + co /\ p + ov = cu
        /\ se <= write_head /\ cu + c <= se
        /\ iter.readable > 0 => cu + iter.readable <= se
        /\ iter.underflow > 0 => se <= cu + iter.readable
    BY <1>2 DEF IterInv
  <1>5. /\ iter' \in IterState
        /\ iter'.step = "open" /\ iter'.overflow = 0 /\ iter'.consumed = co + ov /\ iter'.cursor = cu
        /\ iter'.readable = iter.readable /\ iter'.underflow = iter.underflow /\ iter'.seen = se
    <2>1. co + ov \in Nat
      OBVIOUS
    <2>2. iter \in IterState
      BY <1>4 DEF IterState
    <2>3. /\ iter' \in IterState
          /\ iter'.step = iter.step /\ iter'.overflow = 0 /\ iter'.consumed = co + ov
          /\ iter'.cursor = iter.cursor
          /\ iter'.readable = iter.readable /\ iter'.underflow = iter.underflow /\ iter'.seen = iter.seen
      <3> PICK new : new = iter'
        OBVIOUS
      <3> PICK it \in IterState, cn \in Nat : it = iter /\ cn = co + ov
        BY <2>1, <2>2
      <3>1. new = [it EXCEPT !.overflow = 0, !.consumed = cn]
        BY <1>2
      <3>2. /\ new \in IterState
            /\ new.step = it.step /\ new.overflow = 0 /\ new.consumed = cn
            /\ new.cursor = it.cursor
            /\ new.readable = it.readable /\ new.underflow = it.underflow /\ new.seen = it.seen
        BY ONLY it \in IterState, cn \in Nat, <3>1 DEF IterState
      <3> QED
        BY <3>2
    <2>4. iter.step = "open"
      BY <1>2
    <2> QED
      BY <2>3, <2>4
  <1>6. IterInv'
    <2>0. read_head' = read_head /\ p + ov = read_head + (co + ov) /\ p + ov + 0 = cu
      <3>1. read_head' = read_head
        BY <1>2
      <3>2. p = read_head + co /\ p + ov = cu /\ read_head \in Nat
        BY <1>4
      <3> QED
        BY ONLY <3>1, <3>2, p \in Nat, co \in Nat, ov \in Nat, cu \in Nat
    <2>1. Now' = read_head' + iter'.consumed /\ Now' + iter'.overflow = iter'.cursor
      BY <2>0, <1>3, <1>5
    <2>2. ~(iter'.overflow > 0)
      BY <1>5
    <2>3. /\ iter'.seen <= write_head'
          /\ iter'.readable > 0 => iter'.cursor + iter'.readable <= iter'.seen
          /\ iter'.underflow > 0 => iter'.seen <= iter'.cursor + iter'.readable
      BY <1>2, <1>4, <1>5
    <2>4. read_head' \in Nat
      BY <1>2, <1>4
    <2> QED
      BY <1>3, <1>5, <2>1, <2>2, <2>3, <2>4 DEF IterInv, IterState
  <1>7. TimelineHeard'
    <2>1. ASSUME NEW i \in 1..ov
          PROVE  items[i] = Lost /\ p + i - 1 < se - c
      <3>1. p + ov + c <= se
        BY <1>4
      <3>2. p + i - 1 < se - c
        BY ONLY <3>1, i \in 1..ov, p \in Nat, ov \in Nat, c \in Nat, se \in Nat
      <3> QED
        BY <1>1, <3>2
    <2> QED
      BY <1>1, <1>3, <2>1 DEF TimelineHeard
  <1> QED
    BY <1>6, <1>7

\* Late instants were not written when the snapshot was taken.
LEMMA NextUnderflowStep ==
    ASSUME IterInv, NextUnderflow
    PROVE  IterInv' /\ TimelineHeard'
  <1> PICK c \in Nat \ {0}, uf \in Nat, cu \in Nat, se \in Nat, p \in Nat, co \in Nat :
         /\ c = capacity /\ uf = iter.underflow /\ cu = iter.cursor /\ se = iter.seen /\ p = Now
         /\ co = iter.consumed
    BY BitmapAssumption, IterFields
  <1>0. Late \in Int
    BY DEF Late
  <1> PICK items \in Seq(Int) : /\ items = Repeat(Late, uf)
                                /\ Len(items) = uf /\ \A i \in 1..uf : items[i] = Late
    <2>1. /\ Repeat(Late, uf) \in Seq(Int) /\ Len(Repeat(Late, uf)) = uf
          /\ \A i \in 1..uf : Repeat(Late, uf)[i] = Late
      BY <1>0, RepeatSeq
    <2> QED
      BY <2>1
  <1>1. Len(items) = uf /\ \A i \in 1..uf : items[i] = Late
    OBVIOUS
  <1>2. /\ iter.step = "open" /\ iter.overflow = 0 /\ iter.readable = 0 /\ uf > 0
        /\ Hear(items)
        /\ iter' = [iter EXCEPT !.underflow = 0, !.consumed = co + uf]
        /\ UNCHANGED <<write_head, read_head, ring, gaps, job, timeline>>
    BY DEF NextUnderflow
  <1>3. /\ heard' \in [at : Nat, items : Seq(Int), seen : Nat]
        /\ heard'.at = p /\ heard'.items = items /\ heard'.seen = se
        /\ Now' = p + uf
    BY <1>1, <1>2, HearStep
  <1>4. /\ iter \in [step : {"idle", "open", "slice"}, cursor : Nat, overflow : Nat,
                      readable : 0..capacity, underflow : Nat, consumed : Nat, seen : Nat, len : Nat]
        /\ read_head \in Nat
        /\ p = read_head + co /\ p + 0 = cu
        /\ se <= write_head /\ se <= cu + 0
    BY <1>2 DEF IterInv
  <1>5. /\ iter' \in IterState
        /\ iter'.step = "open" /\ iter'.overflow = 0 /\ iter'.consumed = co + uf
        /\ iter'.readable = 0 /\ iter'.underflow = 0 /\ iter'.seen = se
    <2>1. co + uf \in Nat
      OBVIOUS
    <2>2. iter \in IterState
      BY <1>4 DEF IterState
    <2>3. /\ iter' \in IterState
          /\ iter'.step = iter.step /\ iter'.overflow = iter.overflow /\ iter'.consumed = co + uf
          /\ iter'.readable = iter.readable /\ iter'.underflow = 0 /\ iter'.seen = iter.seen
      <3> PICK new : new = iter'
        OBVIOUS
      <3> PICK it \in IterState, cn \in Nat : it = iter /\ cn = co + uf
        BY <2>1, <2>2
      <3>1. new = [it EXCEPT !.underflow = 0, !.consumed = cn]
        BY <1>2
      <3>2. /\ new \in IterState
            /\ new.step = it.step /\ new.overflow = it.overflow /\ new.consumed = cn
            /\ new.readable = it.readable /\ new.underflow = 0 /\ new.seen = it.seen
        BY ONLY it \in IterState, cn \in Nat, <3>1 DEF IterState
      <3> QED
        BY <3>2
    <2>4. iter.step = "open" /\ iter.overflow = 0
      BY <1>2
    <2>6. iter.readable = 0
      BY <1>2
    <2> QED
      BY <2>3, <2>4, <2>6
  <1>6. IterInv'
    <2>0. read_head' = read_head /\ p + uf = read_head + (co + uf)
      <3>1. read_head' = read_head
        BY <1>2
      <3>2. p = read_head + co /\ read_head \in Nat
        BY <1>4
      <3> QED
        BY ONLY <3>1, <3>2, p \in Nat, co \in Nat, uf \in Nat
    <2>1. Now' = read_head' + iter'.consumed
      BY <2>0, <1>3, <1>5
    <2>2. ~(iter'.overflow > 0) /\ ~(iter'.readable > 0) /\ ~(iter'.underflow > 0)
      BY <1>5
    <2>3. iter'.seen <= write_head' /\ read_head' \in Nat
      BY <1>2, <1>4, <1>5
    <2> QED
      BY <1>3, <1>5, <2>1, <2>2, <2>3 DEF IterInv, IterState
  <1>7. TimelineHeard'
    <2>1. ASSUME NEW i \in 1..uf
          PROVE  items[i] = Late /\ p + i - 1 >= se
      <3>1. items[i] = Late
        BY <1>1
      <3>2. se <= cu + 0 /\ p + 0 = cu
        BY <1>4
      <3> QED
        BY ONLY <3>1, <3>2, i \in 1..uf, uf \in Nat, p \in Nat, se \in Nat, cu \in Nat
    <2> QED
      BY <1>1, <1>3, <2>1 DEF TimelineHeard
  <1> QED
    BY <1>6, <1>7

\* The consumer is done, or gives up, with what it was given.
LEMMA DropIterStep ==
    ASSUME IterInv, DropIter
    PROVE  IterInv' /\ TimelineHeard'
  <1>1. /\ iter.step = "open"
        /\ read_head' = read_head + iter.consumed
        /\ iter' = NoIter
        /\ heard' = [at |-> Now, items |-> <<>>, seen |-> 0]
    BY DEF DropIter, Now
  <1>2. read_head' = Now /\ Now \in Nat
    BY <1>1, IterFields DEF IterInv
  <1>3. /\ heard' \in [at : Nat, items : Seq(Int), seen : Nat]
        /\ heard'.at = Now /\ heard'.items = <<>> /\ Len(heard'.items) = 0
    BY <1>1, <1>2
  <1>4. Now' = Now
    BY <1>2, <1>3 DEF Now
  <1>5. /\ iter' \in [step : {"idle", "open", "slice"}, cursor : Nat, overflow : Nat,
                      readable : 0..capacity, underflow : Nat, consumed : Nat, seen : Nat, len : Nat]
        /\ iter'.step = "idle"
    BY <1>1, BitmapAssumption DEF NoIter
  <1>6. IterInv'
    BY <1>2, <1>3, <1>4, <1>5 DEF IterInv
  <1>7. TimelineHeard'
    BY <1>3 DEF TimelineHeard
  <1> QED
    BY <1>6, <1>7

\* Of the instants before the head, those whose slots are not reused are marked when
\* they are gaps.
LEMMA MarkedIsGap ==
    ASSUME GapsInv, NEW t \in Nat, t < write_head, ~Reused(t)
    PROVE  (t % capacity) \in Marked(gaps) <=> timeline[t + 1] = Gap
  <1> PICK c \in Nat \ {0}, wh \in Nat, n \in Nat : c = capacity /\ wh = write_head /\ n = job.advance
    BY BitmapAssumption DEF GapsInv
  <1>1. Len(timeline) = wh + n
    BY DEF GapsInv
  <1>2. wh + n <= t + c
    BY <1>1 DEF Reused
  <1>3. wh <= t + c /\ t < wh /\ t < wh + n
    BY <1>2
  <1>4. GapsUpTo(gaps, timeline, wh) \/ GapsUpTo(gaps, timeline, wh + n)
    BY DEF GapsInv
  <1> QED
    BY <1>2, <1>3, <1>4 DEF GapsUpTo

\* The next segment is all gap or all samples, except where slots are reused.
Segment(cu, rd, len, isgap) ==
    /\ len \in 1..rd
    /\ \A t \in Nat : cu <= t /\ t < cu + len => Reused(t) \/ (isgap <=> timeline[t + 1] = Gap)

\* The segment that the search finds.
LEMMA SegmentFound ==
    ASSUME GapsInv, NEW cu \in Nat, NEW rd \in 1..capacity, cu + rd <= write_head,
           NEW gap, gap = search_gap_abs(cu, rd)
    PROVE  Segment(cu, rd, IF gap[1] = cu THEN gap[2]
                           ELSE IF gap = NoGap THEN rd ELSE gap[1] - cu, gap[1] = cu)
  <1> PICK c \in Nat \ {0}, wh \in Nat : c = capacity /\ wh = write_head
    BY BitmapAssumption DEF GapsInv
  <1>1. IsFirstRun(Hits(cu, rd), gap)
    <2>1. BitmapInv(gaps) /\ rd \in 0..capacity
      BY DEF GapsInv
    <2> QED
      BY <2>1, SearchTimeline
  <1>2. ASSUME NEW t \in Nat, cu <= t, t < cu + rd
        PROVE  Reused(t) \/ (t \in Hits(cu, rd) <=> timeline[t + 1] = Gap)
    <2>1. t < wh /\ t \in cu..(cu + rd - 1)
      BY <1>2
    <2> QED
      BY <2>1, MarkedIsGap DEF Hits
  <1>3. \A t \in Hits(cu, rd) : t \in Nat /\ cu <= t /\ t < cu + rd
    BY DEF Hits
  <1>4. CASE Hits(cu, rd) = {}
    <2>1. gap = NoGap
      BY <1>1, <1>4 DEF IsFirstRun
    <2>2. gap[1] # cu /\ rd \in 1..rd
      BY <2>1 DEF NoGap
    <2> QED
      BY <1>2, <1>4, <2>1, <2>2 DEF Segment
  <1>5. CASE Hits(cu, rd) # {}
    <2> PICK H : H = Hits(cu, rd)
      OBVIOUS
    <2>1. PICK i \in H, n \in Nat \ {0} : gap = <<i, n>> /\ (\A p \in H : i <= p) /\ Run(H, i, n)
      BY <1>1, <1>5 DEF IsFirstRun
    <2>2. i \in Nat /\ cu <= i /\ i < cu + rd /\ gap # NoGap /\ gap[1] = i /\ gap[2] = n
      BY <1>3, <2>1 DEF NoGap
    <2>3. CASE i = cu
      <3>1. cu + n - 1 \in H
        <4>1. cu + n - 1 \in Nat /\ i <= cu + n - 1 /\ cu + n - 1 < i + n
          BY <2>3
        <4> QED
          BY <2>1, <4>1 DEF Run
      <3>2. n \in 1..rd
        BY <1>3, <3>1
      <3>3. ASSUME NEW t \in Nat, cu <= t, t < cu + n
            PROVE  Reused(t) \/ timeline[t + 1] = Gap
        <4>1. t \in H
          BY <2>1, <2>3, <3>3 DEF Run
        <4> QED
          BY <1>2, <1>3, <4>1
      <3> QED
        BY <2>2, <2>3, <3>2, <3>3 DEF Segment
    <2>4. CASE i # cu
      <3>1. i - cu \in 1..rd /\ cu + (i - cu) = i
        BY <2>2, <2>4
      <3>2. ASSUME NEW t \in Nat, cu <= t, t < i
            PROVE  Reused(t) \/ ~(timeline[t + 1] = Gap)
        <4>1. t < cu + rd /\ t \notin H
          BY <2>1, <2>2, <3>2
        <4> QED
          BY <1>2, <3>2, <4>1
      <3> QED
        BY <2>2, <2>4, <3>1, <3>2 DEF Segment
    <2> QED
      BY <2>3, <2>4
  <1> QED
    BY <1>4, <1>5

\* What the next readable segment is.
LEMMA NextReadableIs ==
    ASSUME GapsInv, IterInv, NextReadable
    PROVE  \E len \in Nat, isgap \in BOOLEAN :
             /\ iter.step = "open" /\ iter.overflow = 0
             /\ Segment(iter.cursor, iter.readable, len, isgap)
             /\ iter' = [iter EXCEPT !.step = IF isgap THEN "open" ELSE "slice", !.len = len,
                                     !.cursor = @ + len, !.readable = @ - len, !.consumed = @ + len]
             /\ IF isgap THEN Hear(Repeat(Gap, len)) ELSE UNCHANGED heard
             /\ UNCHANGED <<write_head, read_head, ring, gaps, job, timeline>>
  <1> PICK cu \in Nat, rd \in 0..capacity : cu = iter.cursor /\ rd = iter.readable
    BY IterFields
  <1> PICK gap : gap = search_gap_abs(cu, rd)
    OBVIOUS
  <1> PICK len : len = (IF gap[1] = cu THEN gap[2] ELSE IF gap = NoGap THEN rd ELSE gap[1] - cu)
    OBVIOUS
  <1> PICK isgap \in BOOLEAN : isgap <=> gap[1] = cu
    OBVIOUS
  <1>1. /\ iter.step = "open" /\ iter.overflow = 0 /\ rd > 0
        /\ iter' = [iter EXCEPT !.step = IF isgap THEN "open" ELSE "slice", !.len = len,
                                !.cursor = @ + len, !.readable = @ - len, !.consumed = @ + len]
        /\ IF isgap THEN Hear(Repeat(Gap, len)) ELSE UNCHANGED heard
        /\ UNCHANGED <<write_head, read_head, ring, gaps, job, timeline>>
    BY DEF NextReadable
  <1>2. rd \in 1..capacity
    BY <1>1, BitmapAssumption
  <1>3. cu + rd <= write_head
    <2>1. cu + rd <= iter.seen /\ iter.seen <= write_head
      BY <1>1 DEF IterInv
    <2>2. iter.seen \in Nat /\ write_head \in Nat
      BY IterFields DEF GapsInv
    <2> QED
      BY <1>2, <2>1, <2>2
  <1>4. Segment(cu, rd, len, gap[1] = cu)
    BY <1>2, <1>3, SegmentFound
  <1>5. Segment(cu, rd, len, isgap) /\ len \in Nat
    BY <1>4 DEF Segment
  <1> QED
    BY <1>1, <1>5

\* A stretch of gaps, or the slice up to the next gap.
LEMMA NextReadableStep ==
    ASSUME GapsInv, IterInv, TimelineHeard, NextReadable
    PROVE  IterInv' /\ TimelineHeard'
  <1> PICK len \in Nat, isgap \in BOOLEAN :
             /\ iter.step = "open" /\ iter.overflow = 0
             /\ Segment(iter.cursor, iter.readable, len, isgap)
             /\ iter' = [iter EXCEPT !.step = IF isgap THEN "open" ELSE "slice", !.len = len,
                                     !.cursor = @ + len, !.readable = @ - len, !.consumed = @ + len]
             /\ IF isgap THEN Hear(Repeat(Gap, len)) ELSE UNCHANGED heard
             /\ UNCHANGED <<write_head, read_head, ring, gaps, job, timeline>>
    BY NextReadableIs
  <1> PICK c \in Nat \ {0}, rd \in Nat, cu \in Nat, se \in Nat, p \in Nat, co \in Nat, rh \in Nat, wh \in Nat :
         /\ c = capacity /\ rd = iter.readable /\ cu = iter.cursor /\ se = iter.seen /\ p = Now
         /\ co = iter.consumed /\ rh = read_head /\ wh = write_head
    BY BitmapAssumption, IterFields DEF GapsInv
  <1>1. /\ len \in 1..rd
        /\ \A t \in Nat : cu <= t /\ t < cu + len => Reused(t) \/ (isgap <=> timeline[t + 1] = Gap)
    BY DEF Segment
  <1>2. /\ rd > 0 /\ rd <= c
        /\ p = rh + co /\ p = cu
        /\ se <= wh /\ cu + rd <= se
        /\ iter.underflow > 0 => se <= cu + rd
    <2>1. rd > 0 /\ rd <= c
      BY <1>1, IterFields
    <2> QED
      BY <2>1 DEF IterInv
  <1>3. /\ iter' \in IterState
        /\ iter'.step = (IF isgap THEN "open" ELSE "slice") /\ iter'.len = len
        /\ iter'.cursor = cu + len /\ iter'.readable = rd - len /\ iter'.consumed = co + len
        /\ iter'.overflow = 0 /\ iter'.underflow = iter.underflow /\ iter'.seen = se
    <2> PICK it \in IterState : it = iter
      BY DEF IterInv, IterState
    <2> PICK st \in {"open", "slice"} : st = IF isgap THEN "open" ELSE "slice"
      OBVIOUS
    <2> PICK nc \in Nat, nr \in 0..capacity, no \in Nat : nc = cu + len /\ nr = rd - len /\ no = co + len
      <3>1. cu + len \in Nat /\ rd - len \in 0..capacity /\ co + len \in Nat
        BY <1>1, <1>2
      <3> QED
        BY <3>1
    <2> PICK new : new = iter'
      OBVIOUS
    <2>1. new = [it EXCEPT !.step = st, !.len = len, !.cursor = nc, !.readable = nr, !.consumed = no]
      OBVIOUS
    <2>2. /\ new \in IterState
          /\ new.step = st /\ new.len = len /\ new.cursor = nc /\ new.readable = nr /\ new.consumed = no
          /\ new.overflow = it.overflow /\ new.underflow = it.underflow /\ new.seen = it.seen
      BY ONLY <2>1, it \in IterState, st \in {"open", "slice"}, len \in Nat, nc \in Nat,
              nr \in 0..capacity, no \in Nat DEF IterState
    <2> QED
      BY <2>2
  <1>4. wh <= Len(timeline) /\ Len(timeline) \in Nat
    <2>1. Len(timeline) = wh + job.advance /\ job.advance \in Nat
      BY DEF GapsInv
    <2> QED
      BY <2>1
  <1>5. ASSUME NEW t \in Nat, cu <= t, t < cu + len
        PROVE  t < se /\ t < Len(timeline) /\ (Reused(t) \/ (isgap <=> timeline[t + 1] = Gap))
    <2>1. t < se
      BY <1>1, <1>2, <1>5
    <2> QED
      BY <1>1, <1>2, <1>4, <1>5, <2>1
  <1>6. /\ iter'.seen <= write_head' /\ read_head' \in Nat /\ read_head' = rh /\ timeline' = timeline
        /\ iter'.readable > 0 => iter'.cursor + iter'.readable <= iter'.seen
        /\ iter'.underflow > 0 => iter'.seen <= iter'.cursor + iter'.readable
        /\ ~(iter'.overflow > 0)
    <2>1. cu + len + (rd - len) = cu + rd
      BY <1>1
    <2> QED
      BY <1>2, <1>3, <2>1
  <1>7. CASE isgap
    <2>0. Gap \in Int /\ Gap # Lost /\ Gap # Late
      BY DEF Gap, Lost, Late
    <2> PICK items \in Seq(Int) : /\ items = Repeat(Gap, len)
                                  /\ Len(items) = len /\ \A i \in 1..len : items[i] = Gap
      <3>1. /\ Repeat(Gap, len) \in Seq(Int) /\ Len(Repeat(Gap, len)) = len
            /\ \A i \in 1..len : Repeat(Gap, len)[i] = Gap
        BY <2>0, RepeatSeq
      <3> QED
        BY <3>1
    <2>1. Hear(items)
      BY <1>7
    <2>2. /\ heard' \in [at : Nat, items : Seq(Int), seen : Nat]
          /\ heard'.at = p /\ heard'.items = items /\ heard'.seen = se
          /\ Now' = p + len
      BY <2>1, HearStep
    <2>3. IterInv'
      <3>1. Now' = read_head' + iter'.consumed /\ Now' + iter'.overflow = iter'.cursor
        <4>1. p + len = rh + (co + len) /\ p + len + 0 = cu + len
          BY <1>2
        <4> QED
          BY <1>3, <1>6, <2>2, <4>1
      <3> QED
        BY <1>3, <1>6, <1>7, <2>2, <3>1 DEF IterInv, IterState
    <2>4. TimelineHeard'
      <3>1. ASSUME NEW i \in 1..len
            PROVE  \/ p + i - 1 < Len(timeline) /\ items[i] = timeline[p + i - 1 + 1]
                   \/ items[i] \notin {Lost, Late} /\ p + i - 1 < Len(timeline) - c
        <4> PICK t \in Nat : t = p + i - 1
          OBVIOUS
        <4>1. cu <= t /\ t < cu + len
          <5>1. p = cu
            BY <1>2
          <5> QED
            BY ONLY <5>1, t = p + i - 1, i \in 1..len, len \in Nat, cu \in Nat
        <4>2. t < Len(timeline) /\ (Reused(t) \/ timeline[t + 1] = Gap)
          BY <1>5, <1>7, <4>1
        <4>3. Reused(t) => t < Len(timeline) - c
          BY <1>4 DEF Reused
        <4> QED
          BY <2>0, <4>2, <4>3
      <3> QED
        BY <1>6, <2>2, <3>1 DEF TimelineHeard
    <2> QED
      BY <2>3, <2>4
  <1>8. CASE ~isgap
    <2>1. heard' = heard
      BY <1>8
    <2>2. Now' = p
      BY <2>1 DEF Now
    <2>3. SliceInv'
      <3>1. /\ Now' + iter'.len = read_head' + iter'.consumed
            /\ Now' + iter'.len = iter'.cursor
            /\ iter'.overflow = 0
            /\ iter'.len <= capacity
        <4>1. p + len = rh + (co + len) /\ p + len = cu + len /\ len <= c
          BY <1>1, <1>2
        <4> QED
          BY <1>3, <1>6, <2>2, <4>1
      <3>2. ASSUME NEW t \in Nat, Now' <= t, t < Now' + iter'.len
            PROVE  t < iter'.seen /\ (Reused(t)' \/ timeline'[t + 1] # Gap)
        <4>1. cu <= t /\ t < cu + len
          BY <1>2, <1>3, <2>2, <3>2
        <4>2. t < se /\ (Reused(t) \/ timeline[t + 1] # Gap)
          BY <1>5, <1>8, <4>1
        <4> QED
          BY <1>3, <1>6, <4>2 DEF Reused
      <3> QED
        BY <3>1, <3>2 DEF SliceInv
    <2>4. heard' \in [at : Nat, items : Seq(Int), seen : Nat]
      BY <2>1 DEF IterInv
    <2>5. IterInv'
      BY <1>3, <1>6, <1>8, <2>3, <2>4 DEF IterInv, IterState
    <2>6. TimelineHeard'
      BY <1>6, <2>1 DEF TimelineHeard
    <2> QED
      BY <2>5, <2>6
  <1> QED
    BY <1>7, <1>8

\* A slot from which the consumer reads instant t, first half or mirror, holds it.
LEMMA SlotRead ==
    ASSUME RingInv, NEW t \in Nat, t < write_head, ~Reused(t), timeline[t + 1] # Gap,
           write_head \in Nat, job.advance \in Nat, Len(timeline) = write_head + job.advance,
           NEW s \in {t % capacity, (t % capacity) + capacity}
    PROVE  ring[s] = timeline[t + 1]
  <1> PICK c \in Nat \ {0}, wh \in Nat, n \in Nat : c = capacity /\ wh = write_head /\ n = job.advance
    BY BitmapAssumption
  <1>1. HeldUpTo(ring, timeline, wh) \/ HeldUpTo(ring, timeline, wh + n)
    BY DEF RingInv
  <1>2. Len(timeline) <= t + c /\ t < wh /\ t < wh + n
    BY DEF Reused
  <1> QED
    BY <1>1, <1>2 DEF HeldUpTo

\* The caller copies the slice: samples as they were put, unless their slots are reused.
LEMMA CopySliceStep ==
    ASSUME GapsInv, RingInv, IterInv, CopySlice
    PROVE  IterInv' /\ TimelineHeard'
  <1> PICK c \in Nat \ {0}, cu \in Nat, se \in Nat, p \in Nat, co \in Nat, rh \in Nat, wh \in Nat, len \in Nat :
         /\ c = capacity /\ cu = iter.cursor /\ se = iter.seen /\ p = Now /\ len = iter.len
         /\ co = iter.consumed /\ rh = read_head /\ wh = write_head
    BY BitmapAssumption, IterFields DEF GapsInv
  <1> PICK h \in 0..(c - 1) : h = p % c
    BY DivMod
  <1>1. /\ iter.step = "slice" /\ iter' = [iter EXCEPT !.step = "open"]
        /\ UNCHANGED <<write_head, read_head, ring, gaps, job, timeline>>
    BY DEF CopySlice
  <1>2. /\ p + len = rh + co /\ p + len = cu /\ iter.overflow = 0 /\ len <= c
        /\ \A t \in Nat : p <= t /\ t < p + len => t < se /\ (Reused(t) \/ timeline[t + 1] # Gap)
    BY <1>1 DEF IterInv, SliceInv
  <1>3. /\ se <= wh
        /\ iter.readable > 0 => cu + iter.readable <= se
        /\ iter.underflow > 0 => se <= cu + iter.readable
    BY <1>1 DEF IterInv
  <1>4. wh <= Len(timeline) /\ Len(timeline) \in Nat /\ job.advance \in Nat /\ Len(timeline) = wh + job.advance
    <2>1. Len(timeline) = wh + job.advance /\ job.advance \in Nat
      BY DEF GapsInv
    <2> QED
      BY <2>1
  <1>5. \A i \in 1..len : h + i - 1 \in Slot /\ ring[h + i - 1] \in Nat
    <2>1. \A i \in 1..len : h + i - 1 \in Slot
      BY <1>2 DEF Slot
    <2> QED
      BY <2>1 DEF RingInv
  <1> PICK items \in Seq(Int) : /\ items = [i \in 1..len |-> ring[h + i - 1]]
                                /\ Len(items) = len /\ \A i \in 1..len : items[i] = ring[h + i - 1]
    <2> DEFINE e(i) == ring[h + i - 1]
    <2>1. \A i \in 1..len : e(i) \in Int
      BY <1>5
    <2> HIDE DEF e
    <2>2. [i \in 1..len |-> e(i)] \in Seq(Int) /\ Len([i \in 1..len |-> e(i)]) = len
      BY <2>1, FunctionSeq
    <2> QED
      BY <2>2 DEF e
  <1>6. Hear(items)
    <2>1. cu - len = p
      BY <1>2
    <2>2. logical_to_ring_index(iter.cursor - iter.len) = h
      BY <2>1 DEF logical_to_ring_index
    <2> QED
      BY <2>2 DEF CopySlice
  <1>7. /\ heard' \in [at : Nat, items : Seq(Int), seen : Nat]
        /\ heard'.at = p /\ heard'.items = items /\ heard'.seen = se
        /\ Now' = p + len
    BY <1>6, HearStep
  <1>8. IterInv'
    <2>1. /\ iter' \in IterState /\ iter'.step = "open"
          /\ iter'.cursor = cu /\ iter'.readable = iter.readable /\ iter'.consumed = co
          /\ iter'.overflow = 0 /\ iter'.underflow = iter.underflow /\ iter'.seen = se
      <3> PICK new : new = iter'
        OBVIOUS
      <3> PICK it \in IterState : it = iter
        BY DEF IterInv, IterState
      <3>1. new = [it EXCEPT !.step = "open"]
        BY <1>1
      <3>2. /\ new \in IterState /\ new.step = "open"
            /\ new.cursor = it.cursor /\ new.readable = it.readable /\ new.consumed = it.consumed
            /\ new.overflow = it.overflow /\ new.underflow = it.underflow /\ new.seen = it.seen
        BY ONLY <3>1, it \in IterState DEF IterState
      <3> QED
        BY <1>2, <3>2
    <2>2. Now' = read_head' + iter'.consumed /\ Now' + iter'.overflow = iter'.cursor
      <3>1. p + len = rh + co /\ p + len + 0 = cu
        BY <1>2
      <3> QED
        BY <1>1, <1>7, <2>1, <3>1
    <2>3. /\ iter'.seen <= write_head' /\ read_head' \in Nat
          /\ iter'.readable > 0 => iter'.cursor + iter'.readable <= iter'.seen
          /\ iter'.underflow > 0 => iter'.seen <= iter'.cursor + iter'.readable
          /\ ~(iter'.overflow > 0)
      BY <1>1, <1>3, <2>1
    <2> QED
      BY <1>7, <2>1, <2>2, <2>3 DEF IterInv, IterState
  <1>9. TimelineHeard'
    <2>1. ASSUME NEW i \in 1..len
          PROVE  \/ p + i - 1 < Len(timeline) /\ items[i] = timeline[p + i - 1 + 1]
                 \/ items[i] \notin {Lost, Late} /\ p + i - 1 < Len(timeline) - c
      <3> PICK k \in 0..(c - 1) : k = i - 1
        BY <1>2
      <3> PICK t \in Nat : t = p + k /\ t = p + i - 1 /\ t + 1 = p + i - 1 + 1
        OBVIOUS
      <3>1. t < se /\ (Reused(t) \/ timeline[t + 1] # Gap)
        <4>1. p <= t /\ t < p + len
          BY ONLY t = p + i - 1, i \in 1..len, len \in Nat, p \in Nat
        <4> QED
          BY <1>2, <4>1
      <3>2. t < wh /\ t < Len(timeline)
        BY <1>3, <1>4, <3>1
      <3>3. items[i] = ring[h + k] /\ items[i] \in Nat
        <4>1. h + i - 1 = h + k
          OBVIOUS
        <4> QED
          BY <1>5, <4>1
      <3>4. items[i] \notin {Lost, Late}
        BY <3>3 DEF Lost, Late
      <3>5. Reused(t) => t < Len(timeline) - c
        BY <1>4 DEF Reused
      <3>6. t % c = h + k \/ (t % c) + c = h + k
        <4> PICK r \in 0..(c - 1) : r = (p + k) % c
          BY DivMod
        <4>1. r = IF (p % c) + k < c THEN (p % c) + k ELSE (p % c) + k - c
          BY ModSteps
        <4>2. r = IF h + k < c THEN h + k ELSE h + k - c
          BY <4>1
        <4>3. r = h + k \/ r + c = h + k
          BY ONLY <4>2, r \in 0..(c - 1), c \in Nat \ {0}, h \in 0..(c - 1), k \in 0..(c - 1)
        <4> QED
          BY <4>3
      <3>7. ~Reused(t) => items[i] = timeline[t + 1]
        <4> SUFFICES ASSUME ~Reused(t)
                     PROVE  ring[h + k] = timeline[t + 1]
          BY <3>3
        <4>1. h + k \in {t % capacity, (t % capacity) + capacity}
          BY <3>6
        <4> QED
          BY <1>4, <3>1, <3>2, <4>1, SlotRead
      <3> QED
        BY <3>2, <3>4, <3>5, <3>7
    <2> QED
      BY <1>1, <1>7, <2>1 DEF TimelineHeard
  <1> QED
    BY <1>8, <1>9

\* The consumer's invariant: where it is, and what it was told.
ConsumerInv == IterInv /\ TimelineHeard

\* Calls of at most a lap; a larger one is hazard enough in ring_buffer.rs, where its
\* last samples are stored from the old head on.
WritesFit == \A n \in WriteSizes : n <= capacity

\* A step of the producer that only adds to the timeline leaves the consumer's
\* invariant alone.
LEMMA ConsumerKept ==
    ASSUME GapsInv, ConsumerInv, UNCHANGED <<iter, heard, read_head>>,
           write_head' \in Nat, write_head <= write_head',
           Len(timeline') \in Nat, Longer(timeline', timeline)
    PROVE  ConsumerInv'
  <1>1. write_head \in Nat /\ Len(timeline) \in Nat /\ write_head <= Len(timeline)
    <2>1. write_head \in Nat /\ job.advance \in Nat /\ Len(timeline) = write_head + job.advance
      BY DEF GapsInv
    <2> QED
      BY <2>1
  <1>2. IterInv'
    BY <1>1, IterProducerStep DEF ConsumerInv
  <1>3. TimelineHeard'
    <2> PICK at \in Nat, items \in Seq(Int), seen \in Nat :
           at = heard.at /\ items = heard.items /\ seen = heard.seen
      BY IterFields DEF ConsumerInv
    <2>1. Told(at, items, seen, timeline)
      BY DEF Told, ConsumerInv, TimelineHeard
    <2> PICK u : u = timeline'
      OBVIOUS
    <2>2. Told(at, items, seen, u)
      BY <1>1, <2>1, ToldStays
    <2>3. heard'.at = at /\ heard'.items = items /\ heard'.seen = seen
      OBVIOUS
    <2> QED
      BY <2>2, <2>3 DEF Told, TimelineHeard
  <1> QED
    BY <1>2, <1>3 DEF ConsumerInv

\* Appending makes the timeline longer.
LEMMA AppendLonger ==
    ASSUME NEW tl \in Seq(Int), NEW s \in Seq(Int), NEW u, u = tl \o s
    PROVE  Len(u) \in Nat /\ Longer(u, tl)
  <1> PICK n \in Nat, m \in Nat : n = Len(tl) /\ m = Len(s)
    BY LenProperties
  <1>1. Joined(u, tl, s)
    BY JoinSeq
  <1>2. Len(u) = n + m /\ \A i \in 1..n : u[i] = tl[i]
    BY <1>1 DEF Joined
  <1>3. \A t \in Nat : t < n => u[t + 1] = tl[t + 1]
    BY <1>2
  <1> QED
    BY <1>2, <1>3 DEF Longer, SameBefore

\* A store of samples leaves the consumer's invariant alone.
LEMMA ConsumerStoreStep ==
    ASSUME GapsInv, ConsumerInv, NEW input \in Seq(Int), Store(input)
    PROVE  ConsumerInv'
  <1>1. timeline' = timeline \o input /\ UNCHANGED <<write_head, read_head, iter, heard>>
    BY DEF Store
  <1>2. write_head \in Nat /\ write_head' \in Nat /\ write_head <= write_head' /\ timeline \in Seq(Int)
    BY <1>1 DEF GapsInv
  <1> PICK u : u = timeline'
    OBVIOUS
  <1>3. Len(u) \in Nat /\ Longer(u, timeline)
    BY <1>1, <1>2, AppendLonger
  <1> QED
    BY <1>1, <1>2, <1>3, ConsumerKept

\* So does an advance over a gap.
LEMMA ConsumerAdvanceTimelineStep ==
    ASSUME GapsInv, ConsumerInv, advance_timeline
    PROVE  ConsumerInv'
  <1> PICK size \in AdvanceSizes :
         timeline' = timeline \o Gaps(size) /\ UNCHANGED <<write_head, read_head, iter, heard>>
    BY DEF advance_timeline
  <1>1. write_head \in Nat /\ write_head' \in Nat /\ write_head <= write_head' /\ timeline \in Seq(Int)
    BY DEF GapsInv
  <1>2. size \in Nat /\ Gap \in Int
    BY RingAssumption DEF Gap
  <1> PICK s \in Seq(Int) : s = Gaps(size)
    <2>1. Gaps(size) \in Seq(Int)
      BY <1>2, RepeatSeq DEF Repeat, Gaps
    <2> QED
      BY <2>1
  <1> PICK u : u = timeline'
    OBVIOUS
  <1>3. Len(u) \in Nat /\ Longer(u, timeline)
    BY <1>1, AppendLonger
  <1> QED
    BY <1>1, <1>3, ConsumerKept

\* A timeline is no shorter than itself.
LEMMA LongerSelf ==
    ASSUME NEW tl, Len(tl) \in Nat
    PROVE  Longer(tl, tl)
  BY DEF Longer, SameBefore

\* The rest of a call leaves it alone.
LEMMA ConsumerCommitStep ==
    ASSUME GapsInv, ConsumerInv, CommitSlots \/ AdvanceHead
    PROVE  ConsumerInv'
  <1>1. write_head \in Nat /\ Len(timeline) \in Nat /\ job.advance \in Nat
    <2>1. write_head \in Nat /\ job.advance \in Nat /\ Len(timeline) = write_head + job.advance
      BY DEF GapsInv
    <2> QED
      BY <2>1
  <1>2. timeline' = timeline /\ UNCHANGED <<read_head, iter, heard>>
        /\ (write_head' = write_head \/ write_head' = write_head + job.advance)
    BY DEF CommitSlots, AdvanceHead
  <1>3. write_head' \in Nat /\ write_head <= write_head'
    BY <1>1, <1>2
  <1>4. Longer(timeline, timeline)
    BY <1>1, LongerSelf
  <1>5. Longer(timeline', timeline) /\ Len(timeline') \in Nat
    BY <1>1, <1>2, <1>4
  <1> QED
    BY <1>2, <1>3, <1>5, ConsumerKept

\* The ring, the bitmap and the consumer.
WholeInv == GapsInv /\ RingInv /\ ConsumerInv

\* It holds at the start.
LEMMA WholeInit ==
    ASSUME Init
    PROVE  WholeInv
  <1>1. GapsInv
    BY GapsInit
  <1>2. /\ write_head = 0 /\ read_head = 0 /\ ring = [s \in Slot |-> 0] /\ job.step = "idle"
        /\ job.advance = 0 /\ timeline = <<>> /\ iter = NoIter
        /\ heard = [at |-> 0, items |-> <<>>, seen |-> 0]
    BY DEF Init, NoJob, Default
  <1>3. RingInv
    <2>1. ring \in [Slot -> Nat]
      BY <1>2
    <2>2. HeldUpTo(ring, timeline, 0)
      BY DEF HeldUpTo
    <2> QED
      BY <1>2, <2>1, <2>2 DEF RingInv
  <1>4. IterInv
    <2>1. iter.step = "idle"
      BY <1>2 DEF NoIter
    <2>2. iter \in [step : {"idle", "open", "slice"}, cursor : Nat, overflow : Nat,
                    readable : 0..capacity, underflow : Nat, consumed : Nat, seen : Nat, len : Nat]
      BY <1>2, BitmapAssumption DEF NoIter
    <2>3. heard \in [at : Nat, items : Seq(Int), seen : Nat] /\ Len(heard.items) = 0 /\ heard.at = 0
      BY <1>2
    <2>4. Now = read_head /\ read_head \in Nat
      BY <1>2, <2>3 DEF Now
    <2> QED
      BY <2>1, <2>2, <2>3, <2>4 DEF IterInv
  <1>5. TimelineHeard
    <2>1. Len(heard.items) = 0
      BY <1>2
    <2> QED
      BY <2>1 DEF TimelineHeard
  <1> QED
    BY <1>1, <1>3, <1>4, <1>5 DEF WholeInv, ConsumerInv

\* It holds after every step.
LEMMA WholeStep ==
    ASSUME WritesFit, WholeInv, [Next]_vars
    PROVE  WholeInv'
  <1> USE DEF WholeInv
  <1>0. GapsInv'
    BY GapsStep
  <1>1. CASE write
    <2>1. PICK n \in WriteSizes : Store(Fresh(n))
      BY <1>1 DEF write
    <2>2. n \in Nat \ {0} /\ write_head \in Nat /\ n <= capacity
      BY RingAssumption DEF GapsInv, WritesFit
    <2>3. Fresh(n) \in Seq(Nat) /\ Fresh(n) \in Seq(Int) /\ Len(Fresh(n)) = n
      BY <2>2, FunctionSeq DEF Fresh
    <2>4. Alignable(Fresh(n)) /\ Len(Fresh(n)) # 0
      BY <2>2, <2>3 DEF Alignable
    <2> QED
      BY <1>0, <2>1, <2>3, <2>4, RingStoreStep, ConsumerStoreStep
  <1>2. CASE write_default
    <2>1. PICK n \in DefaultSizes : Store(Silence(n))
      BY <1>2 DEF write_default
    <2>2. n \in Nat \ {0}
      BY RingAssumption
    <2>3. Silence(n) \in Seq(Nat) /\ Silence(n) \in Seq(Int) /\ Len(Silence(n)) = n
          /\ \A i \in 1..n : Silence(n)[i] = Default
      BY <2>2, FunctionSeq DEF Silence, Default
    <2>4. Alignable(Silence(n)) /\ Len(Silence(n)) # 0
      BY <2>2, <2>3 DEF Alignable
    <2> QED
      BY <1>0, <2>1, <2>3, <2>4, RingStoreStep, ConsumerStoreStep
  <1>3. CASE advance_timeline
    BY <1>0, <1>3, RingAdvanceTimelineStep, ConsumerAdvanceTimelineStep
  <1>4. CASE CommitSlots
    BY <1>0, <1>4, RingCommitSlotsStep, ConsumerCommitStep
  <1>5. CASE AdvanceHead
    BY <1>0, <1>5, RingAdvanceHeadStep, ConsumerCommitStep
  <1>6. CASE \E n \in Requests, u \in BOOLEAN : iter_segments(n, u)
    <2>1. PICK n \in Requests, u \in BOOLEAN : iter_segments(n, u)
      BY <1>6
    <2>2. n \in Nat /\ write_head \in Nat
      BY RingAssumption DEF GapsInv
    <2>3. IterInv' /\ UNCHANGED <<heard, timeline>>
      BY <2>1, <2>2, IterSegmentsStep DEF ConsumerInv
    <2>4. TimelineHeard'
      BY <2>3 DEF ConsumerInv, TimelineHeard
    <2>5. RingInv'
      BY <2>1, RingConsumerStep DEF iter_segments
    <2> QED
      BY <1>0, <2>3, <2>4, <2>5 DEF ConsumerInv
  <1>7. CASE NextOverflow
    <2>1. RingInv'
      BY <1>7, RingConsumerStep DEF NextOverflow
    <2> QED
      BY <1>0, <1>7, <2>1, NextOverflowStep DEF ConsumerInv
  <1>8. CASE NextReadable
    <2>1. RingInv'
      BY <1>8, RingConsumerStep DEF NextReadable
    <2> QED
      BY <1>0, <1>8, <2>1, NextReadableStep DEF ConsumerInv
  <1>9. CASE CopySlice
    <2>1. RingInv'
      BY <1>9, RingConsumerStep DEF CopySlice
    <2> QED
      BY <1>0, <1>9, <2>1, CopySliceStep DEF ConsumerInv
  <1>10. CASE NextUnderflow
    <2>1. RingInv'
      BY <1>10, RingConsumerStep DEF NextUnderflow
    <2> QED
      BY <1>0, <1>10, <2>1, NextUnderflowStep DEF ConsumerInv
  <1>11. CASE DropIter
    <2>1. RingInv'
      BY <1>11, RingConsumerStep DEF DropIter
    <2> QED
      BY <1>0, <1>11, <2>1, DropIterStep DEF ConsumerInv
  <1>12. CASE UNCHANGED vars
    BY <1>0, <1>12 DEF vars, RingInv, ConsumerInv, IterInv, TimelineHeard, SliceInv, Now, Reused
  <1> QED
    BY <1>1, <1>2, <1>3, <1>4, <1>5, <1>6, <1>7, <1>8, <1>9, <1>10, <1>11, <1>12 DEF Next

\* In every ring, for calls of at most a lap and reads of any size, cut where the
\* threads interleave: the consumer hears every instant once, in order, as the producer
\* put it there, or lost, late or torn only for the reasons the code admits
\* (RingSegments::next, read_commit and write_commit_advance).
THEOREM ConsumerHearsTimeline ==
    ASSUME WritesFit
    PROVE  Spec => []TimelineHeard
  <1>1. Init => WholeInv
    BY WholeInit
  <1>2. WholeInv /\ [Next]_vars => WholeInv'
    BY WholeStep
  <1>3. WholeInv => TimelineHeard
    BY DEF WholeInv, ConsumerInv
  <1> QED
    BY <1>1, <1>2, <1>3, PTL DEF Spec

-----------------------------------------------------------------------------
(* Types and bounds. *)

\* The storage, the call in progress and the timeline have their types, and a call
\* ends before the last instant.
StorageTyped ==
    /\ ring \in [Slot -> Sample]
    /\ gaps \in Bitmap
    /\ job \in [step : {"idle", "stored", "committed"}, stored : Seq(Sample), advance : Nat]
    /\ timeline \in Seq(Item)
    /\ write_head + job.advance <= MaxTime

\* The consumer is as far as its segments say, with a slice in its hand or without, and
\* what it asked for ends before the last instant.
ConsumerTyped ==
    /\ read_head \in Nat
    /\ heard \in [at : Nat, items : Seq(Item), seen : 0..MaxTime]
    /\ iter \in IterState
    /\ iter.seen <= write_head /\ iter.seen <= MaxTime
    /\ iter.len <= capacity
    /\ iter.step = "idle" => iter.consumed = 0
    /\ Now + (IF iter.step = "slice" THEN iter.len ELSE 0) = read_head + iter.consumed
    /\ read_head + iter.consumed + iter.overflow + iter.readable + iter.underflow <= MaxTime
    /\ iter.readable > 0 => iter.cursor + iter.readable <= iter.seen

\* Marking and clearing a region gives a bitmap again.
LEMMA BitmapsMarked ==
    ASSUME NEW b \in Bitmap, BitmapInv(b), NEW start \in Nat, NEW len \in Nat, start + len <= capacity
    PROVE  /\ mark_region(b, start, len) \in Bitmap /\ BitmapInv(mark_region(b, start, len))
           /\ unmark_region(b, start, len) \in Bitmap /\ BitmapInv(unmark_region(b, start, len))
  <1>1. BitmapInv(mark_region(b, start, len)) /\ BitmapInv(unmark_region(b, start, len))
    BY MarkRegion, UnmarkRegion
  <1>2. mark_region(b, start, len) \in Bitmap
    <2>1. CASE len = 0
      BY <2>1 DEF mark_region
    <2>2. CASE len # 0
      <3> DEFINE words == [w \in Words |-> b.gap_bitmap[w] \cup Mask(w, start, start + len)]
      <3>1. mark_region(b, start, len) = [gap_bitmap |-> words, empty |-> FALSE]
        BY <2>2 DEF mark_region
      <3> HIDE DEF words
      <3>2. words \in [Words -> SUBSET Bit]
        BY <1>1, <3>1 DEF BitmapInv
      <3> QED
        BY <3>1, <3>2 DEF Bitmap
    <2> QED
      BY <2>1, <2>2
  <1>3. unmark_region(b, start, len) \in Bitmap
    <2>1. CASE len = 0 \/ b.empty
      BY <2>1 DEF unmark_region
    <2>2. CASE ~(len = 0 \/ b.empty)
      <3> DEFINE words == [w \in Words |-> b.gap_bitmap[w] \ Mask(w, start, start + len)]
                 none == \A w \in Words : words[w] = {}
      <3>1. unmark_region(b, start, len) = [gap_bitmap |-> words, empty |-> none]
        BY <2>2 DEF unmark_region
      <3>3. none \in BOOLEAN
        OBVIOUS
      <3> HIDE DEF words, none
      <3>2. words \in [Words -> SUBSET Bit]
        BY <1>1, <3>1 DEF BitmapInv
      <3> QED
        BY <3>1, <3>2, <3>3 DEF Bitmap
    <2> QED
      BY <2>1, <2>2
  <1> QED
    BY <1>1, <1>2, <1>3

\* So does marking, or clearing, a lap.
LEMMA LapsMarked ==
    ASSUME NEW b \in Bitmap, BitmapInv(b), NEW h \in 0..(capacity - 1), NEW n \in 0..capacity
    PROVE  /\ MarkGaps(b, h, n) \in Bitmap
           /\ LET first == Lesser(capacity - h, n)
              IN  unmark_region(unmark_region(b, h, first), 0, n - first) \in Bitmap
  <1> PICK first \in Nat : first = Lesser(capacity - h, n)
    BY LapBounds
  <1>1. h \in Nat /\ h + first <= capacity /\ n - first \in Nat /\ 0 + (n - first) <= capacity /\ 0 \in Nat
    BY LapBounds
  <1> PICK m, u : m = mark_region(b, h, first) /\ u = unmark_region(b, h, first)
    OBVIOUS
  <1>2. m \in Bitmap /\ BitmapInv(m) /\ u \in Bitmap /\ BitmapInv(u)
    BY <1>1, BitmapsMarked
  <1>3. mark_region(m, 0, n - first) \in Bitmap /\ unmark_region(u, 0, n - first) \in Bitmap
    BY <1>1, <1>2, BitmapsMarked
  <1> QED
    BY <1>3 DEF MarkGaps

\* A call stores samples and appends them to the timeline.
LEMMA StoreTyped ==
    ASSUME GapsInv, StorageTyped, NEW n \in Nat \ {0}, NEW input \in Seq(Sample), Len(input) = n,
           Store(input)
    PROVE  StorageTyped'
  <1> PICK c \in Nat \ {0} : c = capacity
    BY BitmapAssumption
  <1> PICK m \in 1..n : m = Lesser(n, c)
    BY DEF Lesser
  <1> PICK src : src = SubSeq(input, n - m + 1, n)
    OBVIOUS
  <1> PICK h \in 0..(c - 1) : h = write_head % c
    BY DivMod DEF GapsInv
  <1>1. /\ job.step = "idle"
        /\ write_head + n <= MaxTime
        /\ ring' = [s \in Slot |-> IF s \in h..(h + m - 1) THEN src[s - h + 1] ELSE ring[s]]
        /\ job' = [step |-> "stored", stored |-> src, advance |-> n]
        /\ timeline' = timeline \o input
        /\ UNCHANGED <<write_head, gaps>>
    BY DEF Store, logical_to_ring_index
  <1>2. src \in Seq(Sample) /\ Len(src) = m /\ \A i \in 1..m : src[i] \in Sample
    <2>1. \A i \in (n - m + 1)..n : input[i] \in Sample
      <3>1. \A i \in 1..n : input[i] \in Sample
        BY ElementOfSeq
      <3>2. \A i \in (n - m + 1)..n : i \in 1..n
        OBVIOUS
      <3> QED
        BY <3>1, <3>2
    <2>2. n - m + 1 \in Int /\ n \in Int
      OBVIOUS
    <2>3. /\ src \in Seq(Sample)
          /\ Len(src) = IF n - m + 1 <= n THEN n - (n - m + 1) + 1 ELSE 0
      BY <2>1, <2>2, SubSeqProperties
    <2>4. n - m + 1 <= n /\ n - (n - m + 1) + 1 = m
      BY ONLY n \in Nat \ {0}, m \in 1..n
    <2>5. Len(src) = m
      BY <2>3, <2>4
    <2> QED
      BY <2>3, <2>5, ElementOfSeq
  <1>3. ring' \in [Slot -> Sample]
    <2>1. ASSUME NEW s \in Slot, s \in h..(h + m - 1)
          PROVE  src[s - h + 1] \in Sample
      <3>1. s - h + 1 \in 1..m
        BY ONLY <2>1, h \in 0..(c - 1), c \in Nat \ {0}, m \in 1..n, n \in Nat \ {0}
      <3> QED
        BY <1>2, <3>1
    <2> QED
      BY <1>1, <2>1 DEF StorageTyped
  <1>4. job' \in [step : {"idle", "stored", "committed"}, stored : Seq(Sample), advance : Nat]
    BY <1>1, <1>2
  <1>5. timeline' \in Seq(Item)
    <2>1. input \in Seq(Item)
      <3>1. Sample \subseteq Item
        BY RingAssumption DEF Sample, Item
      <3>2. \A i \in 1..n : input[i] \in Item
        BY <3>1, ElementOfSeq
      <3>3. input = [i \in 1..n |-> input[i]]
        BY LenProperties
      <3>4. input \in [1..n -> Item]
        BY <3>2, <3>3
      <3> QED
        BY <3>4, FunctionSeq
    <2> QED
      BY <1>1, <2>1, ConcatProperties DEF StorageTyped
  <1>6. write_head' + job'.advance <= MaxTime
    BY <1>1
  <1> QED
    BY <1>1, <1>3, <1>4, <1>5, <1>6 DEF StorageTyped

\* A call that marks gaps.
LEMMA AdvanceTyped ==
    ASSUME GapsInv, StorageTyped, advance_timeline
    PROVE  StorageTyped'
  <1> PICK size \in AdvanceSizes :
         /\ write_head + size <= MaxTime
         /\ gaps' = MarkGaps(gaps, write_head % capacity, Lesser(size, capacity))
         /\ job' = [NoJob EXCEPT !.step = "stored", !.advance = size]
         /\ timeline' = timeline \o Gaps(size)
         /\ UNCHANGED <<write_head, ring>>
    BY DEF advance_timeline, logical_to_ring_index
  <1>1. size \in Nat
    BY RingAssumption
  <1>2. write_head % capacity \in 0..(capacity - 1) /\ Lesser(size, capacity) \in 0..capacity
    BY <1>1, BitmapAssumption, DivMod DEF Lesser, GapsInv
  <1>3. gaps' \in Bitmap
    BY <1>2, LapsMarked DEF StorageTyped, GapsInv
  <1>4. /\ job' \in [step : {"idle", "stored", "committed"}, stored : Seq(Sample), advance : Nat]
        /\ job'.advance = size
    <2>1. job' = [step |-> "stored", stored |-> <<>>, advance |-> size]
      BY DEF NoJob
    <2>2. <<>> \in Seq(Sample)
      OBVIOUS
    <2> QED
      BY ONLY <1>1, <2>1, <2>2
  <1>5. Gaps(size) \in Seq(Item)
    BY <1>1, RingAssumption, FunctionSeq DEF Gaps, Gap, Item
  <1>6. timeline' \in Seq(Item)
    BY <1>5, ConcatProperties DEF StorageTyped
  <1> QED
    BY <1>3, <1>4, <1>6 DEF StorageTyped

\* The mirror is synced from the ring and the gaps under the samples are cleared.
LEMMA CommitTyped ==
    ASSUME GapsInv, StorageTyped, CommitSlots
    PROVE  StorageTyped'
  <1>1. /\ job.step = "stored"
        /\ ring' = Mirrored(write_head % capacity, Len(job.stored))
        /\ job' = [job EXCEPT !.step = "committed"]
        /\ UNCHANGED <<write_head, timeline>>
        /\ gaps' = LET phys == Len(job.stored)
                       head == write_head % capacity
                       first_len == Lesser(capacity - head, phys)
                   IN  unmark_region(unmark_region(gaps, head, first_len), 0, phys - first_len)
    BY DEF CommitSlots, logical_to_ring_index
  <1>2. ring' \in [Slot -> Sample]
    <2> PICK c \in Nat \ {0} : c = capacity
      BY BitmapAssumption
    <2>1. \A s \in Slot : (s >= c => s - c \in Slot) /\ (s < c => s + c \in Slot)
      BY DEF Slot
    <2>2. \A s \in Slot : ring[s] \in Sample
      BY DEF StorageTyped
    <2>3. ASSUME NEW h, NEW n, NEW s \in Slot
          PROVE  Mirrored(h, n)[s] \in Sample
      BY <2>1, <2>2 DEF Mirrored
    <2>4. \A h, n : Mirrored(h, n) = [s \in Slot |-> Mirrored(h, n)[s]]
      BY DEF Mirrored
    <2> QED
      BY <1>1, <2>3, <2>4
  <1>3. Len(job.stored) \in 0..capacity
    <2>1. job.stored \in Seq(Sample)
      BY DEF StorageTyped
    <2>2. CASE job.stored = <<>>
      <3>1. Len(job.stored) = 0
        BY <2>2
      <3> QED
        BY <3>1, BitmapAssumption
    <2>3. CASE job.stored # <<>>
      <3>1. Len(job.stored) = Lesser(job.advance, capacity) /\ job.advance \in Nat
        BY <1>1, <2>3 DEF GapsInv, SamplesStored
      <3> QED
        BY <3>1, BitmapAssumption DEF Lesser
    <2> QED
      BY <2>2, <2>3
  <1>4. write_head % capacity \in 0..(capacity - 1)
    BY BitmapAssumption, DivMod DEF GapsInv
  <1>5. gaps' \in Bitmap
    BY <1>1, <1>3, <1>4, LapsMarked DEF StorageTyped, GapsInv
  <1>6. /\ job' \in [step : {"idle", "stored", "committed"}, stored : Seq(Sample), advance : Nat]
        /\ job'.advance = job.advance
    BY <1>1 DEF StorageTyped
  <1> QED
    BY <1>1, <1>2, <1>5, <1>6 DEF StorageTyped

\* The head moves to where the call ends.
LEMMA AdvanceHeadTyped ==
    ASSUME GapsInv, StorageTyped, AdvanceHead
    PROVE  StorageTyped'
  <1>1. /\ write_head' = write_head + job.advance /\ job' = NoJob
        /\ UNCHANGED <<ring, gaps, timeline>>
    BY DEF AdvanceHead
  <1>2. job' \in [step : {"idle", "stored", "committed"}, stored : Seq(Sample), advance : Nat]
    <2>1. <<>> \in Seq(Sample)
      OBVIOUS
    <2> QED
      BY ONLY <1>1, <2>1 DEF NoJob
  <1>3. write_head' + job'.advance <= MaxTime
    <2> PICK e \in Nat : e = write_head + job.advance
      BY DEF GapsInv
    <2>1. write_head' = e /\ job'.advance = 0 /\ e <= MaxTime
      BY <1>1 DEF NoJob, StorageTyped
    <2> QED
      BY <2>1
  <1> QED
    BY <1>1, <1>2, <1>3 DEF StorageTyped

\* The parts of the consumer's state.
LEMMA ConsumerFields ==
    ASSUME ConsumerTyped
    PROVE  /\ read_head \in Nat /\ Now \in Nat /\ heard.at \in Nat /\ Len(heard.items) \in Nat
           /\ iter.cursor \in Nat /\ iter.overflow \in Nat /\ iter.readable \in Nat
           /\ iter.underflow \in Nat /\ iter.consumed \in Nat /\ iter.seen \in 0..MaxTime
           /\ iter.len \in Nat /\ iter.readable <= capacity /\ iter.seen \in Nat
  <1>1. heard \in [at : Nat, items : Seq(Item), seen : 0..MaxTime]
    BY DEF ConsumerTyped
  <1>2. heard.at \in Nat /\ Len(heard.items) \in Nat
    BY <1>1
  <1>3. iter \in IterState /\ iter.seen <= MaxTime
    BY DEF ConsumerTyped
  <1>4. /\ iter.cursor \in Nat /\ iter.overflow \in Nat /\ iter.readable \in 0..capacity
        /\ iter.underflow \in Nat /\ iter.consumed \in Nat /\ iter.seen \in Nat /\ iter.len \in Nat
    BY ONLY <1>3 DEF IterState
  <1>5. iter.readable \in Nat /\ iter.readable <= capacity /\ iter.seen \in 0..MaxTime
    BY ONLY <1>3, <1>4, BitmapAssumption, RingAssumption
  <1>6. Now \in Nat
    BY ONLY <1>2 DEF Now
  <1> QED
    BY <1>2, <1>4, <1>5, <1>6 DEF ConsumerTyped

\* The consumer hears n more items.
LEMMA ItemsHeard ==
    ASSUME ConsumerTyped, NEW items \in Seq(Item), NEW n \in Nat, Len(items) = n, Hear(items)
    PROVE  heard' \in [at : Nat, items : Seq(Item), seen : 0..MaxTime] /\ Now' = Now + n
  <1>1. Now \in Nat /\ iter.seen \in 0..MaxTime
    BY ConsumerFields
  <1>2. heard' = [at |-> Now, items |-> items, seen |-> iter.seen]
    BY DEF Hear, Now
  <1>3. heard'.at = Now /\ Len(heard'.items) = n
    BY <1>2
  <1> QED
    BY <1>1, <1>2, <1>3 DEF Now

\* The same item n times is a sequence of items.
LEMMA RepeatItems ==
    ASSUME NEW x \in Item, NEW n \in Nat
    PROVE  Repeat(x, n) \in Seq(Item) /\ Len(Repeat(x, n)) = n
  BY FunctionSeq DEF Repeat


\* A snapshot divides what is asked for into lost, readable and late instants.
LEMMA SegmentsTyped ==
    ASSUME GapsInv, StorageTyped, ConsumerTyped, NEW requested \in Nat, NEW u,
           iter_segments(requested, u)
    PROVE  ConsumerTyped'
  <1> PICK c \in Nat \ {0}, wh \in Nat, rh \in Nat, rq \in Nat :
         c = capacity /\ wh = write_head /\ rh = read_head /\ rq = requested
    BY BitmapAssumption, ConsumerFields DEF GapsInv
  <1> PICK lost \in Nat : lost = saturating_sub(saturating_sub(wh, c), rh)
    BY DEF saturating_sub
  <1> PICK ov \in Nat : ov = Lesser(lost, rq) /\ ov <= rq
    BY DEF Lesser
  <1> PICK cu \in Nat, rm \in Nat : cu = rh + ov /\ rm = rq - ov
    OBVIOUS
  <1> PICK ahead \in Nat : ahead = saturating_sub(wh, cu) /\ (ahead > 0 => cu + ahead <= wh)
    BY DEF saturating_sub
  <1> PICK near \in 0..c : near = Lesser(ahead, c) /\ near <= ahead
    BY DEF Lesser
  <1> PICK rd \in 0..c : rd = Lesser(near, rm) /\ rd <= rm /\ rd <= near
    BY DEF Lesser
  <1> PICK uf \in Nat : uf = (IF u THEN rm - rd ELSE 0) /\ rd + uf <= rm
    <2>1. rm - rd \in Nat
      OBVIOUS
    <2> QED
      BY <2>1
  <1>1. /\ iter.step = "idle" /\ rh + rq <= MaxTime
        /\ iter' = [step |-> "open", cursor |-> cu, overflow |-> ov, readable |-> rd,
                    underflow |-> uf, consumed |-> 0, seen |-> wh, len |-> 0]
        /\ UNCHANGED <<write_head, read_head, ring, gaps, job, timeline, heard>>
    BY DEF iter_segments
  <1>2. rd > 0 => cu + rd <= wh
    OBVIOUS
  <1>3. wh <= MaxTime
    <2>1. write_head + job.advance <= MaxTime /\ job.advance \in Nat
      BY DEF StorageTyped, GapsInv
    <2> QED
      BY <2>1, RingAssumption
  <1>4. /\ iter' \in IterState
        /\ iter'.step = "open" /\ iter'.cursor = cu /\ iter'.overflow = ov /\ iter'.readable = rd
        /\ iter'.underflow = uf /\ iter'.consumed = 0 /\ iter'.seen = wh /\ iter'.len = 0
    BY <1>1 DEF IterState
  <1>5. rh + 0 + ov + rd + uf <= MaxTime
    <2>1. rh + rq <= MaxTime /\ MaxTime \in Nat
      BY <1>1, RingAssumption
    <2> QED
      BY ONLY <2>1, rh \in Nat, rq \in Nat, ov \in Nat, rm = rq - ov, rd \in 0..c,
              c \in Nat \ {0}, uf \in Nat, rd + uf <= rm
  <1>6. Now' + 0 = read_head' + 0 /\ heard' = heard /\ read_head' = rh
    <2>1. Now' = Now
      BY <1>1 DEF Now
    <2> QED
      BY <2>1, <1>1, ConsumerFields DEF ConsumerTyped
  <1> QED
    BY <1>1, <1>2, <1>3, <1>4, <1>5, <1>6 DEF ConsumerTyped

\* Lost instants are told.
LEMMA OverflowTyped ==
    ASSUME ConsumerTyped, NextOverflow
    PROVE  ConsumerTyped'
  <1> PICK ov \in Nat, co \in Nat, rh \in Nat, rd \in Nat, uf \in Nat, p \in Nat :
         /\ ov = iter.overflow /\ co = iter.consumed /\ rh = read_head /\ rd = iter.readable
         /\ uf = iter.underflow /\ p = Now
    BY ConsumerFields
  <1> PICK it \in IterState : it = iter
    BY DEF ConsumerTyped
  <1> PICK nco \in Nat : nco = co + ov
    OBVIOUS
  <1> PICK new : new = iter'
    OBVIOUS
  <1>1. /\ it.step = "open" /\ Hear(Repeat(Lost, ov))
        /\ new = [it EXCEPT !.overflow = 0, !.consumed = nco]
        /\ UNCHANGED <<write_head, read_head>>
    BY DEF NextOverflow
  <1>2. /\ new \in IterState /\ new.overflow = 0 /\ new.consumed = nco
        /\ new.step = it.step /\ new.cursor = it.cursor /\ new.readable = it.readable
        /\ new.underflow = it.underflow /\ new.seen = it.seen /\ new.len = it.len
    BY ONLY <1>1, it \in IterState, nco \in Nat DEF IterState
  <1>3. Lost \in Item
    BY RingAssumption DEF Lost, Item
  <1>4. heard' \in [at : Nat, items : Seq(Item), seen : 0..MaxTime] /\ Now' = p + ov
    BY <1>1, <1>3, RepeatItems, ItemsHeard
  <1>5. Now' + 0 = rh + nco
    <2>1. p + 0 = rh + co
      BY <1>1 DEF ConsumerTyped
    <2> QED
      BY ONLY <2>1, <1>4, nco = co + ov, p \in Nat, ov \in Nat, co \in Nat, rh \in Nat
  <1>6. rh + nco + 0 + rd + uf <= MaxTime
    <2>1. rh + co + ov + rd + uf <= MaxTime
      BY DEF ConsumerTyped
    <2> QED
      BY ONLY <2>1, nco = co + ov, ov \in Nat, co \in Nat, rh \in Nat, rd \in Nat, uf \in Nat
  <1> QED
    BY <1>1, <1>2, <1>4, <1>5, <1>6 DEF ConsumerTyped

\* Late instants are told.
LEMMA UnderflowTyped ==
    ASSUME ConsumerTyped, NextUnderflow
    PROVE  ConsumerTyped'
  <1> PICK ov \in Nat, co \in Nat, rh \in Nat, rd \in Nat, uf \in Nat, p \in Nat :
         /\ ov = iter.overflow /\ co = iter.consumed /\ rh = read_head /\ rd = iter.readable
         /\ uf = iter.underflow /\ p = Now
    BY ConsumerFields
  <1> PICK it \in IterState : it = iter
    BY DEF ConsumerTyped
  <1> PICK nco \in Nat : nco = co + uf
    OBVIOUS
  <1> PICK new : new = iter'
    OBVIOUS
  <1>1. /\ it.step = "open" /\ Hear(Repeat(Late, uf))
        /\ new = [it EXCEPT !.underflow = 0, !.consumed = nco]
        /\ UNCHANGED <<write_head, read_head>>
    BY DEF NextUnderflow
  <1>2. /\ new \in IterState /\ new.underflow = 0 /\ new.consumed = nco
        /\ new.step = it.step /\ new.cursor = it.cursor /\ new.readable = it.readable
        /\ new.overflow = it.overflow /\ new.seen = it.seen /\ new.len = it.len
    BY ONLY <1>1, it \in IterState, nco \in Nat DEF IterState
  <1>3. Late \in Item
    BY RingAssumption DEF Late, Item
  <1>4. heard' \in [at : Nat, items : Seq(Item), seen : 0..MaxTime] /\ Now' = p + uf
    BY <1>1, <1>3, RepeatItems, ItemsHeard
  <1>5. Now' + 0 = rh + nco
    <2>1. p + 0 = rh + co
      BY <1>1 DEF ConsumerTyped
    <2> QED
      BY ONLY <2>1, <1>4, nco = co + uf, p \in Nat, uf \in Nat, co \in Nat, rh \in Nat
  <1>6. rh + nco + ov + rd + 0 <= MaxTime
    <2>1. rh + co + ov + rd + uf <= MaxTime
      BY DEF ConsumerTyped
    <2> QED
      BY ONLY <2>1, nco = co + uf, ov \in Nat, co \in Nat, rh \in Nat, rd \in Nat, uf \in Nat
  <1> QED
    BY <1>1, <1>2, <1>4, <1>5, <1>6 DEF ConsumerTyped

\* A stretch of gaps is told, or a slice taken: no more than is readable.
LEMMA ReadableTyped ==
    ASSUME GapsInv, ConsumerTyped, NextReadable
    PROVE  ConsumerTyped'
  <1> PICK c \in Nat \ {0}, ov \in Nat, co \in Nat, rh \in Nat, rd \in Nat, uf \in Nat, p \in Nat, cu \in Nat, se \in Nat :
         /\ c = capacity
         /\ ov = iter.overflow /\ co = iter.consumed /\ rh = read_head /\ rd = iter.readable
         /\ uf = iter.underflow /\ p = Now /\ cu = iter.cursor /\ se = iter.seen
    BY BitmapAssumption, ConsumerFields
  <1> PICK it \in IterState : it = iter
    BY DEF ConsumerTyped
  <1> PICK gap : gap = search_gap_abs(cu, rd)
    OBVIOUS
  <1> PICK len : len = (IF gap[1] = cu THEN gap[2] ELSE IF gap = NoGap THEN rd ELSE gap[1] - cu)
    OBVIOUS
  <1> PICK new : new = iter'
    OBVIOUS
  <1> PICK st : st = (IF gap[1] = cu THEN "open" ELSE "slice")
    OBVIOUS
  <1>1. /\ it.step = "open" /\ it.overflow = 0 /\ rd > 0
        /\ new = [it EXCEPT !.step = st, !.len = len, !.cursor = @ + len, !.readable = @ - len,
                            !.consumed = @ + len]
        /\ IF st = "open" THEN Hear(Repeat(Gap, len)) ELSE UNCHANGED heard
        /\ UNCHANGED <<write_head, read_head>>
    BY DEF NextReadable
  <1>2. len \in 1..rd /\ rd <= c
    <2>1. rd \in 1..capacity
      BY <1>1, ConsumerFields
    <2>2. cu + rd <= write_head
      <3>1. cu + rd <= se /\ se <= write_head /\ write_head \in Nat
        BY <1>1 DEF ConsumerTyped, GapsInv
      <3> QED
        BY ONLY <3>1, cu \in Nat, rd \in Nat, se \in Nat
    <2> QED
      BY <2>1, <2>2, SegmentFound DEF Segment
  <1> PICK nco \in Nat, ncu \in Nat, nrd \in 0..c : nco = co + len /\ ncu = cu + len /\ nrd = rd - len
    <2>1. co + len \in Nat /\ cu + len \in Nat /\ rd - len \in 0..c
      BY ONLY <1>2, co \in Nat, cu \in Nat, rd \in Nat, c \in Nat \ {0}
    <2> QED
      BY <2>1
  <1>3. /\ new \in IterState /\ new.step = st /\ new.len = len /\ new.cursor = ncu
        /\ new.readable = nrd /\ new.consumed = nco
        /\ new.overflow = it.overflow /\ new.underflow = it.underflow /\ new.seen = it.seen
    <2>1. new = [it EXCEPT !.step = st, !.len = len, !.cursor = ncu, !.readable = nrd, !.consumed = nco]
      BY <1>1
    <2>2. st \in {"open", "slice"} /\ len \in Nat
      BY <1>2
    <2> QED
      BY ONLY <2>1, <2>2, it \in IterState, ncu \in Nat, nco \in Nat, nrd \in 0..c, c = capacity DEF IterState
  <1>4. heard' \in [at : Nat, items : Seq(Item), seen : 0..MaxTime]
        /\ Now' = IF st = "open" THEN p + len ELSE p
    <2>1. CASE st = "open"
      <3>1. Gap \in Item /\ len \in Nat
        BY <1>2, RingAssumption DEF Gap, Item
      <3> PICK items : items = Repeat(Gap, len)
        OBVIOUS
      <3>2. items \in Seq(Item) /\ Len(items) = len
        BY <3>1, RepeatItems
      <3>3. Hear(items)
        BY <1>1, <2>1
      <3>4. heard' \in [at : Nat, items : Seq(Item), seen : 0..MaxTime] /\ Now' = Now + len
        BY ONLY ConsumerTyped, <3>1, <3>2, <3>3, ItemsHeard
      <3> QED
        BY <2>1, <3>4
    <2>2. CASE st # "open"
      <3>1. heard' = heard /\ heard \in [at : Nat, items : Seq(Item), seen : 0..MaxTime]
        BY <1>1, <2>2 DEF ConsumerTyped
      <3>2. Now' = Now
        BY ONLY <3>1 DEF Now
      <3> QED
        BY <2>2, <3>1, <3>2
    <2> QED
      BY <2>1, <2>2
  <1>5. Now' + (IF st = "slice" THEN len ELSE 0) = rh + nco
    <2>1. p + 0 = rh + co
      BY <1>1 DEF ConsumerTyped
    <2>2. st = "open" \/ st = "slice"
      OBVIOUS
    <2>3. len \in Nat
      BY <1>2
    <2> QED
      BY ONLY <2>1, <2>2, <2>3, <1>4, nco = co + len, p \in Nat, co \in Nat, rh \in Nat
  <1>6. rh + nco + 0 + nrd + uf <= MaxTime
    <2>1. rh + co + ov + rd + uf <= MaxTime /\ ov = 0
      BY <1>1 DEF ConsumerTyped
    <2> QED
      BY ONLY <2>1, <1>2, nco = co + len, nrd = rd - len, co \in Nat, rh \in Nat, rd \in Nat, uf \in Nat
  <1>7. nrd > 0 => ncu + nrd <= se
    <2>1. cu + rd <= se
      BY <1>1 DEF ConsumerTyped
    <2> QED
      BY ONLY <2>1, <1>2, ncu = cu + len, nrd = rd - len, cu \in Nat, rd \in Nat, se \in Nat
  <1>8. len <= capacity
    BY ONLY <1>2, rd \in Nat, c \in Nat \ {0}, c = capacity
  <1>9. st # "idle" /\ se <= write_head' /\ se <= MaxTime /\ read_head' = rh /\ rh \in Nat
    BY <1>1 DEF ConsumerTyped
  <1>10. /\ iter' \in IterState /\ iter'.step = st /\ iter'.len = len /\ iter'.cursor = ncu
         /\ iter'.readable = nrd /\ iter'.consumed = nco
         /\ iter'.overflow = 0 /\ iter'.underflow = uf /\ iter'.seen = se
    BY <1>1, <1>3
  <1>11. Now' + (IF iter'.step = "slice" THEN iter'.len ELSE 0) = read_head' + iter'.consumed
    BY ONLY <1>5, <1>9, <1>10
  <1>12. read_head' + iter'.consumed + iter'.overflow + iter'.readable + iter'.underflow <= MaxTime
    BY ONLY <1>6, <1>9, <1>10
  <1>13. iter'.readable > 0 => iter'.cursor + iter'.readable <= iter'.seen
    BY ONLY <1>7, <1>10
  <1>14. /\ read_head' \in Nat /\ iter'.seen <= write_head' /\ iter'.seen <= MaxTime
         /\ iter'.len <= capacity /\ iter'.step # "idle"
    BY ONLY <1>8, <1>9, <1>10
  <1> QED
    BY ONLY <1>4, <1>10, <1>11, <1>12, <1>13, <1>14 DEF ConsumerTyped

\* The slice is copied.
LEMMA CopyTyped ==
    ASSUME StorageTyped, ConsumerTyped, CopySlice
    PROVE  ConsumerTyped'
  <1> PICK c \in Nat \ {0}, co \in Nat, rh \in Nat, p \in Nat, len \in Nat :
         /\ c = capacity /\ co = iter.consumed /\ rh = read_head /\ p = Now /\ len = iter.len
    BY BitmapAssumption, ConsumerFields
  <1> PICK it \in IterState : it = iter
    BY DEF ConsumerTyped
  <1> PICK new : new = iter'
    OBVIOUS
  <1> PICK h : h = (iter.cursor - len) % c
    OBVIOUS
  <1>1. /\ it.step = "slice" /\ new = [it EXCEPT !.step = "open"]
        /\ Hear([i \in 1..len |-> ring[h + i - 1]])
        /\ UNCHANGED <<write_head, read_head>>
    BY DEF CopySlice, logical_to_ring_index
  <1>2. /\ new \in IterState /\ new.step = "open" /\ new.overflow = it.overflow
        /\ new.consumed = it.consumed /\ new.cursor = it.cursor /\ new.readable = it.readable
        /\ new.underflow = it.underflow /\ new.seen = it.seen /\ new.len = it.len
    BY ONLY <1>1, it \in IterState DEF IterState
  <1>3. h \in 0..(c - 1)
    <2>1. iter.cursor - len \in Int
      BY ConsumerFields
    <2> QED
      BY ONLY <2>1, h = (iter.cursor - len) % c, c \in Nat \ {0}
  <1>4. \A i \in 1..len : ring[h + i - 1] \in Item
    <2>1. len <= c
      BY DEF ConsumerTyped
    <2>2. \A i \in 1..len : h + i - 1 \in 0..(2 * c - 1)
      BY ONLY <1>3, <2>1, len \in Nat, c \in Nat \ {0}
    <2>3. Sample \subseteq Item
      BY RingAssumption DEF Sample, Item
    <2> QED
      BY <2>2, <2>3 DEF StorageTyped, Slot
  <1> PICK items \in Seq(Item) : items = [i \in 1..len |-> ring[h + i - 1]] /\ Len(items) = len
    BY <1>4, FunctionSeq
  <1>5. heard' \in [at : Nat, items : Seq(Item), seen : 0..MaxTime] /\ Now' = p + len
    BY <1>1, ItemsHeard
  <1>6. Now' + 0 = rh + co
    <2>1. p + len = rh + co
      BY <1>1 DEF ConsumerTyped
    <2> QED
      BY ONLY <2>1, <1>5, p \in Nat, len \in Nat
  <1> QED
    BY <1>1, <1>2, <1>5, <1>6 DEF ConsumerTyped

\* What was yielded is committed.
LEMMA DropTyped ==
    ASSUME GapsInv, ConsumerTyped, DropIter
    PROVE  ConsumerTyped'
  <1> PICK c \in Nat \ {0}, ov \in Nat, co \in Nat, rh \in Nat, rd \in Nat, uf \in Nat, p \in Nat :
         /\ c = capacity
         /\ ov = iter.overflow /\ co = iter.consumed /\ rh = read_head /\ rd = iter.readable
         /\ uf = iter.underflow /\ p = Now
    BY BitmapAssumption, ConsumerFields
  <1> PICK to \in Nat : to = rh + co
    OBVIOUS
  <1>1. /\ iter.step = "open" /\ read_head' = to /\ iter' = NoIter
        /\ heard' = [at |-> p, items |-> <<>>, seen |-> 0]
        /\ write_head' = write_head
    BY DEF DropIter, Now
  <1>2. p + 0 = to + 0
    <2>1. p + 0 = rh + co
      BY <1>1 DEF ConsumerTyped
    <2> QED
      BY ONLY <2>1, to \in Nat, to = rh + co
  <1>3. heard' \in [at : Nat, items : Seq(Item), seen : 0..MaxTime] /\ Now' = p
    <2>1. <<>> \in Seq(Item) /\ Len(<<>>) = 0
      OBVIOUS
    <2>2. heard'.at = p /\ heard'.items = <<>>
      BY <1>1
    <2> QED
      BY <1>1, <2>1, <2>2, RingAssumption DEF Now
  <1>4. /\ iter' \in IterState /\ iter'.step = "idle" /\ iter'.overflow = 0 /\ iter'.consumed = 0
        /\ iter'.readable = 0 /\ iter'.underflow = 0 /\ iter'.seen = 0 /\ iter'.len = 0
    BY ONLY <1>1, BitmapAssumption DEF NoIter, IterState
  <1>5. to + 0 + 0 + 0 + 0 <= MaxTime
    <2>1. rh + co + ov + rd + uf <= MaxTime
      BY DEF ConsumerTyped
    <2> QED
      BY ONLY <2>1, ov \in Nat, co \in Nat, rh \in Nat, rd \in Nat, uf \in Nat, to = rh + co, RingAssumption
  <1>6. 0 <= write_head' /\ 0 <= MaxTime /\ 0 <= capacity
    <2>1. write_head \in Nat
      BY DEF GapsInv
    <2> QED
      BY <1>1, <2>1, RingAssumption, BitmapAssumption
  <1> QED
    BY <1>1, <1>2, <1>3, <1>4, <1>5, <1>6 DEF ConsumerTyped

\* A step of the producer may only move the head forward.
LEMMA ConsumerStays ==
    ASSUME GapsInv, ConsumerTyped, UNCHANGED <<read_head, iter, heard>>,
           NEW n \in Nat, write_head' = write_head + n
    PROVE  ConsumerTyped'
  <1>1. iter.seen <= write_head'
    <2>1. iter.seen <= write_head /\ iter.seen \in Nat /\ write_head \in Nat
      BY ConsumerFields DEF ConsumerTyped, GapsInv
    <2> QED
      BY <2>1
  <1>2. Now' = Now
    BY DEF Now
  <1> QED
    BY <1>1, <1>2 DEF ConsumerTyped

\* Everything the types need.
TypedInv == GapsInv /\ StorageTyped /\ ConsumerTyped

\* The types hold at the start.
LEMMA TypedInit ==
    ASSUME Init
    PROVE  TypedInv
  <1>1. /\ write_head = 0 /\ read_head = 0 /\ ring = [s \in Slot |-> 0] /\ gaps = NewBitmap
        /\ job = NoJob /\ iter = NoIter /\ timeline = <<>>
        /\ heard = [at |-> 0, items |-> <<>>, seen |-> 0]
    BY DEF Init, Default
  <1>2. GapsInv
    BY GapsInit
  <1>3. StorageTyped
    <2>1. ring \in [Slot -> Sample]
      BY <1>1, RingAssumption DEF Sample
    <2>2. gaps \in Bitmap
      BY <1>1 DEF NewBitmap, Bitmap
    <2>3. <<>> \in Seq(Sample) /\ <<>> \in Seq(Item)
      OBVIOUS
    <2>4. /\ job \in [step : {"idle", "stored", "committed"}, stored : Seq(Sample), advance : Nat]
          /\ job.advance = 0
      BY ONLY <1>1, <2>3 DEF NoJob
    <2> QED
      BY <1>1, <2>1, <2>2, <2>3, <2>4, RingAssumption DEF StorageTyped
  <1>4. ConsumerTyped
    <2>1. /\ iter \in IterState /\ iter.step = "idle" /\ iter.overflow = 0 /\ iter.consumed = 0
          /\ iter.readable = 0 /\ iter.underflow = 0 /\ iter.seen = 0 /\ iter.len = 0
      BY ONLY <1>1, BitmapAssumption DEF NoIter, IterState
    <2>2. <<>> \in Seq(Item) /\ Len(<<>>) = 0
      OBVIOUS
    <2>3. heard \in [at : Nat, items : Seq(Item), seen : 0..MaxTime] /\ Now = 0
      BY <1>1, <2>2, RingAssumption DEF Now
    <2> QED
      BY <1>1, <2>1, <2>3, RingAssumption, BitmapAssumption DEF ConsumerTyped
  <1> QED
    BY <1>2, <1>3, <1>4 DEF TypedInv

\* They hold after every step.
LEMMA TypedStep ==
    ASSUME TypedInv, [Next]_vars
    PROVE  TypedInv'
  <1> USE DEF TypedInv
  <1>0. GapsInv'
    BY GapsStep
  <1>1. CASE write
    <2>1. PICK n \in WriteSizes : Store(Fresh(n))
      BY <1>1 DEF write
    <2>2. n \in Nat \ {0} /\ write_head \in Nat
      BY RingAssumption DEF GapsInv
    <2>3. Len(Fresh(n)) = n
      BY <2>2, FunctionSeq DEF Fresh
    <2>4. write_head + n <= MaxTime
      BY <2>1, <2>3 DEF Store
    <2>5. Fresh(n) \in Seq(Sample)
      <3>1. \A i \in 1..n : write_head + i \in Sample
        BY <2>2, <2>4, RingAssumption DEF Sample
      <3> QED
        BY <2>2, <3>1, FunctionSeq DEF Fresh
    <2>6. StorageTyped'
      BY <2>1, <2>2, <2>3, <2>5, StoreTyped
    <2>7. UNCHANGED <<read_head, iter, heard, write_head>> /\ write_head' = write_head + 0
      BY <2>1, <2>2 DEF Store
    <2> QED
      BY <1>0, <2>6, <2>7, ConsumerStays
  <1>2. CASE write_default
    <2>1. PICK n \in DefaultSizes : Store(Silence(n))
      BY <1>2 DEF write_default
    <2>2. n \in Nat \ {0} /\ write_head \in Nat /\ Default \in Sample
      BY RingAssumption DEF GapsInv, Default, Sample
    <2>3. Silence(n) \in Seq(Sample) /\ Len(Silence(n)) = n
      BY <2>2, FunctionSeq DEF Silence
    <2>4. StorageTyped'
      BY <2>1, <2>2, <2>3, StoreTyped
    <2>5. UNCHANGED <<read_head, iter, heard, write_head>> /\ write_head' = write_head + 0
      BY <2>1, <2>2 DEF Store
    <2> QED
      BY <1>0, <2>4, <2>5, ConsumerStays
  <1>3. CASE advance_timeline
    <2>1. UNCHANGED <<read_head, iter, heard, write_head>> /\ write_head' = write_head + 0
      BY <1>3 DEF advance_timeline, GapsInv
    <2> QED
      BY <1>0, <1>3, <2>1, AdvanceTyped, ConsumerStays
  <1>4. CASE CommitSlots
    <2>1. UNCHANGED <<read_head, iter, heard, write_head>> /\ write_head' = write_head + 0
      BY <1>4 DEF CommitSlots, GapsInv
    <2> QED
      BY <1>0, <1>4, <2>1, CommitTyped, ConsumerStays
  <1>5. CASE AdvanceHead
    <2>1. /\ UNCHANGED <<read_head, iter, heard>> /\ write_head' = write_head + job.advance
          /\ job.advance \in Nat
      BY <1>5 DEF AdvanceHead, GapsInv
    <2> QED
      BY <1>0, <1>5, <2>1, AdvanceHeadTyped, ConsumerStays
  <1>6. ASSUME UNCHANGED <<write_head, ring, gaps, job, timeline>>
        PROVE  StorageTyped'
    BY <1>6 DEF StorageTyped
  <1>7. CASE \E n \in Requests, u \in BOOLEAN : iter_segments(n, u)
    <2>1. PICK n \in Requests, u \in BOOLEAN : iter_segments(n, u)
      BY <1>7
    <2>2. n \in Nat
      BY RingAssumption
    <2>3. ConsumerTyped'
      BY <2>1, <2>2, SegmentsTyped
    <2>4. StorageTyped'
      BY <1>6, <2>1 DEF iter_segments
    <2> QED
      BY <1>0, <2>3, <2>4
  <1>8. CASE NextOverflow
    <2>1. StorageTyped'
      BY <1>6, <1>8 DEF NextOverflow
    <2> QED
      BY <1>0, <1>8, <2>1, OverflowTyped
  <1>9. CASE NextReadable
    <2>1. StorageTyped'
      BY <1>6, <1>9 DEF NextReadable
    <2> QED
      BY <1>0, <1>9, <2>1, ReadableTyped
  <1>10. CASE CopySlice
    <2>1. StorageTyped'
      BY <1>6, <1>10 DEF CopySlice
    <2> QED
      BY <1>0, <1>10, <2>1, CopyTyped
  <1>11. CASE NextUnderflow
    <2>1. StorageTyped'
      BY <1>6, <1>11 DEF NextUnderflow
    <2> QED
      BY <1>0, <1>11, <2>1, UnderflowTyped
  <1>12. CASE DropIter
    <2>1. StorageTyped'
      BY <1>6, <1>12 DEF DropIter
    <2> QED
      BY <1>0, <1>12, <2>1, DropTyped
  <1>13. CASE UNCHANGED vars
    BY <1>0, <1>13 DEF vars, StorageTyped, ConsumerTyped, Now
  <1> QED
    BY <1>1, <1>2, <1>3, <1>4, <1>5, <1>7, <1>8, <1>9, <1>10, <1>11, <1>12, <1>13 DEF Next

\* In every ring, for calls of any size: both heads stay on the timeline, every slot
\* holds a sample, a slice never leaves the ring, and no count of a read goes below
\* zero (iter_segments, RingSegments::next and write_commit_advance).
THEOREM RingTypesCorrect == Spec => []TypeOK
  <1>1. Init => TypedInv
    BY TypedInit
  <1>2. TypedInv /\ [Next]_vars => TypedInv'
    BY TypedStep
  <1>3. ASSUME TypedInv
        PROVE  TypeOK
    <2> USE <1>3 DEF TypedInv
    <2>1. write_head \in 0..MaxTime
      <3>1. write_head \in Nat /\ job.advance \in Nat /\ write_head + job.advance <= MaxTime
        BY DEF GapsInv, StorageTyped
      <3> QED
        BY <3>1, RingAssumption
    <2>2. read_head \in 0..MaxTime /\ heard.at \in 0..MaxTime
      <3> PICK rh \in Nat, co \in Nat, ov \in Nat, rd \in Nat, uf \in Nat, at \in Nat, n \in Nat, len \in Nat :
             /\ rh = read_head /\ co = iter.consumed /\ ov = iter.overflow /\ rd = iter.readable
             /\ uf = iter.underflow /\ at = heard.at /\ n = Len(heard.items) /\ len = iter.len
        BY ConsumerFields
      <3> PICK part \in Nat : part = IF iter.step = "slice" THEN len ELSE 0
        OBVIOUS
      <3>1. at + n + part = rh + co /\ rh + co + ov + rd + uf <= MaxTime
        BY DEF ConsumerTyped, Now
      <3>2. rh \in 0..MaxTime /\ at \in 0..MaxTime
        BY ONLY <3>1, RingAssumption, rh \in Nat, co \in Nat, ov \in Nat, rd \in Nat, uf \in Nat,
                at \in Nat, n \in Nat, part \in Nat
      <3> QED
        BY <3>2
    <2>3. heard \in [at : 0..MaxTime, items : Seq(Item), seen : 0..MaxTime]
      <3>1. heard \in [at : Nat, items : Seq(Item), seen : 0..MaxTime]
        BY DEF ConsumerTyped
      <3> QED
        BY <2>2, <3>1
    <2> QED
      BY <2>1, <2>2, <2>3 DEF TypeOK, StorageTyped, ConsumerTyped, IterState
  <1> QED
    BY <1>1, <1>2, <1>3, PTL DEF Spec
=============================================================================
