----------------------------- MODULE RingBuffer -----------------------------
(***************************************************************************)
(* The single-producer single-consumer audio ring buffer                   *)
(* (catplay_ring/src/ring_buffer.rs, ring_storage.rs) as its two threads   *)
(* see it.  Heads count samples since the start and never wrap; a sample   *)
(* of logical time t lives in slot t modulo capacity, and a second time in *)
(* the mirror, so that any capacity samples are contiguous.                *)
(*                                                                         *)
(* Nothing stops the producer from overwriting a slot that the consumer    *)
(* has in hand.  Storing samples, changing gap bits and moving the head    *)
(* are separate steps of the producer; taking the snapshot, finding a      *)
(* segment, copying it and committing are separate steps of the consumer.  *)
(***************************************************************************)
EXTENDS GapBitmap, Sequences

CONSTANTS
    WriteSizes,      \* bound: sizes of write() and of write_commit()
    DefaultSizes,    \* bound: sizes of write_default()
    AdvanceSizes,    \* bound: sizes of advance_timeline()
    Requests,        \* bound: sizes of iter_segments()
    MaxTime          \* bound: logical time the heads may reach

ASSUME RingAssumption ==
    /\ WriteSizes \cup DefaultSizes \cup AdvanceSizes \subseteq Nat \ {0}
    /\ Requests \subseteq Nat
    /\ MaxTime \in Nat

VARIABLES
    write_head, read_head,
    ring,        \* RingStorage: capacity slots and their mirror
    gaps,
    job,         \* the producer's call in progress
    iter,        \* the consumer's RingSegments
    timeline,    \* history: what the producer put at each logical time
    heard        \* history: the last segment the consumer got, and its time

vars == <<write_head, read_head, ring, gaps, job, iter, timeline, heard>>

Slot == 0..(2 * capacity - 1)

\* A sample is known by its logical time plus one; T::default() is 0.
Default == 0
Gap == -1         \* advance_timeline
Lost == -2        \* RingSegment::Overflow
Late == -3        \* RingSegment::Underflow
Sample == 0..MaxTime

\* A call of the producer: the samples it stored from write_head on, and by how much
\* it moves the head.
NoJob == [step |-> "idle", stored |-> <<>>, advance |-> 0]
NoIter == [step |-> "idle", cursor |-> 0, overflow |-> 0, readable |-> 0,
           underflow |-> 0, consumed |-> 0, seen |-> 0, len |-> 0]

Lesser(a, b) == IF a <= b THEN a ELSE b

\* Mutant: the difference wraps.
saturating_sub_Plain(a, b) == a - b

saturating_sub(a, b) == IF a >= b THEN a - b ELSE 0
logical_to_ring_index(t) == t % capacity

Init ==
    /\ write_head = 0
    /\ read_head = 0
    /\ ring = [s \in Slot |-> Default]
    /\ gaps = NewBitmap
    /\ job = NoJob
    /\ iter = NoIter
    /\ timeline = <<>>
    /\ heard = [at |-> 0, items |-> <<>>, seen |-> 0]
-----------------------------------------------------------------------------
(* The producer. *)

\* The samples a call appends to the timeline.
Fresh(n) == [i \in 1..n |-> write_head + i]
Silence(n) == [i \in 1..n |-> Default]
Gaps(n) == [i \in 1..n |-> Gap]

\* The last phys samples of the input go to writable_slice, from write_head on.
Store(input) ==
    LET phys == Lesser(Len(input), capacity)
        head == logical_to_ring_index(write_head)
        src == SubSeq(input, Len(input) - phys + 1, Len(input))
    IN  /\ job.step = "idle"
        /\ write_head + Len(input) <= MaxTime
        /\ ring' = [s \in Slot |-> IF s \in head..(head + phys - 1)
                                   THEN src[s - head + 1] ELSE ring[s]]
        /\ job' = [step |-> "stored", stored |-> src, advance |-> Len(input)]
        /\ timeline' = timeline \o input
        /\ UNCHANGED <<write_head, read_head, gaps, iter, heard>>

\* write(), or a decoder that fills writable_slice() before write_commit().
write == \E n \in WriteSizes : Store(Fresh(n))
write_default == \E n \in DefaultSizes : Store(Silence(n))

\* advance_timeline: mark before the head moves.
MarkGaps(b, head, n) ==
    LET first_len == Lesser(capacity - head, n)
    IN  mark_region(mark_region(b, head, first_len), 0, n - first_len)

advance_timeline ==
    \E size \in AdvanceSizes :
      /\ job.step = "idle"
      /\ write_head + size <= MaxTime
      /\ gaps' = MarkGaps(gaps, logical_to_ring_index(write_head), Lesser(size, capacity))
      /\ job' = [NoJob EXCEPT !.step = "stored", !.advance = size]
      /\ timeline' = timeline \o Gaps(size)
      /\ UNCHANGED <<write_head, read_head, ring, iter, heard>>

\* Mutant: what was written past the end of the ring is not copied back.
Mirrored_OneWay(head, n) ==
    [s \in Slot |->
       IF s >= capacity /\ s - capacity \in head..(head + n - 1) THEN ring[s - capacity]
       ELSE ring[s]]

\* sync_mirror_range of a vector-backed ring (with the mapped one both halves are
\* the same memory): written slots below capacity go to the mirror, the others back.
Mirrored(head, n) ==
    [s \in Slot |->
       IF s >= capacity /\ s - capacity \in head..(head + n - 1) THEN ring[s - capacity]
       ELSE IF s < capacity /\ s + capacity \in head..(head + n - 1) THEN ring[s + capacity]
       ELSE ring[s]]

\* The first half of write_commit_advance: mirror, and no gaps where samples are.
CommitSlots ==
    LET phys == Len(job.stored)
        head == logical_to_ring_index(write_head)
        first_len == Lesser(capacity - head, phys)
    IN  /\ job.step = "stored"
        /\ ring' = Mirrored(head, phys)
        /\ gaps' = unmark_region(unmark_region(gaps, head, first_len), 0, phys - first_len)
        /\ job' = [job EXCEPT !.step = "committed"]
        /\ UNCHANGED <<write_head, read_head, iter, timeline, heard>>

\* Its second half: the samples become visible.
AdvanceHead ==
    /\ job.step = "committed"
    /\ write_head' = write_head + job.advance
    /\ job' = NoJob
    /\ UNCHANGED <<read_head, ring, gaps, iter, timeline, heard>>
-----------------------------------------------------------------------------
(* The consumer. *)

\* search_gap_abs: the first gap of a stretch of the timeline, put together across
\* the end of the bitmap.
search_gap_abs(start_abs, len) ==
    LET start == logical_to_ring_index(start_abs)
        first_len == Lesser(len, capacity - start)
        g1 == search_next_gap(gaps, start, first_len)
        g2 == search_next_gap(gaps, 0, len - first_len)
    IN  IF g1 # NoGap
        THEN <<start_abs + g1[1] - start,
               IF g1[1] + g1[2] = capacity /\ g2[1] = 0 THEN g1[2] + g2[2] ELSE g1[2]>>
        ELSE IF g2 # NoGap THEN <<start_abs + first_len + g2[1], g2[2]>>
        ELSE NoGap

\* iter_segments: a snapshot of the heads (read() and read_segments() run it to the
\* end).
iter_segments(requested, emit_underflow) ==
    LET overflow == Lesser(saturating_sub(saturating_sub(write_head, capacity), read_head),
                           requested)
        cursor == read_head + overflow
        remaining == requested - overflow
        readable == Lesser(Lesser(saturating_sub(write_head, cursor), capacity), remaining)
    IN  /\ iter.step = "idle"
        /\ read_head + requested <= MaxTime
        /\ iter' = [step |-> "open", cursor |-> cursor, overflow |-> overflow,
                    readable |-> readable,
                    underflow |-> IF emit_underflow THEN remaining - readable ELSE 0,
                    consumed |-> 0, seen |-> write_head, len |-> 0]
        /\ UNCHANGED <<write_head, read_head, ring, gaps, job, timeline, heard>>

\* The consumer hears the items that follow what it heard before.
Hear(items) ==
    heard' = [at |-> heard.at + Len(heard.items), items |-> items, seen |-> iter.seen]

Repeat(x, n) == [i \in 1..n |-> x]

\* RingSegments::next.  A data segment is a slice of the ring; the caller copies it
\* in a later step.
NextOverflow ==
    /\ iter.step = "open" /\ iter.overflow > 0
    /\ Hear(Repeat(Lost, iter.overflow))
    /\ iter' = [iter EXCEPT !.overflow = 0, !.consumed = @ + iter.overflow]
    /\ UNCHANGED <<write_head, read_head, ring, gaps, job, timeline>>

NextReadable ==
    LET gap == search_gap_abs(iter.cursor, iter.readable)
        isgap == gap[1] = iter.cursor
        len == IF isgap THEN gap[2]
               ELSE IF gap = NoGap THEN iter.readable ELSE gap[1] - iter.cursor
    IN  /\ iter.step = "open" /\ iter.overflow = 0 /\ iter.readable > 0
        /\ iter' = [iter EXCEPT !.step = IF isgap THEN "open" ELSE "slice", !.len = len,
                                !.cursor = @ + len, !.readable = @ - len, !.consumed = @ + len]
        /\ IF isgap THEN Hear(Repeat(Gap, len)) ELSE UNCHANGED heard
        /\ UNCHANGED <<write_head, read_head, ring, gaps, job, timeline>>

CopySlice ==
    LET head == logical_to_ring_index(iter.cursor - iter.len)
    IN  /\ iter.step = "slice"
        /\ Hear([i \in 1..iter.len |-> ring[head + i - 1]])
        /\ iter' = [iter EXCEPT !.step = "open"]
        /\ UNCHANGED <<write_head, read_head, ring, gaps, job, timeline>>

NextUnderflow ==
    /\ iter.step = "open" /\ iter.overflow = 0 /\ iter.readable = 0 /\ iter.underflow > 0
    /\ Hear(Repeat(Late, iter.underflow))
    /\ iter' = [iter EXCEPT !.underflow = 0, !.consumed = @ + iter.underflow]
    /\ UNCHANGED <<write_head, read_head, ring, gaps, job, timeline>>

\* Drop for RingSegments, at the end or before: read_commit of what was yielded.
DropIter ==
    /\ iter.step = "open"
    /\ read_head' = read_head + iter.consumed
    /\ iter' = NoIter
    /\ heard' = [at |-> heard.at + Len(heard.items), items |-> <<>>, seen |-> 0]
    /\ UNCHANGED <<write_head, ring, gaps, job, timeline>>
-----------------------------------------------------------------------------
Next ==
    \/ write \/ write_default \/ advance_timeline \/ CommitSlots \/ AdvanceHead
    \/ \E n \in Requests, u \in BOOLEAN : iter_segments(n, u)
    \/ NextOverflow \/ NextReadable \/ CopySlice \/ NextUnderflow \/ DropIter

Spec == Init /\ [][Next]_vars
-----------------------------------------------------------------------------
(* Properties. *)

Item == -3..MaxTime

\* Types; both heads stay on the timeline and a read never counts below zero.
TypeOK ==
    /\ write_head \in 0..MaxTime /\ read_head \in 0..MaxTime
    /\ ring \in [Slot -> Sample]
    /\ gaps \in Bitmap
    /\ job \in [step : {"idle", "stored", "committed"}, stored : Seq(Sample), advance : Nat]
    /\ iter \in [step : {"idle", "open", "slice"}, cursor : Nat, overflow : Nat,
                 readable : 0..capacity, underflow : Nat, consumed : Nat, seen : Nat, len : Nat]
    /\ timeline \in Seq(Item)
    /\ heard \in [at : 0..MaxTime, items : Seq(Item), seen : 0..MaxTime]

\* Every instant of the timeline is heard once, in order, and as the producer put it
\* there: samples as samples and gaps as gaps, however reads and writes are chunked.
\* An instant is reported lost only when the snapshot saw it overwritten, and late
\* only when the snapshot did not see it written; a sample is torn only when the
\* producer has already begun to reuse its slot.
TimelineHeard ==
    \A i \in 1..Len(heard.items) :
      LET t == heard.at + i - 1
      IN  \/ t < Len(timeline) /\ heard.items[i] = timeline[t + 1]
          \/ heard.items[i] = Lost /\ t < heard.seen - capacity
          \/ heard.items[i] = Late /\ t >= heard.seen
          \/ heard.items[i] \notin {Lost, Late} /\ t < Len(timeline) - capacity

\* Between two calls of the producer the bitmap marks exactly the gaps of the last
\* `capacity` instants: no phantom gap is left by a lap of the ring, and none is lost.
GapsAreTimeline ==
    job.step = "idle" =>
      \A t \in saturating_sub(write_head, capacity)..(write_head - 1) :
        (logical_to_ring_index(t) \in Marked(gaps)) <=> (timeline[t + 1] = Gap)

\* The search over words and across the end of the ring finds the first run of
\* marked slots, whole.
FirstGap(start, len) ==
    LET hit == {t \in start..(start + len - 1) : logical_to_ring_index(t) \in Marked(gaps)}
        first == Min(hit)
    IN  IF hit = {} THEN NoGap
        ELSE <<first, Min({t \in first..(start + len) : t \notin hit}) - first>>

GapSearchExact ==
    \A start \in 0..(capacity - 1), len \in 0..capacity :
      search_gap_abs(start, len) = FirstGap(start, len)
=============================================================================
