----------------------------- MODULE GapBitmap ------------------------------
(***************************************************************************)
(* The gap bitmap of the audio ring buffer (catplay_ring/src/bitmap.rs):   *)
(* one bit per slot, kept in words of WordBits bits (64 in the code), with *)
(* a flag that short-cuts an empty bitmap.  A word is the set of the bits  *)
(* that are set in it.                                                     *)
(***************************************************************************)
EXTENDS Integers, FiniteSetsExt

CONSTANTS
    capacity,    \* slots of the ring, a power of two
    WordBits     \* bits of a word

ASSUME BitmapAssumption ==
    /\ capacity \in Nat \ {0}
    /\ WordBits \in Nat \ {0}

Words == 0..((capacity + WordBits - 1) \div WordBits - 1)
Bit == 0..(WordBits - 1)

Bitmap == [gap_bitmap : [Words -> SUBSET Bit], empty : BOOLEAN]

NewBitmap == [gap_bitmap |-> [w \in Words |-> {}], empty |-> TRUE]

\* The bits of word w that lie in start..end-1: first_mask, last_mask and the words
\* between them.
Mask(w, start, end) ==
    LET first == start \div WordBits
        last == (end - 1) \div WordBits
        lo == IF w = first THEN start % WordBits ELSE 0
        hi == IF w = last /\ end % WordBits # 0 THEN end % WordBits ELSE WordBits
    IN  IF w \in first..last THEN lo..(hi - 1) ELSE {}

mark_region(b, start, len) ==
    IF len = 0 THEN b
    ELSE [gap_bitmap |-> [w \in Words |-> b.gap_bitmap[w] \cup Mask(w, start, start + len)],
          empty |-> FALSE]

\* Mutant: the bitmap counts as empty again once the first word is.
unmark_region_FirstWord(b, start, len) ==
    LET cleared == [w \in Words |-> b.gap_bitmap[w] \ Mask(w, start, start + len)]
    IN  IF len = 0 \/ b.empty THEN b
        ELSE [gap_bitmap |-> cleared, empty |-> cleared[0] = {}]

unmark_region(b, start, len) ==
    LET cleared == [w \in Words |-> b.gap_bitmap[w] \ Mask(w, start, start + len)]
    IN  IF len = 0 \/ b.empty THEN b
        ELSE [gap_bitmap |-> cleared, empty |-> \A w \in Words : cleared[w] = {}]

NoGap == <<-1, 0>>

\* Set bits of a word from bit `from` on, without a hole: trailing_zeros of the
\* complement.
Ones(bits, from) == Min({i \in from..WordBits : i \notin bits}) - from

\* Mutant: a run never continues in the next word.
search_next_gap_OneWord(b, start, len) ==
    LET end == start + len
        word == [w \in Words |-> b.gap_bitmap[w] \cap Mask(w, start, end)]
        wi == Min({w \in Words : word[w] # {}})
        tz == Min(word[wi])
    IN  IF len = 0 \/ b.empty \/ \A w \in Words : word[w] = {} THEN NoGap
        ELSE <<wi * WordBits + tz, Ones(word[wi], tz)>>

\* How far a run goes on from the start of word w, up to word `last`: through the
\* following words as long as they are full.
Continued(word, last) ==
    LET more[w \in Nat] == IF w > last THEN 0
                           ELSE IF word[w] = Bit THEN WordBits + more[w + 1]
                           ELSE Ones(word[w], 0)
    IN  more

\* The first run of gap bits in start..start+len-1: its start and its length.
search_next_gap(b, start, len) ==
    LET end == start + len
        last == (end - 1) \div WordBits
        word == [w \in Words |-> b.gap_bitmap[w] \cap Mask(w, start, end)]
        wi == Min({w \in Words : word[w] # {}})
        tz == Min(word[wi])
        take == Ones(word[wi], tz)
        more == Continued(word, last)
    IN  IF len = 0 \/ b.empty \/ \A w \in Words : word[w] = {} THEN NoGap
        ELSE <<wi * WordBits + tz,
               IF take < WordBits - tz THEN take ELSE take + more[wi + 1]>>

\* What the bitmap stands for.
Marked(b) == {i \in 0..(capacity - 1) : (i % WordBits) \in b.gap_bitmap[i \div WordBits]}
=============================================================================
