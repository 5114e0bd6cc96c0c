----------------------------- MODULE ProofBasics -----------------------------
(***************************************************************************)
(* Facts the proofs of several components rest on: induction over the      *)
(* natural numbers in a form without operator parameters, and sequences    *)
(* that are taken apart and put together.                                  *)
(***************************************************************************)
EXTENDS Integers, Sequences, SequenceTheorems, FiniteSetTheorems, WellFoundedInduction, TLAPS

-----------------------------------------------------------------------------
(* Induction. *)

\* A set of natural numbers that is not empty has a least element.
LEMMA LeastNatural ==
    ASSUME NEW T \in SUBSET Nat, T # {}
    PROVE  \E m \in T : \A n \in T : m <= n
  <1> DEFINE R == {ss \in Nat \X Nat : ss[1] < ss[2]}
  <1>1. OpToRel(<, Nat) = R
    BY DEF OpToRel
  <1>2. IsWellFoundedOn(OpToRel(<, Nat), Nat)
    BY NatLessThanWellFounded
  <1>3. IsWellFoundedOn(R, Nat)
    BY <1>1, <1>2, Zenon
  <1> HIDE DEF R
  <1>4. PICK x \in T : \A y \in T : ~ (<<y, x>> \in R)
    BY <1>3, WFMin
  <1>5. \A y \in T : ~ (y < x)
    BY <1>4 DEF R
  <1> QED
    BY <1>5

\* A set of natural numbers with a bound that is not empty has a greatest element.
LEMMA GreatestNatural ==
    ASSUME NEW T \in SUBSET Nat, T # {}, NEW b \in Nat, \A n \in T : n <= b
    PROVE  \E m \in T : \A n \in T : n <= m
  <1> DEFINE B == {k \in Nat : \A n \in T : n <= k}
  <1>1. PICK m \in B : \A k \in B : m <= k
    <2>1. b \in B /\ B \in SUBSET Nat
      OBVIOUS
    <2> HIDE DEF B
    <2> QED
      BY <2>1, LeastNatural
  <1>2. CASE m \in T
    BY <1>1, <1>2
  <1>3. CASE m \notin T
    <2>1. m \in Nat /\ \A n \in T : n \in Nat /\ n <= m /\ n # m
      BY <1>1, <1>3
    <2>2. PICK n \in T : TRUE
      OBVIOUS
    <2>3. m - 1 \in Nat /\ \A k \in T : k <= m - 1
      BY <2>1, <2>2
    <2>4. m - 1 \in B /\ ~(m <= m - 1)
      BY <2>1, <2>3
    <2> QED
      BY <1>1, <2>4
  <1> QED
    BY <1>2, <1>3

\* Induction, over a set that stands for the predicate.
LEMMA SetInduction ==
    ASSUME NEW P, 0 \in P, \A n \in Nat : n \in P => n + 1 \in P
    PROVE  \A n \in Nat : n \in P
  <1> DEFINE T == {n \in Nat : n \notin P}
  <1>1. CASE T # {}
    <2>1. PICK m \in T : \A n \in T : m <= n
      BY <1>1, LeastNatural
    <2>2. m # 0 /\ m - 1 \in Nat /\ m - 1 \notin T
      BY <2>1
    <2> QED
      BY <2>1, <2>2
  <1> QED
    BY <1>1

-----------------------------------------------------------------------------
(* Sequences. *)

\* u is s followed by t.
Joined(u, s, t) ==
    /\ Len(s) \in Nat /\ Len(t) \in Nat
    /\ Len(u) = Len(s) + Len(t)
    /\ \A i \in 1..Len(s) : u[i] = s[i]
    /\ \A i \in 1..Len(t) : u[Len(s) + i] = t[i]
    /\ \A k \in 1..Len(u) : k \in 1..Len(s) \/ \E i \in 1..Len(t) : k = Len(s) + i

\* Two sequences one after the other.
LEMMA JoinSeq ==
    ASSUME NEW S, NEW s \in Seq(S), NEW t \in Seq(S)
    PROVE  s \o t \in Seq(S) /\ Joined(s \o t, s, t)
  <1>1. Len(s) \in Nat /\ Len(t) \in Nat
    BY LenProperties
  <1>2. /\ s \o t \in Seq(S)
        /\ Len(s \o t) = Len(s) + Len(t)
        /\ \A i \in 1..(Len(s) + Len(t)) : (s \o t)[i] = IF i <= Len(s) THEN s[i] ELSE t[i - Len(s)]
    BY ConcatProperties
  <1>3. \A i \in 1..Len(s) : (s \o t)[i] = s[i]
    BY <1>1, <1>2
  <1>4. ASSUME NEW i \in 1..Len(t)
        PROVE  (s \o t)[Len(s) + i] = t[i]
    <2>1. Len(s) + i \in 1..(Len(s) + Len(t)) /\ ~(Len(s) + i <= Len(s)) /\ (Len(s) + i) - Len(s) = i
      BY <1>1
    <2> QED
      BY <1>2, <2>1
  <1>5. ASSUME NEW k \in 1..Len(s \o t), k \notin 1..Len(s)
        PROVE  \E i \in 1..Len(t) : k = Len(s) + i
    <2>1. k - Len(s) \in 1..Len(t) /\ k = Len(s) + (k - Len(s))
      BY <1>1, <1>2, <1>5
    <2> QED
      BY <2>1
  <1> QED
    BY <1>1, <1>3, <1>4, <1>5 DEF Joined

\* The first n elements of a sequence and the others.
LEMMA SplitSeq ==
    ASSUME NEW S, NEW s \in Seq(S), NEW n \in 0..Len(s)
    PROVE  /\ SubSeq(s, 1, n) \in Seq(S)
           /\ SubSeq(s, n + 1, Len(s)) \in Seq(S)
           /\ Len(SubSeq(s, 1, n)) = n
           /\ Joined(s, SubSeq(s, 1, n), SubSeq(s, n + 1, Len(s)))
  <1>1. Len(s) \in Nat /\ n \in Nat /\ n <= Len(s)
    BY LenProperties
  <1>2. \A i \in 1..Len(s) : s[i] \in S
    BY ElementOfSeq
  <1>3. /\ SubSeq(s, 1, n) \in Seq(S)
        /\ Len(SubSeq(s, 1, n)) = n
        /\ \A i \in 1..n : SubSeq(s, 1, n)[i] = s[i]
    <2>1. \A i \in 1..n : s[i] \in S
      BY <1>1, <1>2
    <2>2. /\ SubSeq(s, 1, n) \in Seq(S)
          /\ Len(SubSeq(s, 1, n)) = IF 1 <= n THEN n - 1 + 1 ELSE 0
          /\ \A i \in 1..(n - 1 + 1) : SubSeq(s, 1, n)[i] = s[1 + i - 1]
      BY <1>1, <2>1, SubSeqProperties
    <2> QED
      BY <1>1, <2>2
  <1>4. /\ SubSeq(s, n + 1, Len(s)) \in Seq(S)
        /\ Len(SubSeq(s, n + 1, Len(s))) = Len(s) - n
        /\ \A i \in 1..(Len(s) - n) : SubSeq(s, n + 1, Len(s))[i] = s[n + i]
    <2>1. \A i \in (n + 1)..Len(s) : s[i] \in S
      BY <1>1, <1>2
    <2>2. n + 1 \in Int /\ Len(s) \in Int
      BY <1>1
    <2>3. /\ SubSeq(s, n + 1, Len(s)) \in Seq(S)
          /\ Len(SubSeq(s, n + 1, Len(s))) = IF n + 1 <= Len(s) THEN Len(s) - (n + 1) + 1 ELSE 0
          /\ \A i \in 1..(Len(s) - (n + 1) + 1) : SubSeq(s, n + 1, Len(s))[i] = s[(n + 1) + i - 1]
      BY <2>1, <2>2, SubSeqProperties
    <2> QED
      BY <1>1, <2>3
  <1>5. ASSUME NEW k \in 1..Len(s), k \notin 1..n
        PROVE  \E i \in 1..(Len(s) - n) : k = n + i
    <2>1. k - n \in 1..(Len(s) - n) /\ k = n + (k - n)
      BY <1>1, <1>5
    <2> QED
      BY <2>1
  <1> DEFINE h == SubSeq(s, 1, n)
             t == SubSeq(s, n + 1, Len(s))
  <1>6. /\ h \in Seq(S) /\ Len(h) = n /\ \A i \in 1..n : h[i] = s[i]
        /\ t \in Seq(S) /\ Len(t) = Len(s) - n /\ \A i \in 1..(Len(s) - n) : t[i] = s[n + i]
    BY <1>3, <1>4
  <1> HIDE DEF h, t
  <1>7. Joined(s, h, t)
    BY <1>1, <1>5, <1>6 DEF Joined
  <1> QED
    BY <1>6, <1>7 DEF h, t

\* t is s without its first element.
Shifted(t, s) ==
    /\ Len(s) \in Nat \ {0} /\ Len(t) = Len(s) - 1
    /\ \A i \in 1..Len(t) : i + 1 \in 1..Len(s) /\ t[i] = s[i + 1]

\* The head and the tail of a sequence.
LEMMA TailSeq ==
    ASSUME NEW S, NEW s \in Seq(S), s # <<>>
    PROVE  /\ Head(s) \in S /\ Head(s) = s[1] /\ 1 \in 1..Len(s)
           /\ Tail(s) \in Seq(S) /\ Shifted(Tail(s), s)
  <1>1. /\ Head(s) \in S
        /\ Tail(s) \in Seq(S)
        /\ Len(Tail(s)) = Len(s) - 1
        /\ \A i \in 1..Len(Tail(s)) : Tail(s)[i] = s[i + 1]
    BY HeadTailProperties
  <1>2. Len(s) \in Nat \ {0}
    BY EmptySeq
  <1>3. Head(s) = s[1]
    OBVIOUS
  <1> QED
    BY <1>1, <1>2, <1>3 DEF Shifted

\* u is s with e behind it.
Appended(u, s, e) ==
    /\ Len(s) \in Nat /\ Len(u) = Len(s) + 1
    /\ \A i \in 1..Len(s) : u[i] = s[i]
    /\ u[Len(s) + 1] = e
    /\ \A k \in 1..Len(u) : k \in 1..Len(s) \/ k = Len(s) + 1

\* A sequence with one more element.
LEMMA AppendSeq ==
    ASSUME NEW S, NEW s \in Seq(S), NEW e \in S
    PROVE  Append(s, e) \in Seq(S) /\ Appended(Append(s, e), s, e)
  <1>1. Len(s) \in Nat
    BY LenProperties
  <1>2. /\ Append(s, e) \in Seq(S)
        /\ Len(Append(s, e)) = Len(s) + 1
        /\ \A i \in 1..Len(s) : Append(s, e)[i] = s[i]
        /\ Append(s, e)[Len(s) + 1] = e
    BY AppendProperties
  <1> QED
    BY <1>1, <1>2 DEF Appended

\* A function on 1..n is a sequence of length n.
LEMMA FunctionSeq ==
    ASSUME NEW S, NEW n \in Nat, NEW f \in [1..n -> S]
    PROVE  f \in Seq(S) /\ Len(f) = n
  <1>1. f \in Seq(S)
    BY SeqDef
  <1>2. DOMAIN f = 1..n /\ DOMAIN f = 1..Len(f) /\ Len(f) \in Nat
    BY <1>1, LenProperties
  <1> QED
    BY <1>1, <1>2

\* An element in front of a sequence.
LEMMA ConsSeq ==
    ASSUME NEW S, NEW s \in Seq(S), NEW a \in S
    PROVE  /\ <<a>> \o s \in Seq(S) /\ <<a>> \o s # <<>>
           /\ Head(<<a>> \o s) = a /\ Tail(<<a>> \o s) = s
  <1> DEFINE t == <<a>> \o s
  <1>1. <<a>> \in Seq(S) /\ Len(<<a>>) = 1 /\ <<a>>[1] = a
    OBVIOUS
  <1>2. t \in Seq(S) /\ Joined(t, <<a>>, s)
    BY <1>1, JoinSeq
  <1> HIDE DEF t
  <1>3. Len(t) = 1 + Len(s) /\ Len(s) \in Nat /\ t[1] = a /\ \A i \in 1..Len(s) : t[1 + i] = s[i]
    BY <1>1, <1>2 DEF Joined
  <1>4. t # <<>>
    BY <1>3, EmptySeq
  <1>5. Head(t) = t[1] /\ Tail(t) \in Seq(S) /\ Shifted(Tail(t), t)
    BY <1>2, <1>4, TailSeq
  <1>6. Len(Tail(t)) = Len(s)
    BY <1>3, <1>5 DEF Shifted
  <1>7. \A i \in 1..Len(s) : Tail(t)[i] = s[i]
    <2>1. ASSUME NEW i \in 1..Len(s)
          PROVE  Tail(t)[i] = s[i]
      <3>1. Tail(t)[i] = t[i + 1]
        BY <1>5, <1>6 DEF Shifted
      <3>2. i + 1 = 1 + i
        OBVIOUS
      <3> QED
        BY <1>3, <3>1, <3>2
    <2> QED
      BY <2>1
  <1>8. Tail(t) = s
    BY <1>5, <1>6, <1>7, SeqEqual
  <1> QED
    BY <1>2, <1>3, <1>4, <1>5, <1>8 DEF t

\* A sequence is its head in front of its tail.
LEMMA HeadTailCons ==
    ASSUME NEW S, NEW s \in Seq(S), s # <<>>
    PROVE  /\ s = <<Head(s)>> \o Tail(s)
           /\ Head(s) \in S /\ Tail(s) \in Seq(S) /\ <<Head(s)>> \in Seq(S)
  <1> DEFINE h == <<Head(s)>>
             t == h \o Tail(s)
  <1>1. Head(s) \in S /\ Head(s) = s[1] /\ Tail(s) \in Seq(S) /\ Shifted(Tail(s), s)
    BY TailSeq
  <1>2. h \in Seq(S) /\ Len(h) = 1 /\ h[1] = Head(s)
    BY <1>1
  <1>3. t \in Seq(S) /\ Joined(t, h, Tail(s))
    BY <1>1, <1>2, JoinSeq
  <1> HIDE DEF t, h
  <1>4. Len(t) = Len(s) /\ Len(s) \in Nat /\ Len(Tail(s)) = Len(s) - 1
    BY <1>1, <1>2, <1>3 DEF Joined, Shifted
  <1>5. ASSUME NEW i \in 1..Len(s)
        PROVE  t[i] = s[i]
    <2>1. CASE i = 1
      BY <1>1, <1>2, <1>3, <2>1 DEF Joined
    <2>2. CASE i # 1
      <3>1. i - 1 \in 1..Len(Tail(s)) /\ 1 + (i - 1) = i /\ (i - 1) + 1 = i
        BY <1>4, <2>2
      <3>2. t[1 + (i - 1)] = Tail(s)[i - 1]
        BY <1>2, <1>3, <3>1 DEF Joined
      <3>3. Tail(s)[i - 1] = s[(i - 1) + 1]
        BY <1>1, <3>1 DEF Shifted
      <3> QED
        BY <3>1, <3>2, <3>3
    <2> QED
      BY <2>1, <2>2
  <1>6. t = s
    BY <1>3, <1>4, <1>5, SeqEqual
  <1> QED
    BY <1>1, <1>2, <1>6 DEF t, h

\* What is put behind the second of two sequences is behind both.
LEMMA PipeAppend ==
    ASSUME NEW S, NEW w \in Seq(S), NEW q \in Seq(S), NEW m \in S
    PROVE  w \o Append(q, m) = Append(w \o q, m)
  <1>1. w \o q \in Seq(S)
    BY ConcatProperties
  <1>2. <<m>> \in Seq(S)
    OBVIOUS
  <1>3. Append(q, m) = q \o <<m>> /\ Append(w \o q, m) = (w \o q) \o <<m>>
    BY <1>1, AppendIsConcat
  <1>4. (w \o q) \o <<m>> = w \o (q \o <<m>>)
    BY <1>2, ConcatAssociative
  <1> QED
    BY <1>3, <1>4

\* Two sequences one behind the other: what comes in at the end, goes over from the
\* second to the first, and leaves at the front.
LEMMA PipeSeq ==
    ASSUME NEW S, NEW w \in Seq(S), NEW q \in Seq(S)
    PROVE  /\ w \o q \in Seq(S)
           /\ \A m \in S : q = <<>> => Append(w, m) \o q = Append(w \o q, m)
           /\ q # <<>> => Append(w, Head(q)) \o Tail(q) = w \o q
           /\ w # <<>> => w \o q # <<>> /\ Head(w \o q) = Head(w) /\ Tail(w) \o q = Tail(w \o q)
  <1>1. w \o q \in Seq(S)
    BY ConcatProperties
  <1>2. ASSUME NEW m \in S, q = <<>>
        PROVE  Append(w, m) \o q = Append(w \o q, m)
    <2>1. w \o <<>> = w /\ Append(w, m) \in Seq(S)
      BY ConcatEmptySeq, AppendProperties
    <2>2. Append(w, m) \o <<>> = Append(w, m)
      BY <2>1, ConcatEmptySeq
    <2> QED
      BY <1>2, <2>1, <2>2
  <1>3. ASSUME q # <<>>
        PROVE  Append(w, Head(q)) \o Tail(q) = w \o q
    <2> DEFINE h == Head(q)
               t == Tail(q)
    <2>1. q = <<h>> \o t /\ h \in S /\ t \in Seq(S) /\ <<h>> \in Seq(S)
      BY <1>3, HeadTailCons
    <2> HIDE DEF h, t
    <2>2. Append(w, h) = w \o <<h>>
      BY <2>1, AppendIsConcat
    <2>3. (w \o <<h>>) \o t = w \o (<<h>> \o t)
      BY <2>1, ConcatAssociative
    <2>4. Append(w, h) \o t = w \o q
      BY <2>1, <2>2, <2>3
    <2> QED
      BY <2>4 DEF h, t
  <1>4. ASSUME w # <<>>
        PROVE  w \o q # <<>> /\ Head(w \o q) = Head(w) /\ Tail(w) \o q = Tail(w \o q)
    <2> DEFINE h == Head(w)
               t == Tail(w)
    <2>1. w = <<h>> \o t /\ h \in S /\ t \in Seq(S) /\ <<h>> \in Seq(S)
      BY <1>4, HeadTailCons
    <2> HIDE DEF h, t
    <2>2. w \o q = <<h>> \o (t \o q) /\ t \o q \in Seq(S)
      BY <2>1, ConcatAssociative, ConcatProperties
    <2>3. w \o q # <<>> /\ Head(w \o q) = h /\ Tail(w \o q) = t \o q
      BY <2>1, <2>2, ConsSeq
    <2> QED
      BY <2>3 DEF h, t
  <1> QED
    BY <1>1, <1>2, <1>3, <1>4

\* An answer of no message or of one.
LEMMA AnswerSeq ==
    ASSUME NEW S, NEW q \in Seq(S)
    PROVE  q \o <<>> = q /\ \A m \in S : q \o <<m>> = Append(q, m)
  <1>1. q \o <<>> = q
    BY ConcatEmptySeq
  <1>2. ASSUME NEW m \in S
        PROVE  q \o <<m>> = Append(q, m)
    BY AppendIsConcat
  <1> QED
    BY <1>1, <1>2
=============================================================================
