-------------------------- MODULE FileTransferProofs --------------------------
(***************************************************************************)
(* Proofs about FileTransfer, for every set of ids, every size of files,   *)
(* every chunk size and every bound.                                       *)
(*                                                                         *)
(* A transfer is seen as one view: the two sequences of payloads under way *)
(* between its sender and its receiver, the session, the slot and what the *)
(* application has heard.  The order of the link is what makes ids safe to *)
(* use again: the Setup of a new transfer is behind everything its         *)
(* predecessor has sent, and the end of a transfer behind everything its   *)
(* receiver has said.                                                      *)
(***************************************************************************)
EXTENDS FileTransfer, ProofBasics

Op == {"Setup", "Start", "Pause", "Cancel", "Success", "Failure",
       "FirstData", "Data", "FirstAndOnlyData", "LastData"}
Session == [file : 0..MaxFiles, progress : Nat,
            state : {"None", "Pause", "Sending", "WaitingForSuccess"}]
Slot == {NoSlot, "Sending", "Pause"}
Data == Seq((1..MaxFiles) \X Nat)
Heard == [file : 0..MaxFiles, data : Data, final : BOOLEAN]
File == [by : End, id : Id, size : Nat, fate : {"open"} \cup Finals]

\* What a transmitter takes for the end of its transfer.
Terminal == {"Success", "Failure", "Cancel"}

\* Everything under way to an end: what the link carries and what still waits for it.
Chan(e) == wire[e] \o queue_tx[Other(e)]
-----------------------------------------------------------------------------
(* The payloads of one id in a sequence. *)

Lacks(id, c, ops) == \A i \in 1..Len(c) : c[i].file_id = id => c[i].op \notin ops

\* Only refused Setups of the receiver.
OnlySetups(id, d) == \A i \in 1..Len(d) : d[i].file_id = id => d[i].op = "Setup"

\* The Setup of file f is the last payload of the id.
SetupLast(id, c, f) ==
    \E i \in 1..Len(c) :
      /\ c[i].file_id = id /\ c[i].op = "Setup" /\ c[i].file = f
      /\ \A k \in 1..Len(c) : c[k].file_id = id => k <= i /\ (k < i => c[k].op # "Setup")

\* The transfer's end is under way; whole: its file has arrived.
EndComes(id, d, whole) ==
    \E j \in 1..Len(d) :
      /\ d[j].file_id = id /\ d[j].op \in Terminal /\ (d[j].op = "Success" => whole)
      /\ \A k \in 1..Len(d) : d[k].file_id = id =>
           (k < j => d[k].op \notin Terminal) /\ (k > j => d[k].op = "Setup")

Carries(id, m) == m.file_id = id /\ IsData(m.op)
Carried(id, m) == IF Carries(id, m) THEN Len(m.data) ELSE 0

\* off is the position in the file before each payload, and after the last.
Offsets(id, c, f, size, from, to, off) ==
    /\ off \in [1..(Len(c) + 1) -> 0..size]
    /\ off[1] = from /\ off[Len(c) + 1] = to
    /\ \A i \in 1..Len(c) :
         /\ off[i + 1] = off[i] + Carried(id, c[i])
         /\ Carries(id, c[i]) =>
              /\ c[i].data = Units(f, off[i], Len(c[i].data))
              /\ is_final_chunk(c[i].op) <=> off[i + 1] = size

\* The units under way continue the file from what has arrived to what was sent, and a
\* chunk is final when it ends the file.
Chunks(id, c, f, size, from, to) == \E off : Offsets(id, c, f, size, from, to, off)

FinalOps == {"FirstAndOnlyData", "LastData"}

AtMostOne(id, c, ops) ==
    \A i, j \in 1..Len(c) : c[i].file_id = id /\ c[j].file_id = id
                            /\ c[i].op \in ops /\ c[j].op \in ops => i = j
-----------------------------------------------------------------------------
(* The inductive invariant: the view of one transfer. *)

\* The session sends a file of its own end.
SessionInv(e, id, o, fl) ==
    o # NoSession =>
      /\ o.state # "None" /\ o.file \in 1..Len(fl)
      /\ fl[o.file].by = e /\ fl[o.file].id = id
      /\ o.progress <= fl[o.file].size

Intact(h, fl) ==
    h.file # 0 =>
      /\ h.file \in 1..Len(fl)
      /\ Len(h.data) <= fl[h.file].size
      /\ h.data = Units(h.file, 0, Len(h.data))
      /\ h.final => Len(h.data) = fl[h.file].size

\* No transfer.
Free(id, c, d, slot) ==
    slot = NoSlot /\ Lacks(id, c, {"Setup"}) /\ OnlySetups(id, d)

\* The receiver does not know of it.
Opening(id, c, d, o, slot) ==
    /\ slot = NoSlot /\ OnlySetups(id, d) /\ SetupLast(id, c, o.file)
    /\ o.progress = 0 /\ o.state = "Pause"

\* Both ends work on it.
Open(id, c, d, o, slot, h, size) ==
    /\ slot # NoSlot /\ h.file = o.file
    /\ Lacks(id, d, Terminal) /\ Lacks(id, c, {"Setup", "Cancel"})
    /\ Chunks(id, c, o.file, size, Len(h.data), o.progress)

\* The receiver has ended it.
Ending(id, c, d, o, slot, h) ==
    /\ slot = NoSlot /\ Lacks(id, c, {"Setup"})
    /\ EndComes(id, d, h.file = o.file /\ h.final)

Transfer(id, c, d, o, slot, h, fl) ==
    IF o = NoSession THEN Free(id, c, d, slot)
    ELSE \/ Opening(id, c, d, o, slot)
         \/ Open(id, c, d, o, slot, h, fl[o.file].size)
         \/ Ending(id, c, d, o, slot, h)

\* An end that pauses what it sends: a paused session is not finished and nothing that
\* is under way starts it.
PausesOwn(id, c, d, o, slot, p) ==
    /\ p => o.state = "Pause" /\ slot # NoSlot /\ Lacks(id, d, {"Start"})
    /\ AtMostOne(id, d, {"Start"})
    /\ ~Lacks(id, d, {"Start"}) => o.state = "Pause"
    /\ o.state # "WaitingForSuccess" => Lacks(id, c, FinalOps) /\ Lacks(id, d, Terminal)
    /\ ~Lacks(id, d, Terminal) => Lacks(id, c, FinalOps)
    /\ AtMostOne(id, c, FinalOps)

View(e, id, c, d, o, slot, h, fl, p) ==
    /\ SessionInv(e, id, o, fl)
    /\ Intact(h, fl)
    /\ Transfer(id, c, d, o, slot, h, fl)
    /\ IF e = Foreign THEN PausesOwn(id, c, d, o, slot, p) ELSE p => slot # NoSlot

IdTypes ==
    /\ taken_ids \in [End -> SUBSET Id] /\ \A e \in End : taken_ids[e] \subseteq TxIds(e)
    /\ held \in [End -> Seq(Id)] /\ \A e \in End : held[e] \in Seq(TxIds(e))

OutgoingTypes == DOMAIN outgoing = End /\ \A e \in End : outgoing[e] \in [TxIds(e) -> Session]

IncomingTypes ==
    /\ DOMAIN incoming = End /\ \A e \in End : incoming[e] \in [RxIds(e) -> Slot]
    /\ DOMAIN heard = End /\ \A e \in End : heard[e] \in [RxIds(e) -> Heard]

LinkTypes == queue_tx \in [End -> Seq(Msg)] /\ wire \in [End -> Seq(Msg)]

FileTypes == files \in Seq(File) /\ Len(files) <= MaxFiles

AskTypes == panicked \in BOOLEAN /\ paused \subseteq Id /\ asks \in 0..MaxAsks /\ strays \in 0..MaxStrays

Types == IdTypes /\ OutgoingTypes /\ IncomingTypes /\ LinkTypes /\ FileTypes /\ AskTypes

TransferInv(e, id) ==
    View(e, id, Chan(Other(e)), Chan(e), outgoing[e][id], incoming[Other(e)][id],
         heard[Other(e)][id], files, id \in paused)

FilesInv ==
    /\ Types
    /\ \A e \in End : \A id \in TxIds(e) : TransferInv(e, id)

-----------------------------------------------------------------------------
(* A payload more, and a payload less. *)

\* What Append and Tail do to the elements.
LEMMA Grown ==
    ASSUME NEW c \in Seq(Msg), NEW m \in Msg
    PROVE  /\ Append(c, m) \in Seq(Msg) /\ Len(c) \in Nat /\ Len(Append(c, m)) = Len(c) + 1
           /\ \A i \in 1..Len(c) : Append(c, m)[i] = c[i] /\ i \in 1..(Len(c) + 1)
           /\ Append(c, m)[Len(c) + 1] = m /\ Len(c) + 1 \in 1..(Len(c) + 1)
           /\ \A i \in 1..(Len(c) + 1) : i \in 1..Len(c) \/ i = Len(c) + 1
  <1>1. Len(c) \in Nat
    BY LenProperties
  <1> QED
    BY <1>1, AppendSeq DEF Appended

\* What Head and Tail take from the elements.
LEMMA Shrunk ==
    ASSUME NEW c \in Seq(Msg), c # <<>>
    PROVE  /\ Tail(c) \in Seq(Msg) /\ Len(c) \in Nat /\ Len(Tail(c)) \in Nat
           /\ Len(c) = Len(Tail(c)) + 1
           /\ Head(c) = c[1] /\ Head(c) \in Msg /\ 1 \in 1..Len(c)
           /\ \A i \in 1..Len(Tail(c)) : Tail(c)[i] = c[i + 1] /\ i + 1 \in 1..Len(c)
           /\ \A i \in 1..Len(c) : i = 1 \/ (i - 1 \in 1..Len(Tail(c)) /\ Tail(c)[i - 1] = c[i])
  <1>1. Len(c) \in Nat /\ Len(Tail(c)) \in Nat /\ Len(c) = Len(Tail(c)) + 1
    BY TailSeq, LenProperties DEF Shifted
  <1>2. /\ Tail(c) \in Seq(Msg) /\ Head(c) = c[1] /\ Head(c) \in Msg /\ 1 \in 1..Len(c)
        /\ \A i \in 1..Len(Tail(c)) : Tail(c)[i] = c[i + 1] /\ i + 1 \in 1..Len(c)
    BY TailSeq DEF Shifted
  <1>3. \A i \in 1..Len(c) : i = 1 \/ (i - 1 \in 1..Len(Tail(c)) /\ Tail(c)[i - 1] = c[i])
    <2>1. ASSUME NEW i \in 1..Len(c), i # 1
          PROVE  i - 1 \in 1..Len(Tail(c)) /\ Tail(c)[i - 1] = c[i]
      <3>1. i - 1 \in 1..Len(Tail(c)) /\ (i - 1) + 1 = i
        BY <1>1, <2>1
      <3>2. Tail(c)[i - 1] = c[(i - 1) + 1]
        BY <1>2, <3>1
      <3> QED
        BY <3>1, <3>2
    <2> QED
      BY <2>1
  <1> QED
    BY <1>1, <1>2, <1>3

\* Payloads of some kinds, and of no others.
LEMMA LacksMove ==
    ASSUME NEW id, NEW ops, NEW c \in Seq(Msg)
    PROVE  /\ \A m \in Msg : Lacks(id, Append(c, m), ops) <=>
                Lacks(id, c, ops) /\ (m.file_id = id => m.op \notin ops)
           /\ c # <<>> => (Lacks(id, c, ops) <=>
                Lacks(id, Tail(c), ops) /\ (Head(c).file_id = id => Head(c).op \notin ops))
  <1>1. ASSUME NEW m \in Msg
        PROVE  Lacks(id, Append(c, m), ops) <=>
                 Lacks(id, c, ops) /\ (m.file_id = id => m.op \notin ops)
    BY Grown DEF Lacks
  <1>2. ASSUME c # <<>>
        PROVE  Lacks(id, c, ops) <=>
                 Lacks(id, Tail(c), ops) /\ (Head(c).file_id = id => Head(c).op \notin ops)
    BY <1>2, Shrunk DEF Lacks
  <1> QED
    BY <1>1, <1>2

\* Only Setups in a sequence.
LEMMA SetupsMove ==
    ASSUME NEW id, NEW d \in Seq(Msg)
    PROVE  /\ \A m \in Msg : OnlySetups(id, Append(d, m)) <=>
                OnlySetups(id, d) /\ (m.file_id = id => m.op = "Setup")
           /\ d # <<>> => (OnlySetups(id, d) <=>
                OnlySetups(id, Tail(d)) /\ (Head(d).file_id = id => Head(d).op = "Setup"))
           /\ OnlySetups(id, d) => Lacks(id, d, Terminal) /\ Lacks(id, d, {"Start"})
  <1>1. ASSUME NEW m \in Msg
        PROVE  OnlySetups(id, Append(d, m)) <=>
                 OnlySetups(id, d) /\ (m.file_id = id => m.op = "Setup")
    BY Grown DEF OnlySetups
  <1>2. ASSUME d # <<>>
        PROVE  OnlySetups(id, d) <=>
                 OnlySetups(id, Tail(d)) /\ (Head(d).file_id = id => Head(d).op = "Setup")
    <2> DEFINE t == Tail(d)
    <2>1. /\ Head(d) = d[1] /\ 1 \in 1..Len(d)
          /\ \A i \in 1..Len(t) : t[i] = d[i + 1] /\ i + 1 \in 1..Len(d)
          /\ \A i \in 1..Len(d) : i = 1 \/ (i - 1 \in 1..Len(t) /\ t[i - 1] = d[i])
      BY <1>2, Shrunk
    <2> HIDE DEF t
    <2>2. OnlySetups(id, d) => OnlySetups(id, t) /\ (Head(d).file_id = id => Head(d).op = "Setup")
      BY <2>1 DEF OnlySetups
    <2>3. OnlySetups(id, t) /\ (Head(d).file_id = id => Head(d).op = "Setup") => OnlySetups(id, d)
      BY <2>1 DEF OnlySetups
    <2> QED
      BY <2>2, <2>3 DEF t
  <1>3. OnlySetups(id, d) => Lacks(id, d, Terminal) /\ Lacks(id, d, {"Start"})
    BY DEF OnlySetups, Lacks, Terminal
  <1> QED
    BY <1>1, <1>2, <1>3

\* One payload of a kind at most.
LEMMA OneMoves ==
    ASSUME NEW id, NEW ops, NEW c \in Seq(Msg), AtMostOne(id, c, ops)
    PROVE  /\ \A m \in Msg : (m.file_id = id /\ m.op \in ops => Lacks(id, c, ops)) =>
                AtMostOne(id, Append(c, m), ops)
           /\ c # <<>> =>
                /\ AtMostOne(id, Tail(c), ops)
                /\ Head(c).file_id = id /\ Head(c).op \in ops => Lacks(id, Tail(c), ops)
  <1>1. ASSUME NEW m \in Msg, m.file_id = id /\ m.op \in ops => Lacks(id, c, ops)
        PROVE  AtMostOne(id, Append(c, m), ops)
    <2> DEFINE t == Append(c, m)
               Hit(i) == t[i].file_id = id /\ t[i].op \in ops
    <2>1. \A i \in 1..Len(t) : (i \in 1..Len(c) /\ t[i] = c[i]) \/ (i = Len(c) + 1 /\ t[i] = m)
      BY Grown
    <2>2. \A i, j \in 1..Len(t) : Hit(i) /\ Hit(j) /\ i \in 1..Len(c) /\ j \in 1..Len(c) => i = j
      BY <2>1 DEF AtMostOne
    <2>3. \A i \in 1..Len(t) : Hit(Len(c) + 1) /\ Hit(i) => i = Len(c) + 1
      <3>1. t[Len(c) + 1] = m
        BY Grown
      <3> QED
        BY <1>1, <2>1, <3>1 DEF Lacks
    <2>4. \A i, j \in 1..Len(t) : Hit(i) /\ Hit(j) => i = j
      <3> HIDE DEF Hit, t
      <3> QED
        BY <2>1, <2>2, <2>3
    <2>5. AtMostOne(id, t, ops)
      <3> HIDE DEF t
      <3>1. ASSUME NEW i \in 1..Len(t), NEW j \in 1..Len(t), t[i].file_id = id, t[i].op \in ops,
                   t[j].file_id = id, t[j].op \in ops
            PROVE  i = j
        BY <2>4, <3>1
      <3> QED
        BY <3>1 DEF AtMostOne
    <2> QED
      BY <2>5
  <1>2. ASSUME c # <<>>
        PROVE  AtMostOne(id, Tail(c), ops)
    <2>1. ASSUME NEW i \in 1..Len(Tail(c)), NEW j \in 1..Len(Tail(c)),
                 Tail(c)[i].file_id = id /\ Tail(c)[i].op \in ops,
                 Tail(c)[j].file_id = id /\ Tail(c)[j].op \in ops
          PROVE  i = j
      <3>1. i + 1 = j + 1
        BY <1>2, <2>1, Shrunk DEF AtMostOne
      <3> QED
        BY <3>1
    <2> QED
      BY <2>1 DEF AtMostOne
  <1>3. ASSUME c # <<>>, Head(c).file_id = id, Head(c).op \in ops
        PROVE  Lacks(id, Tail(c), ops)
    <2>1. ASSUME NEW i \in 1..Len(Tail(c)), Tail(c)[i].file_id = id, Tail(c)[i].op \in ops
          PROVE  FALSE
      <3>1. 1 = i + 1
        BY <1>3, <2>1, Shrunk DEF AtMostOne
      <3> QED
        BY <3>1
    <2> QED
      BY <2>1 DEF Lacks
  <1> QED
    BY <1>1, <1>2, <1>3

\* The Setup that opens the transfer.
LEMMA SetupMoves ==
    ASSUME NEW id, NEW f, NEW c \in Seq(Msg), SetupLast(id, c, f)
    PROVE  /\ \A m \in Msg : m.file_id # id => SetupLast(id, Append(c, m), f)
           /\ c # <<>> => IF Head(c).file_id = id /\ Head(c).op = "Setup"
                          THEN Head(c).file = f /\ \A i \in 1..Len(Tail(c)) : Tail(c)[i].file_id # id
                          ELSE SetupLast(id, Tail(c), f)
  <1>1. PICK i \in 1..Len(c) :
          /\ c[i].file_id = id /\ c[i].op = "Setup" /\ c[i].file = f
          /\ \A k \in 1..Len(c) : c[k].file_id = id => k <= i /\ (k < i => c[k].op # "Setup")
    BY DEF SetupLast
  <1>2. ASSUME NEW m \in Msg, m.file_id # id
        PROVE  SetupLast(id, Append(c, m), f)
    <2> DEFINE t == Append(c, m)
    <2>1. /\ i \in 1..Len(t) /\ t[i] = c[i]
          /\ \A k \in 1..Len(t) : (k \in 1..Len(c) /\ t[k] = c[k]) \/ t[k] = m
      BY Grown
    <2> HIDE DEF t
    <2>2. \A k \in 1..Len(t) : t[k].file_id = id => k <= i /\ (k < i => t[k].op # "Setup")
      BY <1>1, <1>2, <2>1
    <2>3. SetupLast(id, t, f)
      BY <1>1, <2>1, <2>2 DEF SetupLast
    <2> QED
      BY <2>3 DEF t
  <1>3. ASSUME c # <<>>, Head(c).file_id = id, Head(c).op = "Setup"
        PROVE  Head(c).file = f /\ \A k \in 1..Len(Tail(c)) : Tail(c)[k].file_id # id
    <2>1. 1 \in 1..Len(c) /\ Head(c) = c[1]
      BY <1>3, Shrunk
    <2>2. i = 1
      BY <1>1, <1>3, <2>1
    <2>3. ASSUME NEW k \in 1..Len(Tail(c)), Tail(c)[k].file_id = id
          PROVE  FALSE
      <3>1. k + 1 \in 1..Len(c) /\ c[k + 1].file_id = id
        BY <1>3, <2>3, Shrunk
      <3>2. k + 1 <= 1
        BY <1>1, <2>2, <3>1
      <3> QED
        BY <3>2
    <2> QED
      BY <1>1, <2>1, <2>2, <2>3
  <1>4. ASSUME c # <<>>, ~(Head(c).file_id = id /\ Head(c).op = "Setup")
        PROVE  SetupLast(id, Tail(c), f)
    <2> DEFINE t == Tail(c)
    <2>1. /\ Head(c) = c[1] /\ i \in 1..Len(c)
          /\ \A k \in 1..Len(t) : t[k] = c[k + 1] /\ k + 1 \in 1..Len(c)
          /\ i # 1 => i - 1 \in 1..Len(t) /\ t[i - 1] = c[i]
      BY <1>4, Shrunk
    <2> HIDE DEF t
    <2>2. i - 1 \in 1..Len(t) /\ t[i - 1] = c[i]
      BY <1>1, <1>4, <2>1
    <2>3. \A k \in 1..Len(t) : t[k].file_id = id => k <= i - 1 /\ (k < i - 1 => t[k].op # "Setup")
      <3>1. ASSUME NEW k \in 1..Len(t), t[k].file_id = id
            PROVE  k <= i - 1 /\ (k < i - 1 => t[k].op # "Setup")
        <4>1. k + 1 \in 1..Len(c) /\ c[k + 1].file_id = id /\ t[k] = c[k + 1]
          BY <2>1, <3>1
        <4>2. k + 1 <= i /\ (k + 1 < i => c[k + 1].op # "Setup")
          BY <1>1, <4>1
        <4> QED
          BY <4>1, <4>2
      <3> QED
        BY <3>1
    <2>4. SetupLast(id, t, f)
      BY <1>1, <2>2, <2>3 DEF SetupLast
    <2> QED
      BY <2>4 DEF t
  <1> QED
    BY <1>2, <1>3, <1>4

\* It is sent behind what there is.
LEMMA SetupSent ==
    ASSUME NEW id, NEW c \in Seq(Msg), NEW m \in Msg, Lacks(id, c, {"Setup"}),
           m.file_id = id, m.op = "Setup"
    PROVE  SetupLast(id, Append(c, m), m.file)
  <1> DEFINE t == Append(c, m)
             n == Len(c) + 1
  <1>1. /\ n \in 1..Len(t) /\ t[n] = m
        /\ \A k \in 1..Len(t) : (k \in 1..Len(c) /\ t[k] = c[k]) \/ k = n
    BY Grown
  <1>2. \A k \in 1..Len(t) : k <= n
    BY Grown
  <1> HIDE DEF t
  <1>3. \A k \in 1..Len(t) : t[k].file_id = id => k <= n /\ (k < n => t[k].op # "Setup")
    BY <1>1, <1>2 DEF Lacks
  <1>4. SetupLast(id, t, m.file)
    <2> HIDE DEF n
    <2> QED
      BY <1>1, <1>3 DEF SetupLast
  <1> QED
    BY <1>4 DEF t

\* The end of the transfer, with nothing but refused Setups behind it.
LEMMA EndMoves ==
    ASSUME NEW id, NEW whole, NEW d \in Seq(Msg), EndComes(id, d, whole)
    PROVE  /\ \A m \in Msg : (m.file_id = id => m.op = "Setup") => EndComes(id, Append(d, m), whole)
           /\ d # <<>> => IF Head(d).file_id = id /\ Head(d).op \in Terminal
                          THEN OnlySetups(id, Tail(d)) /\ (Head(d).op = "Success" => whole)
                          ELSE EndComes(id, Tail(d), whole)
           /\ ~Lacks(id, d, Terminal)
  <1>1. PICK j \in 1..Len(d) :
          /\ d[j].file_id = id /\ d[j].op \in Terminal /\ (d[j].op = "Success" => whole)
          /\ \A k \in 1..Len(d) : d[k].file_id = id =>
               (k < j => d[k].op \notin Terminal) /\ (k > j => d[k].op = "Setup")
    BY DEF EndComes
  <1>2. ASSUME NEW m \in Msg, m.file_id = id => m.op = "Setup"
        PROVE  EndComes(id, Append(d, m), whole)
    <2> DEFINE t == Append(d, m)
    <2>1. /\ j \in 1..Len(t) /\ t[j] = d[j]
          /\ \A k \in 1..Len(t) : (k \in 1..Len(d) /\ t[k] = d[k]) \/ (k > j /\ t[k] = m)
      BY Grown
    <2> HIDE DEF t
    <2>2. \A k \in 1..Len(t) : t[k].file_id = id =>
            (k < j => t[k].op \notin Terminal) /\ (k > j => t[k].op = "Setup")
      BY <1>1, <1>2, <2>1
    <2>3. EndComes(id, t, whole)
      BY <1>1, <2>1, <2>2 DEF EndComes
    <2> QED
      BY <2>3 DEF t
  <1>3. ASSUME d # <<>>, Head(d).file_id = id, Head(d).op \in Terminal
        PROVE  OnlySetups(id, Tail(d)) /\ (Head(d).op = "Success" => whole)
    <2>1. 1 \in 1..Len(d) /\ Head(d) = d[1]
      BY <1>3, Shrunk
    <2>2. j = 1
      BY <1>1, <1>3, <2>1
    <2>3. ASSUME NEW k \in 1..Len(Tail(d)), Tail(d)[k].file_id = id
          PROVE  Tail(d)[k].op = "Setup"
      <3>1. k + 1 \in 1..Len(d) /\ Tail(d)[k] = d[k + 1] /\ k + 1 > 1
        BY <1>3, Shrunk
      <3> QED
        BY <1>1, <2>2, <2>3, <3>1
    <2> QED
      BY <1>1, <2>1, <2>2, <2>3 DEF OnlySetups
  <1>4. ASSUME d # <<>>, ~(Head(d).file_id = id /\ Head(d).op \in Terminal)
        PROVE  EndComes(id, Tail(d), whole)
    <2> DEFINE t == Tail(d)
    <2>1. /\ Head(d) = d[1] /\ j \in 1..Len(d)
          /\ \A k \in 1..Len(t) : t[k] = d[k + 1] /\ k + 1 \in 1..Len(d)
          /\ j # 1 => j - 1 \in 1..Len(t) /\ t[j - 1] = d[j]
      BY <1>4, Shrunk
    <2> HIDE DEF t
    <2>2. j - 1 \in 1..Len(t) /\ t[j - 1] = d[j]
      BY <1>1, <1>4, <2>1
    <2>3. \A k \in 1..Len(t) : t[k].file_id = id =>
            (k < j - 1 => t[k].op \notin Terminal) /\ (k > j - 1 => t[k].op = "Setup")
      <3>1. ASSUME NEW k \in 1..Len(t), t[k].file_id = id
            PROVE  (k < j - 1 => t[k].op \notin Terminal) /\ (k > j - 1 => t[k].op = "Setup")
        <4>1. k + 1 \in 1..Len(d) /\ d[k + 1].file_id = id /\ t[k] = d[k + 1]
          BY <2>1, <3>1
        <4>2. (k + 1 < j => d[k + 1].op \notin Terminal) /\ (k + 1 > j => d[k + 1].op = "Setup")
          BY <1>1, <4>1
        <4> QED
          BY <4>1, <4>2
      <3> QED
        BY <3>1
    <2>4. EndComes(id, t, whole)
      BY <1>1, <2>2, <2>3 DEF EndComes
    <2> QED
      BY <2>4 DEF t
  <1>5. ~Lacks(id, d, Terminal)
    BY <1>1 DEF Lacks
  <1> QED
    BY <1>2, <1>3, <1>4, <1>5

\* The receiver ends the transfer.
LEMMA EndSent ==
    ASSUME NEW id, NEW whole, NEW d \in Seq(Msg), NEW m \in Msg, Lacks(id, d, Terminal),
           m.file_id = id, m.op \in Terminal, m.op = "Success" => whole
    PROVE  EndComes(id, Append(d, m), whole)
  <1> DEFINE t == Append(d, m)
             n == Len(d) + 1
  <1>1. /\ n \in 1..Len(t) /\ t[n] = m
        /\ \A k \in 1..Len(t) : (k \in 1..Len(d) /\ t[k] = d[k] /\ ~(k > n)) \/ k = n
    BY Grown
  <1>2. ~(n > n) /\ ~(n < n)
    BY Grown
  <1> HIDE DEF t
  <1>3. \A k \in 1..Len(t) : t[k].file_id = id =>
          (k < n => t[k].op \notin Terminal) /\ (k > n => t[k].op = "Setup")
    BY <1>1, <1>2 DEF Lacks
  <1>4. EndComes(id, t, whole)
    <2> HIDE DEF n
    <2> QED
      BY <1>1, <1>3 DEF EndComes
  <1> QED
    BY <1>4 DEF t

-----------------------------------------------------------------------------
(* The units of the file. *)

\* Units are data, and two stretches that meet are one.
LEMMA UnitsJoin ==
    ASSUME NEW f \in 1..MaxFiles, NEW from \in Nat, NEW n \in Nat
    PROVE  /\ Units(f, from, n) \in Data /\ Len(Units(f, from, n)) = n
           /\ Units(f, 0, from) \o Units(f, from, n) = Units(f, 0, from + n)
  <1>1. \A a, k \in Nat : Units(f, a, k) \in Data /\ Len(Units(f, a, k)) = k
    <2>1. ASSUME NEW a \in Nat, NEW k \in Nat
          PROVE  Units(f, a, k) \in Data /\ Len(Units(f, a, k)) = k
      <3>1. Units(f, a, k) \in [1..k -> (1..MaxFiles) \X Nat]
        BY DEF Units
      <3> QED
        BY <3>1, FunctionSeq DEF Data
    <2> QED
      BY <2>1
  <1>2. \A a, k \in Nat : \A i \in 1..k : Units(f, a, k)[i] = <<f, a + i>>
    BY DEF Units
  <1> DEFINE u == Units(f, 0, from)
             v == Units(f, from, n)
             w == Units(f, 0, from + n)
  <1>3. u \o v \in Data /\ Joined(u \o v, u, v)
    BY <1>1, JoinSeq DEF Data
  <1>4. u \o v \in Data /\ w \in Data /\ Len(w) = from + n /\ Len(u) = from /\ Len(v) = n
    BY <1>1, <1>3
  <1>5. ASSUME NEW i \in 1..(from + n)
        PROVE  (u \o v)[i] = w[i]
    <2>1. w[i] = <<f, i>>
      <3>1. from + n \in Nat /\ 0 + i = i
        OBVIOUS
      <3> QED
        BY <1>2, <3>1
    <2>2. CASE i \in 1..from
      <3>1. (u \o v)[i] = u[i]
        BY <1>3, <1>4, <2>2 DEF Joined
      <3>2. u[i] = <<f, i>>
        <4>1. u[i] = <<f, 0 + i>>
          BY <1>2, <2>2
        <4>2. 0 + i = i
          OBVIOUS
        <4> HIDE DEF u
        <4> QED
          BY <4>1, <4>2
      <3> HIDE DEF u, v, w
      <3> QED
        BY <2>1, <3>1, <3>2
    <2>3. CASE i \notin 1..from
      <3>1. i - from \in 1..n /\ from + (i - from) = i
        BY <2>3
      <3>2. (u \o v)[Len(u) + (i - from)] = v[i - from]
        BY <1>3, <1>4, <3>1 DEF Joined
      <3>3. v[i - from] = <<f, from + (i - from)>>
        BY <1>2, <3>1
      <3>4. (u \o v)[i] = v[i - from] /\ v[i - from] = <<f, i>>
        <4> HIDE DEF u, v
        <4> QED
          BY <1>4, <3>1, <3>2, <3>3
      <3> QED
        BY <2>1, <3>4
    <2> QED
      BY <2>2, <2>3
  <1>6. Len(u \o v) = from + n
    BY <1>3, <1>4 DEF Joined
  <1>7. u \o v = w
    <2> HIDE DEF u, v, w
    <2> QED
      BY <1>4, <1>5, <1>6, SeqEqual DEF Data
  <1> QED
    BY <1>1, <1>7

\* How far the file has arrived, and how far it was sent.
LEMMA ChunksBound ==
    ASSUME NEW id, NEW f, NEW size \in Nat, NEW from, NEW to, NEW c \in Seq(Msg),
           Chunks(id, c, f, size, from, to)
    PROVE  from \in 0..size /\ to \in 0..size
  <1>1. PICK off : Offsets(id, c, f, size, from, to, off)
    BY DEF Chunks
  <1>2. 1 \in 1..(Len(c) + 1) /\ Len(c) + 1 \in 1..(Len(c) + 1)
    BY LenProperties
  <1>3. off[1] \in 0..size /\ off[Len(c) + 1] \in 0..size
    BY <1>1, <1>2 DEF Offsets
  <1> QED
    BY <1>1, <1>3 DEF Offsets

\* One chunk more, or a payload that carries nothing for the id.
LEMMA ChunksGrow ==
    ASSUME NEW id, NEW f, NEW size \in Nat, NEW from, NEW to, NEW c \in Seq(Msg),
           Chunks(id, c, f, size, from, to),
           NEW m \in Msg, to + Carried(id, m) <= size, Carried(id, m) \in Nat,
           Carries(id, m) => /\ m.data = Units(f, to, Len(m.data))
                             /\ is_final_chunk(m.op) <=> to + Carried(id, m) = size
    PROVE  Chunks(id, Append(c, m), f, size, from, to + Carried(id, m))
  <1>1. PICK off : Offsets(id, c, f, size, from, to, off)
    BY DEF Chunks
  <1> DEFINE t == Append(c, m)
             n == Len(c)
             last == to + Carried(id, m)
             new == [i \in 1..(n + 2) |-> IF i = n + 2 THEN last ELSE off[i]]
  <1>2. /\ n \in Nat /\ Len(t) = n + 1 /\ t[n + 1] = m
        /\ \A i \in 1..n : t[i] = c[i]
    BY Grown
  <1>3. to \in 0..size /\ last \in 0..size
    BY ChunksBound
  <1>4. off \in [1..(n + 1) -> 0..size] /\ off[1] = from /\ off[n + 1] = to
    BY <1>1 DEF Offsets
  <1>5. \A i \in 1..n :
          /\ off[i + 1] = off[i] + Carried(id, c[i])
          /\ Carries(id, c[i]) =>
               /\ c[i].data = Units(f, off[i], Len(c[i].data))
               /\ is_final_chunk(c[i].op) <=> off[i + 1] = size
    BY <1>1 DEF Offsets
  <1> HIDE DEF n, last, t
  <1>6. /\ new \in [1..(n + 2) -> 0..size]
        /\ new[n + 2] = last /\ \A i \in 1..(n + 1) : new[i] = off[i]
    BY <1>2, <1>3, <1>4
  <1> HIDE DEF new
  <1>7. ASSUME NEW i \in 1..(n + 1)
        PROVE  /\ new[i + 1] = new[i] + Carried(id, t[i])
               /\ Carries(id, t[i]) =>
                    /\ t[i].data = Units(f, new[i], Len(t[i].data))
                    /\ is_final_chunk(t[i].op) <=> new[i + 1] = size
    <2>1. CASE i = n + 1
      <3>1. i + 1 = n + 2 /\ new[i] = to /\ t[i] = m /\ new[i + 1] = last
        BY <1>2, <1>4, <1>6, <2>1
      <3> QED
        BY <3>1 DEF last
    <2>2. CASE i # n + 1
      <3>1. i \in 1..n /\ i + 1 \in 1..(n + 1)
        BY <1>2, <2>2
      <3>2. new[i] = off[i] /\ new[i + 1] = off[i + 1] /\ t[i] = c[i]
        BY <1>2, <1>6, <3>1
      <3> QED
        BY <1>5, <3>1, <3>2
    <2> QED
      BY <2>1, <2>2
  <1>8. new[1] = from /\ Len(t) + 1 = n + 2
    BY <1>2, <1>4, <1>6
  <1>9. Offsets(id, t, f, size, from, last, new)
    BY <1>2, <1>6, <1>7, <1>8 DEF Offsets
  <1> QED
    BY <1>9 DEF Chunks, t, last

\* The first payload is taken.
LEMMA ChunksShrink ==
    ASSUME NEW id, NEW f, NEW size \in Nat, NEW from, NEW to, NEW c \in Seq(Msg),
           Chunks(id, c, f, size, from, to), c # <<>>
    PROVE  /\ Chunks(id, Tail(c), f, size, from + Carried(id, Head(c)), to)
           /\ from + Carried(id, Head(c)) \in 0..size
           /\ Carries(id, Head(c)) =>
                /\ Head(c).data = Units(f, from, Len(Head(c).data))
                /\ is_final_chunk(Head(c).op) <=> from + Carried(id, Head(c)) = size
  <1>1. PICK off : Offsets(id, c, f, size, from, to, off)
    BY DEF Chunks
  <1> DEFINE t == Tail(c)
             n == Len(t)
             new == [i \in 1..(n + 1) |-> off[i + 1]]
  <1>2. /\ n \in Nat /\ Len(c) = n + 1 /\ Head(c) = c[1] /\ 1 \in 1..Len(c)
        /\ \A i \in 1..n : t[i] = c[i + 1] /\ i + 1 \in 1..Len(c)
    BY Shrunk
  <1>3. off \in [1..(Len(c) + 1) -> 0..size] /\ off[1] = from /\ off[Len(c) + 1] = to
    BY <1>1 DEF Offsets
  <1>4. \A i \in 1..Len(c) :
          /\ off[i + 1] = off[i] + Carried(id, c[i])
          /\ Carries(id, c[i]) =>
               /\ c[i].data = Units(f, off[i], Len(c[i].data))
               /\ is_final_chunk(c[i].op) <=> off[i + 1] = size
    BY <1>1 DEF Offsets
  <1> HIDE DEF n, t
  <1>5. off \in [1..(n + 2) -> 0..size]
    <2>1. Len(c) + 1 = n + 2
      BY <1>2
    <2> QED
      BY <1>3, <2>1
  <1>6. new \in [1..(n + 1) -> 0..size] /\ \A i \in 1..(n + 1) : new[i] = off[i + 1]
    BY <1>2, <1>5
  <1> HIDE DEF new
  <1>7. off[2] = from + Carried(id, Head(c)) /\ off[2] \in 0..size
    <2>1. off[1 + 1] = off[1] + Carried(id, c[1])
      BY <1>2, <1>4
    <2>2. off[2] \in 0..size
      BY <1>2, <1>5
    <2> QED
      BY <1>2, <1>3, <2>1, <2>2
  <1>8. Carries(id, Head(c)) =>
          /\ Head(c).data = Units(f, from, Len(Head(c).data))
          /\ is_final_chunk(Head(c).op) <=> from + Carried(id, Head(c)) = size
    <2>1. Carries(id, c[1]) =>
               /\ c[1].data = Units(f, off[1], Len(c[1].data))
               /\ is_final_chunk(c[1].op) <=> off[2] = size
      <3>1. 1 + 1 = 2
        OBVIOUS
      <3> QED
        BY <1>2, <1>4, <3>1
    <2> QED
      BY <1>2, <1>3, <1>7, <2>1
  <1>9. ASSUME NEW i \in 1..n
        PROVE  /\ new[i + 1] = new[i] + Carried(id, t[i])
               /\ Carries(id, t[i]) =>
                    /\ t[i].data = Units(f, new[i], Len(t[i].data))
                    /\ is_final_chunk(t[i].op) <=> new[i + 1] = size
    <2>1. i + 1 \in 1..Len(c) /\ t[i] = c[i + 1] /\ i \in 1..(n + 1) /\ i + 1 \in 1..(n + 1)
      BY <1>2
    <2>2. new[i] = off[i + 1] /\ new[i + 1] = off[(i + 1) + 1]
      BY <1>6, <2>1
    <2> QED
      BY <1>4, <2>1, <2>2
  <1>10. new[1] = off[2] /\ new[n + 1] = to
    <2>1. 1 \in 1..(n + 1) /\ n + 1 \in 1..(n + 1) /\ 1 + 1 = 2 /\ (n + 1) + 1 = Len(c) + 1
      BY <1>2
    <2> QED
      BY <1>3, <1>6, <2>1
  <1>11. Offsets(id, t, f, size, off[2], to, new)
    BY <1>6, <1>9, <1>10 DEF Offsets, n
  <1> QED
    BY <1>7, <1>8, <1>11 DEF Chunks, t

\* Nothing of the id is under way.
LEMMA NoChunks ==
    ASSUME NEW id, NEW f, NEW size \in Nat, NEW c \in Seq(Msg),
           \A i \in 1..Len(c) : c[i].file_id # id
    PROVE  Chunks(id, c, f, size, 0, 0)
  <1> DEFINE off == [i \in 1..(Len(c) + 1) |-> 0]
  <1>1. Len(c) \in Nat
    BY LenProperties
  <1>2. Offsets(id, c, f, size, 0, 0, off)
    BY <1>1 DEF Offsets, Carries, Carried
  <1> QED
    BY <1>2 DEF Chunks

-----------------------------------------------------------------------------
(* The view of one transfer, step by step.  What follows is about any values the   *)
(* variables may have.                                                             *)

\* Files that were sent stay, and only their fate changes.
FilesKept(fl, fl2) ==
    /\ Len(fl) \in Nat /\ Len(fl2) \in Nat /\ Len(fl) <= Len(fl2)
    /\ \A f \in 1..Len(fl) : fl2[f].by = fl[f].by /\ fl2[f].id = fl[f].id /\ fl2[f].size = fl[f].size

\* Nothing of the id is sent or delivered.
Quiet(id, c, c2) ==
    \/ c2 = c
    \/ \E m \in Msg : m.file_id # id /\ c2 = Append(c, m)
    \/ c # <<>> /\ Head(c).file_id # id /\ c2 = Tail(c)

\* What is sent or delivered of other ids changes nothing for an id.
LEMMA QuietKeeps ==
    ASSUME NEW id, NEW c \in Seq(Msg), NEW c2, Quiet(id, c, c2)
    PROVE  /\ c2 \in Seq(Msg)
           /\ \A ops : Lacks(id, c2, ops) <=> Lacks(id, c, ops)
           /\ OnlySetups(id, c) => OnlySetups(id, c2)
           /\ \A f : SetupLast(id, c, f) => SetupLast(id, c2, f)
           /\ \A whole : EndComes(id, c, whole) => EndComes(id, c2, whole)
           /\ \A ops : AtMostOne(id, c, ops) => AtMostOne(id, c2, ops)
           /\ \A f, from, to : \A size \in Nat :
                Chunks(id, c, f, size, from, to) => Chunks(id, c2, f, size, from, to)
  <1>1. CASE c2 = c
    BY <1>1
  <1>2. ASSUME NEW m \in Msg, m.file_id # id, c2 = Append(c, m)
        PROVE  /\ c2 \in Seq(Msg)
               /\ \A ops : Lacks(id, c2, ops) <=> Lacks(id, c, ops)
               /\ OnlySetups(id, c) => OnlySetups(id, c2)
               /\ \A f : SetupLast(id, c, f) => SetupLast(id, c2, f)
               /\ \A whole : EndComes(id, c, whole) => EndComes(id, c2, whole)
               /\ \A ops : AtMostOne(id, c, ops) => AtMostOne(id, c2, ops)
               /\ \A f, from, to : \A size \in Nat :
                    Chunks(id, c, f, size, from, to) => Chunks(id, c2, f, size, from, to)
    <2>1. c2 \in Seq(Msg)
      BY <1>2, Grown
    <2>2. \A ops : Lacks(id, c2, ops) <=> Lacks(id, c, ops)
      BY <1>2, LacksMove
    <2>3. OnlySetups(id, c) => OnlySetups(id, c2)
      BY <1>2, SetupsMove
    <2>4. \A f : SetupLast(id, c, f) => SetupLast(id, c2, f)
      BY <1>2, SetupMoves
    <2>5. \A whole : EndComes(id, c, whole) => EndComes(id, c2, whole)
      BY <1>2, EndMoves
    <2>6. \A ops : AtMostOne(id, c, ops) => AtMostOne(id, c2, ops)
      BY <1>2, OneMoves
    <2>7. ASSUME NEW f, NEW from, NEW to, NEW size \in Nat, Chunks(id, c, f, size, from, to)
          PROVE  Chunks(id, c2, f, size, from, to)
      <3>1. Carried(id, m) = 0 /\ ~Carries(id, m)
        BY <1>2 DEF Carried, Carries
      <3>2. to \in 0..size
        BY <2>7, ChunksBound
      <3>3. to + Carried(id, m) = to /\ to + Carried(id, m) <= size /\ Carried(id, m) \in Nat
        BY <3>1, <3>2
      <3>4. Chunks(id, Append(c, m), f, size, from, to + Carried(id, m))
        BY <2>7, <3>1, <3>3, ChunksGrow
      <3> QED
        BY <1>2, <3>3, <3>4
    <2> QED
      BY <2>1, <2>2, <2>3, <2>4, <2>5, <2>6, <2>7
  <1>3. ASSUME c # <<>>, Head(c).file_id # id, c2 = Tail(c)
        PROVE  /\ c2 \in Seq(Msg)
               /\ \A ops : Lacks(id, c2, ops) <=> Lacks(id, c, ops)
               /\ OnlySetups(id, c) => OnlySetups(id, c2)
               /\ \A f : SetupLast(id, c, f) => SetupLast(id, c2, f)
               /\ \A whole : EndComes(id, c, whole) => EndComes(id, c2, whole)
               /\ \A ops : AtMostOne(id, c, ops) => AtMostOne(id, c2, ops)
               /\ \A f, from, to : \A size \in Nat :
                    Chunks(id, c, f, size, from, to) => Chunks(id, c2, f, size, from, to)
    <2>1. c2 \in Seq(Msg)
      BY <1>3, Shrunk
    <2>2. \A ops : Lacks(id, c2, ops) <=> Lacks(id, c, ops)
      BY <1>3, LacksMove
    <2>3. OnlySetups(id, c) => OnlySetups(id, c2)
      BY <1>3, SetupsMove
    <2>4. \A f : SetupLast(id, c, f) => SetupLast(id, c2, f)
      BY <1>3, SetupMoves
    <2>5. \A whole : EndComes(id, c, whole) => EndComes(id, c2, whole)
      BY <1>3, EndMoves
    <2>6. \A ops : AtMostOne(id, c, ops) => AtMostOne(id, c2, ops)
      BY <1>3, OneMoves
    <2>7. ASSUME NEW f, NEW from, NEW to, NEW size \in Nat, Chunks(id, c, f, size, from, to)
          PROVE  Chunks(id, c2, f, size, from, to)
      <3>1. Carried(id, Head(c)) = 0
        BY <1>3 DEF Carried, Carries
      <3>2. from + 0 = from
        BY <2>7, ChunksBound
      <3> QED
        BY <1>3, <2>7, <3>1, <3>2, ChunksShrink
    <2> QED
      BY <2>1, <2>2, <2>3, <2>4, <2>5, <2>6, <2>7
  <1> QED
    BY <1>1, <1>2, <1>3 DEF Quiet

\* A payload of the id that opens nothing, ends nothing and carries nothing.
LEMMA PassesChunks ==
    ASSUME NEW id, NEW f, NEW size \in Nat, NEW from, NEW to, NEW c \in Seq(Msg),
           Chunks(id, c, f, size, from, to)
    PROVE  /\ \A m \in Msg : ~IsData(m.op) => Chunks(id, Append(c, m), f, size, from, to)
           /\ c # <<>> /\ ~IsData(Head(c).op) => Chunks(id, Tail(c), f, size, from, to)
  <1>1. from \in 0..size /\ from + 0 = from /\ to \in 0..size /\ to + 0 = to /\ to <= size
    BY ChunksBound
  <1>2. ASSUME NEW m \in Msg, ~IsData(m.op)
        PROVE  Chunks(id, Append(c, m), f, size, from, to)
    <2>1. Carried(id, m) = 0 /\ ~Carries(id, m)
      BY <1>2 DEF Carried, Carries
    <2>2. to + Carried(id, m) = to /\ to + Carried(id, m) <= size /\ Carried(id, m) \in Nat
      BY <1>1, <2>1
    <2>3. Chunks(id, Append(c, m), f, size, from, to + Carried(id, m))
      BY <2>1, <2>2, ChunksGrow
    <2> QED
      BY <2>2, <2>3
  <1>3. ASSUME c # <<>>, ~IsData(Head(c).op)
        PROVE  Chunks(id, Tail(c), f, size, from, to)
    <2>1. Carried(id, Head(c)) = 0
      BY <1>3 DEF Carried, Carries
    <2> QED
      BY <1>1, <1>3, <2>1, ChunksShrink
  <1> QED
    BY <1>2, <1>3

\* Sessions and files heard stay right when files are added or get their fate.
LEMMA FilesStay ==
    ASSUME NEW e, NEW id, NEW o \in Session, NEW h \in Heard, NEW fl, NEW fl2, FilesKept(fl, fl2)
    PROVE  /\ SessionInv(e, id, o, fl) => SessionInv(e, id, o, fl2)
           /\ Intact(h, fl) => Intact(h, fl2)
           /\ SessionInv(e, id, o, fl) /\ o # NoSession => fl2[o.file].size = fl[o.file].size
  <1>1. \A f \in 1..Len(fl) : f \in 1..Len(fl2)
    BY DEF FilesKept
  <1>2. SessionInv(e, id, o, fl) => SessionInv(e, id, o, fl2)
    BY <1>1 DEF SessionInv, FilesKept
  <1>3. Intact(h, fl) => Intact(h, fl2)
    BY <1>1 DEF Intact, FilesKept
  <1>4. SessionInv(e, id, o, fl) /\ o # NoSession => fl2[o.file].size = fl[o.file].size
    BY DEF SessionInv, FilesKept
  <1> QED
    BY <1>2, <1>3, <1>4

\* The size of the file that is sent.
LEMMA SizeNat ==
    ASSUME NEW e, NEW id, NEW o \in Session, NEW fl \in Seq(File), SessionInv(e, id, o, fl), o # NoSession
    PROVE  fl[o.file].size \in Nat /\ o.file \in 1..Len(fl) /\ o.state # "None"
  <1>1. o.file \in 1..Len(fl)
    BY DEF SessionInv
  <1>2. fl[o.file] \in File
    BY <1>1, ElementOfSeq
  <1> QED
    BY <1>1, <1>2 DEF SessionInv, File

\* Steps of other transfers.
LEMMA ViewElsewhere ==
    ASSUME NEW e, NEW id, NEW c \in Seq(Msg), NEW d \in Seq(Msg), NEW o \in Session,
           NEW slot, NEW h \in Heard, NEW fl \in Seq(File), NEW p, NEW c2, NEW d2, NEW fl2,
           View(e, id, c, d, o, slot, h, fl, p),
           Quiet(id, c, c2), Quiet(id, d, d2), FilesKept(fl, fl2)
    PROVE  View(e, id, c2, d2, o, slot, h, fl2, p)
  <1>1. SessionInv(e, id, o, fl) /\ Intact(h, fl) /\ Transfer(id, c, d, o, slot, h, fl)
    BY DEF View
  <1>2. /\ SessionInv(e, id, o, fl2) /\ Intact(h, fl2)
        /\ o # NoSession => fl2[o.file].size = fl[o.file].size /\ fl[o.file].size \in Nat
    <2>1. Intact(h, fl2)
      BY <1>1, FilesStay, Zenon
    <2>2. SessionInv(e, id, o, fl2)
      BY <1>1, FilesStay, Zenon
    <2>3. o # NoSession => fl2[o.file].size = fl[o.file].size
      <3>1. ASSUME o # NoSession
            PROVE  fl2[o.file].size = fl[o.file].size
        <4>1. o.file \in 1..Len(fl)
          BY <1>1, <3>1, SizeNat
        <4> QED
          BY <4>1 DEF FilesKept
      <3> QED
        BY <3>1
    <2>4. o # NoSession => fl[o.file].size \in Nat
      BY <1>1, SizeNat
    <2> QED
      BY <2>1, <2>2, <2>3, <2>4
  <1>3. Transfer(id, c2, d2, o, slot, h, fl2)
    <2>1. CASE o = NoSession
      BY <1>1, <2>1, QuietKeeps DEF Transfer, Free
    <2>2. CASE o # NoSession /\ Opening(id, c, d, o, slot)
      <3>1. Opening(id, c2, d2, o, slot)
        BY <2>2, QuietKeeps DEF Opening
      <3> QED
        BY <2>2, <3>1 DEF Transfer
    <2>3. CASE o # NoSession /\ Open(id, c, d, o, slot, h, fl[o.file].size)
      <3> PICK size \in Nat : size = fl[o.file].size /\ size = fl2[o.file].size
        BY <1>2, <2>3
      <3>2. Open(id, c, d, o, slot, h, size)
        BY <2>3
      <3>3. Lacks(id, d2, Terminal) /\ Lacks(id, c2, {"Setup", "Cancel"})
        BY <3>2, QuietKeeps DEF Open
      <3>4. Chunks(id, c2, o.file, size, Len(h.data), o.progress)
        BY <3>2, QuietKeeps DEF Open
      <3>5. Open(id, c2, d2, o, slot, h, size)
        BY ONLY <3>2, <3>3, <3>4 DEF Open
      <3>1. Open(id, c2, d2, o, slot, h, fl2[o.file].size)
        BY <3>5
      <3> QED
        BY <2>3, <3>1 DEF Transfer
    <2>4. CASE o # NoSession /\ Ending(id, c, d, o, slot, h)
      <3>1. Ending(id, c2, d2, o, slot, h)
        BY <2>4, QuietKeeps DEF Ending
      <3> QED
        BY <2>4, <3>1 DEF Transfer
    <2> QED
      BY <1>1, <2>1, <2>2, <2>3, <2>4 DEF Transfer
  <1>4. PausesOwn(id, c, d, o, slot, p) => PausesOwn(id, c2, d2, o, slot, p)
    BY QuietKeeps DEF PausesOwn
  <1> QED
    BY <1>2, <1>3, <1>4 DEF View

\* send_file.
LEMMA ViewSend ==
    ASSUME NEW e, NEW id, NEW c \in Seq(Msg), NEW d \in Seq(Msg), NEW o \in Session,
           NEW slot, NEW h \in Heard, NEW fl \in Seq(File), NEW p, NEW m \in Msg, NEW fl2,
           NEW o2 \in Session,
           View(e, id, c, d, o, slot, h, fl, p), FilesKept(fl, fl2),
           o = NoSession, m.file_id = id, m.op = "Setup", m.file = o2.file,
           o2.file \in 1..Len(fl2), fl2[o2.file].by = e, fl2[o2.file].id = id,
           fl2[o2.file].size \in Nat, o2.progress = 0, o2.state = "Pause"
    PROVE  View(e, id, Append(c, m), d, o2, slot, h, fl2, p)
  <1>1. Intact(h, fl2)
    BY FilesStay DEF View
  <1>2. SessionInv(e, id, o2, fl2)
    BY DEF SessionInv
  <1>3. o2 # NoSession /\ o.state = "None"
    BY DEF NoSession
  <1>4. slot = NoSlot /\ Lacks(id, c, {"Setup"}) /\ OnlySetups(id, d)
    BY DEF View, Transfer, Free
  <1>5. SetupLast(id, Append(c, m), o2.file)
    BY <1>4, SetupSent
  <1>6. Transfer(id, Append(c, m), d, o2, slot, h, fl2)
    BY <1>3, <1>4, <1>5 DEF Transfer, Opening
  <1>7. ASSUME PausesOwn(id, c, d, o, slot, p)
        PROVE  PausesOwn(id, Append(c, m), d, o2, slot, p)
    <2>1. Lacks(id, c, FinalOps) /\ Lacks(id, d, Terminal) /\ ~p /\ AtMostOne(id, d, {"Start"})
      BY <1>3, <1>7 DEF PausesOwn
    <2>2. m.op \notin FinalOps
      BY DEF FinalOps
    <2>3. Lacks(id, Append(c, m), FinalOps)
      BY <2>1, <2>2, LacksMove
    <2>4. AtMostOne(id, Append(c, m), FinalOps)
      BY <2>3 DEF Lacks, AtMostOne
    <2> QED
      BY <2>1, <2>3, <2>4 DEF PausesOwn
  <1>8. e # Foreign => ~p
    BY <1>4 DEF View
  <1> QED
    BY <1>1, <1>2, <1>6, <1>7, <1>8 DEF View

\* poll_send: the next units of the file.
LEMMA ViewPoll ==
    ASSUME NEW e, NEW id, NEW c \in Seq(Msg), NEW d \in Seq(Msg), NEW o \in Session,
           NEW slot, NEW h \in Heard, NEW fl \in Seq(File), NEW p, NEW m \in Msg,
           NEW o2 \in Session,
           View(e, id, c, d, o, slot, h, fl, p),
           o.state = "Sending", m.file_id = id, IsData(m.op),
           m.data = Units(o.file, o.progress, Len(m.data)), Len(m.data) \in Nat,
           o2.file = o.file, o2.progress = o.progress + Len(m.data),
           o2.progress <= fl[o.file].size,
           is_final_chunk(m.op) <=> o2.progress = fl[o.file].size,
           o2.state = IF is_final_chunk(m.op) THEN "WaitingForSuccess" ELSE "Sending"
    PROVE  View(e, id, Append(c, m), d, o2, slot, h, fl, p)
  <1>1. o # NoSession /\ o2 # NoSession /\ o2.state # "None"
    BY DEF NoSession
  <1>2. SessionInv(e, id, o2, fl)
    BY <1>1 DEF SessionInv, View
  <1>3. fl[o.file].size \in Nat
    BY <1>1, SizeNat DEF View
  <1>4. m.op \notin {"Setup", "Cancel"} /\ (m.op \in FinalOps <=> is_final_chunk(m.op))
    BY DEF IsData, FinalOps, is_final_chunk
  <1>5. Transfer(id, Append(c, m), d, o2, slot, h, fl)
    <2>1. CASE Open(id, c, d, o, slot, h, fl[o.file].size)
      <3>1. Carried(id, m) = Len(m.data) /\ Carries(id, m)
        BY DEF Carried, Carries
      <3>2. Chunks(id, c, o.file, fl[o.file].size, Len(h.data), o.progress)
        BY <2>1 DEF Open
      <3>3. Chunks(id, Append(c, m), o.file, fl[o.file].size, Len(h.data), o.progress + Carried(id, m))
        BY <1>3, <3>1, <3>2, ChunksGrow
      <3>4. Lacks(id, Append(c, m), {"Setup", "Cancel"})
        BY <1>4, <2>1, LacksMove DEF Open
      <3>5. Open(id, Append(c, m), d, o2, slot, h, fl[o2.file].size)
        BY <2>1, <3>1, <3>3, <3>4 DEF Open
      <3> QED
        BY <1>1, <3>5 DEF Transfer
    <2>2. CASE Ending(id, c, d, o, slot, h)
      <3>1. Lacks(id, Append(c, m), {"Setup"})
        BY <1>4, <2>2, LacksMove DEF Ending
      <3>2. Ending(id, Append(c, m), d, o2, slot, h)
        BY <2>2, <3>1 DEF Ending
      <3> QED
        BY <1>1, <3>2 DEF Transfer
    <2>3. ~Opening(id, c, d, o, slot)
      BY DEF Opening
    <2> QED
      BY <1>1, <2>1, <2>2, <2>3 DEF View, Transfer
  <1>6. ASSUME PausesOwn(id, c, d, o, slot, p)
        PROVE  PausesOwn(id, Append(c, m), d, o2, slot, p)
    <2>1. /\ Lacks(id, c, FinalOps) /\ Lacks(id, d, Terminal) /\ ~p /\ AtMostOne(id, d, {"Start"})
          /\ AtMostOne(id, c, FinalOps) /\ Lacks(id, d, {"Start"})
      BY <1>6 DEF PausesOwn
    <2>2. AtMostOne(id, Append(c, m), FinalOps)
      BY <2>1, OneMoves
    <2>3. ~is_final_chunk(m.op) => Lacks(id, Append(c, m), FinalOps)
      BY <1>4, <2>1, LacksMove
    <2>4. is_final_chunk(m.op) => o2.state = "WaitingForSuccess"
      OBVIOUS
    <2> QED
      BY <2>1, <2>2, <2>3, <2>4 DEF PausesOwn
  <1> QED
    BY <1>2, <1>5, <1>6 DEF View

\* An end pauses what it sends, or goes on with it.
LEMMA ViewOwnTurn ==
    ASSUME NEW e, NEW id, NEW c \in Seq(Msg), NEW d \in Seq(Msg), NEW o \in Session,
           NEW slot, NEW h \in Heard, NEW fl \in Seq(File), NEW p, NEW m \in Msg,
           NEW o2 \in Session, NEW p2,
           View(e, id, c, d, o, slot, h, fl, p), e = Foreign, m.file_id = id,
           o2.file = o.file, o2.progress = o.progress,
           \/ o.state = "Sending" /\ m.op = "Pause" /\ o2.state = "Pause" /\ p2
           \/ p /\ m.op = "Start" /\ o2.state = "Sending" /\ ~p2
    PROVE  View(e, id, Append(c, m), d, o2, slot, h, fl, p2)
  <1>1. PausesOwn(id, c, d, o, slot, p)
    BY DEF View
  <1>2. o.state \in {"Sending", "Pause"} /\ o2.state \in {"Sending", "Pause"}
    BY <1>1 DEF PausesOwn
  <1>3. o # NoSession /\ o2 # NoSession /\ o2.state # "None"
    BY <1>2 DEF NoSession
  <1>4. SessionInv(e, id, o2, fl)
    BY <1>3 DEF SessionInv, View
  <1>5. /\ Lacks(id, c, FinalOps) /\ Lacks(id, d, Terminal) /\ Lacks(id, d, {"Start"})
        /\ AtMostOne(id, d, {"Start"}) /\ AtMostOne(id, c, FinalOps)
    BY <1>1, <1>2 DEF PausesOwn
  <1>6. m.op \notin {"Setup", "Cancel"} /\ m.op \notin FinalOps /\ ~IsData(m.op)
    BY DEF IsData, FinalOps
  <1>7. Open(id, c, d, o, slot, h, fl[o.file].size)
    <2>1. ~Opening(id, c, d, o, slot)
      BY <1>1 DEF Opening, PausesOwn
    <2>2. ~Ending(id, c, d, o, slot, h)
      BY <1>5, EndMoves DEF Ending
    <2> QED
      BY <1>3, <2>1, <2>2 DEF View, Transfer
  <1>8. fl[o.file].size \in Nat
    BY <1>3, SizeNat DEF View
  <1>9. Chunks(id, Append(c, m), o.file, fl[o.file].size, Len(h.data), o.progress)
    BY <1>6, <1>7, <1>8, PassesChunks DEF Open
  <1>10. Lacks(id, Append(c, m), {"Setup", "Cancel"})
    BY <1>6, <1>7, LacksMove DEF Open
  <1>11. Open(id, Append(c, m), d, o2, slot, h, fl[o2.file].size)
    BY <1>7, <1>9, <1>10 DEF Open
  <1>12. Transfer(id, Append(c, m), d, o2, slot, h, fl)
    BY <1>3, <1>11 DEF Transfer
  <1>13. Lacks(id, Append(c, m), FinalOps) /\ AtMostOne(id, Append(c, m), FinalOps)
    BY <1>5, <1>6, LacksMove, OneMoves
  <1>14. PausesOwn(id, Append(c, m), d, o2, slot, p2)
    BY <1>5, <1>7, <1>13 DEF PausesOwn, Open
  <1> QED
    BY <1>4, <1>12, <1>14 DEF View

\* The receiver gets the Setup: it has no slot, and nothing else of the id is under way
\* to it.
LEMMA ViewSetup ==
    ASSUME NEW e, NEW id, NEW c \in Seq(Msg), NEW d \in Seq(Msg), NEW o \in Session,
           NEW slot, NEW h \in Heard, NEW fl \in Seq(File), NEW p, NEW m \in Msg,
           NEW h2 \in Heard, NEW p2,
           View(e, id, c, d, o, slot, h, fl, p), p2 => p,
           c # <<>>, Head(c).file_id = id, Head(c).op = "Setup", m.file_id = id, m.op = "Start",
           h2.file = Head(c).file, h2.data = <<>>, ~h2.final
    PROVE  slot = NoSlot /\ View(e, id, Tail(c), Append(d, m), o, "Sending", h2, fl, p2)
  <1>1. ~Lacks(id, c, {"Setup"})
    BY LacksMove
  <1>2. Lacks(id, c, {"Setup", "Cancel"}) => Lacks(id, c, {"Setup"})
    BY DEF Lacks
  <1>3. o # NoSession /\ Opening(id, c, d, o, slot)
    BY <1>1, <1>2 DEF View, Transfer, Free, Open, Ending
  <1>4. slot = NoSlot /\ "Sending" # NoSlot
    BY <1>3 DEF Opening, NoSlot
  <1>5. Head(c).file = o.file /\ \A i \in 1..Len(Tail(c)) : Tail(c)[i].file_id # id
    BY <1>3, SetupMoves DEF Opening
  <1>6. fl[o.file].size \in Nat /\ SessionInv(e, id, o, fl) /\ o.file \in 1..Len(fl)
    BY <1>3, SizeNat DEF View
  <1>7. Tail(c) \in Seq(Msg) /\ \A ops : Lacks(id, Tail(c), ops)
    BY <1>5, Shrunk DEF Lacks
  <1>8. Len(<<>>) = 0 /\ h2.data = <<>> /\ h2.file = o.file /\ ~h2.final
    BY <1>5
  <1>9. Chunks(id, Tail(c), o.file, fl[o.file].size, Len(h2.data), o.progress)
    BY <1>3, <1>5, <1>6, <1>7, <1>8, NoChunks DEF Opening
  <1>10. Intact(h2, fl)
    <2>1. Units(o.file, 0, 0) = <<>>
      BY DEF Units
    <2> QED
      BY <1>6, <1>8, <2>1 DEF Intact
  <1>11. OnlySetups(id, d) /\ Lacks(id, d, Terminal) /\ Lacks(id, d, {"Start"}) /\ o.state = "Pause"
    BY <1>3, SetupsMove DEF Opening
  <1>12. Lacks(id, Append(d, m), Terminal)
    BY <1>11, LacksMove DEF Terminal
  <1>13. Open(id, Tail(c), Append(d, m), o, "Sending", h2, fl[o.file].size)
    BY <1>4, <1>7, <1>8, <1>9, <1>12 DEF Open
  <1>14. ASSUME PausesOwn(id, c, d, o, slot, p)
         PROVE  PausesOwn(id, Tail(c), Append(d, m), o, "Sending", p2)
    <2>1. ~p2 /\ AtMostOne(id, d, {"Start"})
      BY <1>4, <1>14 DEF PausesOwn
    <2>2. AtMostOne(id, Append(d, m), {"Start"})
      BY <1>11, <2>1, OneMoves
    <2>3. AtMostOne(id, Tail(c), FinalOps)
      BY <1>5 DEF AtMostOne
    <2> QED
      BY <1>7, <1>11, <1>12, <2>1, <2>2, <2>3 DEF PausesOwn
  <1> QED
    BY <1>3, <1>4, <1>6, <1>10, <1>13, <1>14 DEF View, Transfer

\* A payload that leaves the receiver as it is, but for pauses and cancellations.
LEMMA ViewPasses ==
    ASSUME NEW e, NEW id, NEW c \in Seq(Msg), NEW d \in Seq(Msg), NEW o \in Session,
           NEW slot, NEW h \in Heard, NEW fl \in Seq(File), NEW p, NEW slot2, NEW p2,
           View(e, id, c, d, o, slot, h, fl, p), p2 => p,
           c # <<>>, Head(c).file_id = id, Head(c).op # "Setup",
           slot = NoSlot \/ ~IsData(Head(c).op),
           slot2 = NoSlot <=> slot = NoSlot \/ Head(c).op = "Cancel",
           e # Foreign /\ slot2 = NoSlot => ~p2
    PROVE  View(e, id, Tail(c), d, o, slot2, h, fl, p2)
  <1>1. Tail(c) \in Seq(Msg)
    BY Shrunk
  <1>2. Lacks(id, c, {"Setup"}) => Lacks(id, Tail(c), {"Setup"})
    BY LacksMove
  <1>3. Head(c).op = "Cancel" => slot = NoSlot
    <2>1. Head(c).op = "Cancel" => ~Lacks(id, c, {"Setup", "Cancel"})
      BY Shrunk DEF Lacks
    <2> QED
      BY <2>1 DEF View, Transfer, Free, Opening, Open, Ending
  <1>4. slot2 = NoSlot <=> slot = NoSlot
    BY <1>3
  <1>5. Transfer(id, Tail(c), d, o, slot2, h, fl)
    <2>1. CASE o = NoSession
      BY <1>2, <1>4, <2>1 DEF View, Transfer, Free
    <2>2. CASE o # NoSession /\ Opening(id, c, d, o, slot)
      <3>1. SetupLast(id, Tail(c), o.file)
        BY <2>2, SetupMoves DEF Opening
      <3>2. Opening(id, Tail(c), d, o, slot2)
        BY <1>4, <2>2, <3>1 DEF Opening
      <3> QED
        BY <2>2, <3>2 DEF Transfer
    <2>3. CASE o # NoSession /\ Open(id, c, d, o, slot, h, fl[o.file].size)
      <3>1. ~IsData(Head(c).op) /\ fl[o.file].size \in Nat
        BY <2>3, SizeNat DEF Open, View
      <3>2. Chunks(id, Tail(c), o.file, fl[o.file].size, Len(h.data), o.progress)
        BY <2>3, <3>1, PassesChunks DEF Open
      <3>3. Lacks(id, Tail(c), {"Setup", "Cancel"})
        BY <2>3, LacksMove DEF Open
      <3>4. Open(id, Tail(c), d, o, slot2, h, fl[o.file].size)
        BY <1>4, <2>3, <3>2, <3>3 DEF Open
      <3> QED
        BY <2>3, <3>4 DEF Transfer
    <2>4. CASE o # NoSession /\ Ending(id, c, d, o, slot, h)
      <3>1. Ending(id, Tail(c), d, o, slot2, h)
        BY <1>2, <1>4, <2>4 DEF Ending
      <3> QED
        BY <2>4, <3>1 DEF Transfer
    <2> QED
      BY <2>1, <2>2, <2>3, <2>4 DEF View, Transfer
  <1>6. ASSUME PausesOwn(id, c, d, o, slot, p)
        PROVE  PausesOwn(id, Tail(c), d, o, slot2, p2)
    <2>1. AtMostOne(id, Tail(c), FinalOps) /\ (Lacks(id, c, FinalOps) => Lacks(id, Tail(c), FinalOps))
      BY <1>6, OneMoves, LacksMove DEF PausesOwn
    <2> QED
      BY <1>4, <1>6, <2>1 DEF PausesOwn
  <1> QED
    BY <1>5, <1>6 DEF View

\* A chunk of the open transfer, and the Success behind the final one.
LEMMA ViewData ==
    ASSUME NEW e, NEW id, NEW c \in Seq(Msg), NEW d \in Seq(Msg), NEW o \in Session,
           NEW slot, NEW h \in Heard, NEW fl \in Seq(File), NEW p, NEW h2 \in Heard, NEW p2,
           NEW m \in Msg,
           View(e, id, c, d, o, slot, h, fl, p), Len(fl) <= MaxFiles,
           c # <<>>, Head(c).file_id = id, IsData(Head(c).op), slot # NoSlot,
           h2.file = h.file, h2.data = h.data \o Head(c).data,
           h2.final = is_final_chunk(Head(c).op),
           m.file_id = id, m.op = "Success", p2 => p
    PROVE  IF is_final_chunk(Head(c).op)
           THEN (e # Foreign => ~p2) => View(e, id, Tail(c), Append(d, m), o, NoSlot, h2, fl, p2)
           ELSE View(e, id, Tail(c), d, o, "Sending", h2, fl, p2)
  <1>1. o # NoSession /\ Open(id, c, d, o, slot, h, fl[o.file].size) /\ h.file = o.file
    BY DEF View, Transfer, Free, Opening, Open, Ending
  <1>2. fl[o.file].size \in Nat /\ o.file \in 1..Len(fl) /\ SessionInv(e, id, o, fl)
    BY <1>1, SizeNat DEF View
  <1>3. o.file \in 1..MaxFiles /\ o.file # 0 /\ Len(fl) \in Nat
    BY <1>2, LenProperties, FileAssumption
  <1> DEFINE m1 == Head(c)
             n == Len(m1.data)
             k == Len(h.data)
  <1>4. m1 \in Msg /\ Tail(c) \in Seq(Msg)
    BY Shrunk
  <1>5. n \in Nat /\ k \in Nat /\ h.data \in Data /\ m1.data \in Data
    <2>1. m1.data \in Data /\ h.data \in Data
      BY <1>4 DEF Msg, Heard, Data
    <2> QED
      BY <2>1, LenProperties DEF Data
  <1>6. Carried(id, m1) = n /\ Carries(id, m1)
    BY DEF Carried, Carries
  <1>7. /\ Chunks(id, Tail(c), o.file, fl[o.file].size, k + n, o.progress)
        /\ k + n \in 0..fl[o.file].size
        /\ m1.data = Units(o.file, k, n)
        /\ is_final_chunk(m1.op) <=> k + n = fl[o.file].size
    <2>1. Chunks(id, c, o.file, fl[o.file].size, k, o.progress)
      BY <1>1 DEF Open
    <2> HIDE DEF n, k, m1
    <2> QED
      <3>1. /\ Chunks(id, Tail(c), o.file, fl[o.file].size, k + Carried(id, m1), o.progress)
            /\ k + Carried(id, m1) \in 0..fl[o.file].size
            /\ Carries(id, m1) => m1.data = Units(o.file, k, Len(m1.data))
            /\ Carries(id, m1) => (is_final_chunk(m1.op) <=> k + Carried(id, m1) = fl[o.file].size)
        BY <1>2, <2>1, ChunksShrink DEF m1
      <3>2. m1.data = Units(o.file, k, n)
        BY <1>6, <3>1 DEF n
      <3> QED
        BY <1>6, <3>1, <3>2
  <1>8. h2.data = Units(o.file, 0, k + n) /\ Len(h2.data) = k + n
    <2>1. h.data = Units(o.file, 0, k)
      BY <1>1, <1>3 DEF View, Intact
    <2> HIDE DEF n, k
    <2>2. Units(o.file, 0, k) \o Units(o.file, k, n) = Units(o.file, 0, k + n)
      BY <1>3, <1>5, UnitsJoin
    <2>3. k + n \in Nat /\ 0 \in Nat
      BY <1>5
    <2>4. Len(Units(o.file, 0, k + n)) = k + n
      BY <1>3, <2>3, UnitsJoin
    <2> QED
      BY <1>7, <2>1, <2>2, <2>4
  <1> HIDE DEF n, k
  <1>9. Intact(h2, fl)
    <2>1. h2.file = o.file /\ (h2.final => k + n = fl[o.file].size)
      BY <1>1, <1>7 DEF m1
    <2>2. k + n <= fl[o.file].size
      BY <1>2, <1>7
    <2> QED
      BY <1>2, <1>8, <2>1, <2>2 DEF Intact
  <1>10. /\ Lacks(id, Tail(c), {"Setup", "Cancel"}) /\ Lacks(id, Tail(c), {"Setup"})
         /\ Lacks(id, d, Terminal)
    <2>1. Lacks(id, Tail(c), {"Setup", "Cancel"})
      BY <1>1, LacksMove DEF Open
    <2> QED
      BY <1>1, <2>1 DEF Lacks, Open
  <1>11. ASSUME ~is_final_chunk(m1.op)
         PROVE  View(e, id, Tail(c), d, o, "Sending", h2, fl, p2)
    <2>1. "Sending" # NoSlot
      BY DEF NoSlot
    <2>2. Open(id, Tail(c), d, o, "Sending", h2, fl[o.file].size)
      BY <1>1, <1>7, <1>8, <1>10, <2>1 DEF Open
    <2>3. ASSUME PausesOwn(id, c, d, o, slot, p)
          PROVE  PausesOwn(id, Tail(c), d, o, "Sending", p2)
      <3>1. AtMostOne(id, Tail(c), FinalOps) /\ (Lacks(id, c, FinalOps) => Lacks(id, Tail(c), FinalOps))
        BY <2>3, OneMoves, LacksMove DEF PausesOwn
      <3> QED
        BY <2>1, <2>3, <3>1 DEF PausesOwn
    <2> QED
      BY <1>1, <1>2, <1>9, <2>1, <2>2, <2>3 DEF View, Transfer
  <1>12. ASSUME is_final_chunk(m1.op), e # Foreign => ~p2
         PROVE  View(e, id, Tail(c), Append(d, m), o, NoSlot, h2, fl, p2)
    <2>1. h2.file = o.file /\ h2.final
      BY <1>1, <1>12
    <2>2. EndComes(id, Append(d, m), h2.file = o.file /\ h2.final)
      BY <1>10, <2>1, EndSent DEF Terminal
    <2>3. Ending(id, Tail(c), Append(d, m), o, NoSlot, h2)
      BY <1>10, <2>2 DEF Ending
    <2>4. ASSUME PausesOwn(id, c, d, o, slot, p)
          PROVE  PausesOwn(id, Tail(c), Append(d, m), o, NoSlot, p2)
      <3>1. m1.op \in FinalOps
        BY <1>12 DEF is_final_chunk, FinalOps
      <3>2. ~Lacks(id, c, FinalOps)
        BY <3>1, LacksMove
      <3>3. o.state = "WaitingForSuccess"
        BY <2>4, <3>2 DEF PausesOwn
      <3>4. ~p /\ Lacks(id, d, {"Start"})
        BY <2>4, <3>3 DEF PausesOwn
      <3>5. AtMostOne(id, Tail(c), FinalOps) /\ Lacks(id, Tail(c), FinalOps)
        BY <2>4, <3>1, OneMoves DEF PausesOwn
      <3>6. Lacks(id, Append(d, m), {"Start"})
        BY <3>4, LacksMove
      <3>7. AtMostOne(id, Append(d, m), {"Start"})
        BY <3>6 DEF Lacks, AtMostOne
      <3> QED
        BY <3>3, <3>4, <3>5, <3>6, <3>7 DEF PausesOwn
    <2> QED
      BY <1>1, <1>2, <1>9, <1>12, <2>3, <2>4 DEF View, Transfer
  <1> QED
    BY <1>11, <1>12

\* A Setup of the receiver for an id without a session is refused.
LEMMA ViewRefuse ==
    ASSUME NEW e, NEW id, NEW c \in Seq(Msg), NEW d \in Seq(Msg), NEW o \in Session,
           NEW slot, NEW h \in Heard, NEW fl \in Seq(File), NEW p, NEW m \in Msg,
           View(e, id, c, d, o, slot, h, fl, p), o = NoSession,
           d # <<>>, Head(d).file_id = id, m.file_id = id, m.op = "Cancel"
    PROVE  Head(d).op = "Setup" /\ View(e, id, Append(c, m), Tail(d), o, slot, h, fl, p)
  <1>1. slot = NoSlot /\ Lacks(id, c, {"Setup"}) /\ OnlySetups(id, d)
    BY DEF View, Transfer, Free
  <1>2. Head(d).op = "Setup" /\ OnlySetups(id, Tail(d)) /\ Tail(d) \in Seq(Msg)
    BY <1>1, SetupsMove, Shrunk
  <1>3. Lacks(id, Append(c, m), {"Setup"})
    BY <1>1, LacksMove
  <1>4. Transfer(id, Append(c, m), Tail(d), o, slot, h, fl)
    BY <1>1, <1>2, <1>3 DEF Transfer, Free
  <1>5. ASSUME PausesOwn(id, c, d, o, slot, p)
        PROVE  PausesOwn(id, Append(c, m), Tail(d), o, slot, p)
    <2>1. o.state = "None"
      BY DEF NoSession
    <2>2. ~p /\ Lacks(id, c, FinalOps) /\ AtMostOne(id, c, FinalOps)
      BY <1>5, <2>1 DEF PausesOwn
    <2>3. m.op \notin FinalOps
      BY DEF FinalOps
    <2>4. Lacks(id, Append(c, m), FinalOps) /\ AtMostOne(id, Append(c, m), FinalOps)
      BY <2>2, <2>3, LacksMove, OneMoves
    <2>5. Lacks(id, Tail(d), {"Start"}) /\ Lacks(id, Tail(d), Terminal)
      BY <1>2, SetupsMove
    <2>6. AtMostOne(id, Tail(d), {"Start"})
      BY <2>5 DEF Lacks, AtMostOne
    <2> QED
      BY <2>2, <2>4, <2>5, <2>6 DEF PausesOwn
  <1> QED
    BY <1>2, <1>4, <1>5 DEF View

\* The session hears Start, Pause or anything else that does not end it.
LEMMA ViewTurn ==
    ASSUME NEW e, NEW id, NEW c \in Seq(Msg), NEW d \in Seq(Msg), NEW o \in Session,
           NEW slot, NEW h \in Heard, NEW fl \in Seq(File), NEW p, NEW o2 \in Session,
           View(e, id, c, d, o, slot, h, fl, p), o # NoSession,
           d # <<>>, Head(d).file_id = id, Head(d).op \notin Terminal,
           o2.file = o.file, o2.progress = o.progress, o2.state = feed_event(Head(d).op, o.state)
    PROVE  View(e, id, c, Tail(d), o2, slot, h, fl, p)
  <1>1. SessionInv(e, id, o, fl) /\ o.state \in {"Pause", "Sending", "WaitingForSuccess"}
    BY DEF View, SessionInv, Session
  <1>2. /\ \/ o2.state = o.state
           \/ Head(d).op = "Start" /\ o.state = "Pause" /\ o2.state = "Sending"
           \/ Head(d).op = "Pause" /\ o.state = "Sending" /\ o2.state = "Pause"
        /\ o2.state # "None"
    BY <1>1 DEF feed_event, Terminal
  <1>3. o2 # NoSession
    BY <1>2 DEF NoSession
  <1>4. SessionInv(e, id, o2, fl)
    BY <1>1, <1>2 DEF SessionInv
  <1>5. Tail(d) \in Seq(Msg) /\ \A ops : Lacks(id, d, ops) => Lacks(id, Tail(d), ops)
    BY Shrunk, LacksMove
  <1>6. Transfer(id, c, Tail(d), o2, slot, h, fl)
    <2>1. CASE Opening(id, c, d, o, slot)
      <3>1. Head(d).op = "Setup" /\ OnlySetups(id, Tail(d))
        BY <2>1, SetupsMove DEF Opening
      <3>2. o2.state = "Pause"
        BY <1>2, <2>1, <3>1 DEF Opening
      <3>3. Opening(id, c, Tail(d), o2, slot)
        BY <2>1, <3>1, <3>2 DEF Opening
      <3> QED
        BY <1>3, <3>3 DEF Transfer
    <2>2. CASE Open(id, c, d, o, slot, h, fl[o.file].size)
      <3>1. Open(id, c, Tail(d), o2, slot, h, fl[o2.file].size)
        BY <1>5, <2>2 DEF Open
      <3> QED
        BY <1>3, <3>1 DEF Transfer
    <2>3. CASE Ending(id, c, d, o, slot, h)
      <3>1. EndComes(id, Tail(d), h.file = o.file /\ h.final)
        BY <2>3, EndMoves DEF Ending
      <3>2. Ending(id, c, Tail(d), o2, slot, h)
        BY <2>3, <3>1 DEF Ending
      <3> QED
        BY <1>3, <3>2 DEF Transfer
    <2> QED
      BY <2>1, <2>2, <2>3 DEF View, Transfer
  <1>7. ASSUME PausesOwn(id, c, d, o, slot, p)
        PROVE  PausesOwn(id, c, Tail(d), o2, slot, p)
    <2>1. /\ AtMostOne(id, Tail(d), {"Start"})
          /\ Head(d).op = "Start" => Lacks(id, Tail(d), {"Start"})
      BY <1>7, OneMoves DEF PausesOwn
    <2>2. Lacks(id, d, Terminal) <=> Lacks(id, Tail(d), Terminal)
      BY LacksMove
    <2>3. Head(d).op = "Start" => ~Lacks(id, d, {"Start"})
      BY LacksMove
    <2>4. CASE Head(d).op = "Start"
      <3>1. ~p /\ o.state = "Pause" /\ o2.state # "WaitingForSuccess"
        BY <1>2, <1>7, <2>3, <2>4 DEF PausesOwn
      <3> QED
        BY <1>7, <2>1, <2>2, <2>4, <3>1 DEF PausesOwn
    <2>5. CASE Head(d).op # "Start"
      <3>1. /\ o.state = "Pause" => o2.state = "Pause"
            /\ o2.state = "WaitingForSuccess" <=> o.state = "WaitingForSuccess"
        BY <1>2, <2>5
      <3>2. Lacks(id, Tail(d), {"Start"}) <=> Lacks(id, d, {"Start"})
        BY <2>5, LacksMove
      <3> QED
        BY <1>7, <2>1, <2>2, <3>1, <3>2 DEF PausesOwn
    <2> QED
      BY <2>4, <2>5
  <1> QED
    BY <1>4, <1>6, <1>7 DEF View

\* The session ends; Success only if the other application got the whole file.
LEMMA ViewEnd ==
    ASSUME NEW e, NEW id, NEW c \in Seq(Msg), NEW d \in Seq(Msg), NEW o \in Session,
           NEW slot, NEW h \in Heard, NEW fl \in Seq(File), NEW p, NEW fl2,
           View(e, id, c, d, o, slot, h, fl, p), o # NoSession, FilesKept(fl, fl2),
           d # <<>>, Head(d).file_id = id, Head(d).op \in Terminal
    PROVE  /\ View(e, id, c, Tail(d), NoSession, slot, h, fl2, p)
           /\ Head(d).op = "Success" => h.file = o.file /\ h.final
  <1>1. ~Lacks(id, d, Terminal)
    BY LacksMove
  <1>2. Head(d).op # "Setup"
    BY DEF Terminal
  <1>3. ~OnlySetups(id, d)
    BY <1>2, SetupsMove
  <1>4. Ending(id, c, d, o, slot, h)
    BY <1>1, <1>3 DEF View, Transfer, Opening, Open
  <1>5. /\ OnlySetups(id, Tail(d)) /\ (Head(d).op = "Success" => h.file = o.file /\ h.final)
        /\ slot = NoSlot /\ Lacks(id, c, {"Setup"}) /\ Tail(d) \in Seq(Msg)
    BY <1>4, EndMoves, Shrunk DEF Ending
  <1>6. Transfer(id, c, Tail(d), NoSession, slot, h, fl2)
    BY <1>5 DEF Transfer, Free
  <1>7. Intact(h, fl2)
    BY FilesStay DEF View
  <1>8. ASSUME PausesOwn(id, c, d, o, slot, p)
        PROVE  PausesOwn(id, c, Tail(d), NoSession, slot, p)
    <2>1. ~p /\ Lacks(id, c, FinalOps) /\ AtMostOne(id, c, FinalOps)
      BY <1>1, <1>5, <1>8 DEF PausesOwn
    <2>2. Lacks(id, Tail(d), {"Start"}) /\ Lacks(id, Tail(d), Terminal)
      BY <1>5, SetupsMove
    <2>3. AtMostOne(id, Tail(d), {"Start"})
      BY <2>2 DEF Lacks, AtMostOne
    <2> QED
      BY <2>1, <2>2, <2>3 DEF PausesOwn
  <1> QED
    BY <1>5, <1>6, <1>7, <1>8 DEF View, SessionInv

\* The receiver pauses the transfer or goes on with it.
LEMMA ViewAsk ==
    ASSUME NEW e, NEW id, NEW c \in Seq(Msg), NEW d \in Seq(Msg), NEW o \in Session,
           NEW slot, NEW h \in Heard, NEW fl \in Seq(File), NEW p, NEW m \in Msg, NEW p2,
           View(e, id, c, d, o, slot, h, fl, p), e # Foreign, slot # NoSlot,
           m.file_id = id, m.op \in {"Pause", "Start"}
    PROVE  View(e, id, c, Append(d, m), o, slot, h, fl, p2)
  <1>1. o # NoSession /\ Open(id, c, d, o, slot, h, fl[o.file].size)
    BY DEF View, Transfer, Free, Opening, Open, Ending
  <1>2. Lacks(id, Append(d, m), Terminal)
    BY <1>1, LacksMove DEF Open, Terminal
  <1>3. Open(id, c, Append(d, m), o, slot, h, fl[o.file].size)
    BY <1>1, <1>2 DEF Open
  <1> QED
    BY <1>1, <1>3 DEF View, Transfer

\* It gives it up.
LEMMA ViewStop ==
    ASSUME NEW e, NEW id, NEW c \in Seq(Msg), NEW d \in Seq(Msg), NEW o \in Session,
           NEW slot, NEW h \in Heard, NEW fl \in Seq(File), NEW p, NEW m \in Msg, NEW p2,
           View(e, id, c, d, o, slot, h, fl, p), e # Foreign, slot # NoSlot, ~p2,
           m.file_id = id, m.op \in {"Cancel", "Failure"}
    PROVE  View(e, id, c, Append(d, m), o, NoSlot, h, fl, p2)
  <1>1. o # NoSession /\ Open(id, c, d, o, slot, h, fl[o.file].size)
    BY DEF View, Transfer, Free, Opening, Open, Ending
  <1>2. m.op \in Terminal /\ m.op # "Success"
    BY DEF Terminal
  <1>3. EndComes(id, Append(d, m), h.file = o.file /\ h.final)
    BY <1>1, <1>2, EndSent DEF Open
  <1>4. Lacks(id, c, {"Setup"})
    BY <1>1 DEF Open, Lacks
  <1>5. Ending(id, c, Append(d, m), o, NoSlot, h)
    BY <1>3, <1>4 DEF Ending
  <1> QED
    BY <1>1, <1>5 DEF View, Transfer

\* It opens a transfer under the id of the other end.
LEMMA ViewStray ==
    ASSUME NEW e, NEW id, NEW c \in Seq(Msg), NEW d \in Seq(Msg), NEW o \in Session,
           NEW slot, NEW h \in Heard, NEW fl \in Seq(File), NEW p, NEW m \in Msg,
           View(e, id, c, d, o, slot, h, fl, p), e # Foreign, m.file_id = id, m.op = "Setup"
    PROVE  View(e, id, c, Append(d, m), o, slot, h, fl, p)
  <1>1. m.op \notin Terminal
    BY DEF Terminal
  <1>2. /\ OnlySetups(id, d) => OnlySetups(id, Append(d, m))
        /\ Lacks(id, d, Terminal) => Lacks(id, Append(d, m), Terminal)
        /\ \A whole : EndComes(id, d, whole) => EndComes(id, Append(d, m), whole)
    BY <1>1, SetupsMove, LacksMove, EndMoves
  <1>3. Transfer(id, c, d, o, slot, h, fl) => Transfer(id, c, Append(d, m), o, slot, h, fl)
    BY <1>2 DEF Transfer, Free, Opening, Open, Ending
  <1> QED
    BY <1>3 DEF View

-----------------------------------------------------------------------------
(* The two ends and what is under way between them. *)

\* Each id belongs to one end.
LEMMA Ends ==
    ASSUME NEW e \in End
    PROVE  /\ Other(e) \in End /\ Other(Other(e)) = e /\ Other(e) # e
           /\ \A x \in End : x = e \/ x = Other(e)
           /\ TxIds(e) \subseteq Id /\ RxIds(Other(e)) = TxIds(e) /\ RxIds(e) = TxIds(Other(e))
           /\ RxIds(e) \subseteq Id
           /\ TxIds(e) \cap TxIds(Other(e)) = {} /\ Foreign \in End
  BY FileAssumption DEF End, Other, TxIds, RxIds, Id

\* The types of one transfer.
LEMMA OneTyped ==
    ASSUME Types, NEW e \in End, NEW id \in TxIds(e)
    PROVE  /\ Chan(e) \in Seq(Msg) /\ Chan(Other(e)) \in Seq(Msg)
           /\ wire[e] \in Seq(Msg) /\ queue_tx[e] \in Seq(Msg)
           /\ outgoing[e][id] \in Session /\ incoming[Other(e)][id] \in Slot
           /\ heard[Other(e)][id] \in Heard /\ files \in Seq(File) /\ Len(files) \in Nat
  <1>1. \A x \in End : wire[x] \in Seq(Msg) /\ queue_tx[x] \in Seq(Msg)
    BY DEF Types, LinkTypes
  <1>2. \A x \in End : Chan(x) \in Seq(Msg)
    BY <1>1, Ends, PipeSeq DEF Chan
  <1>3. outgoing[e][id] \in Session
    BY DEF Types, OutgoingTypes
  <1>4. incoming[Other(e)][id] \in Slot /\ heard[Other(e)][id] \in Heard
    BY Ends DEF Types, IncomingTypes
  <1> QED
    BY <1>1, <1>2, <1>3, <1>4, Ends, LenProperties DEF Types, FileTypes

\* An end puts a payload in its queue.
LEMMA QueueGrows ==
    ASSUME LinkTypes, NEW x \in End, NEW m \in Msg,
           queue_tx' = [queue_tx EXCEPT ![x] = Append(@, m)], wire' = wire
    PROVE  /\ LinkTypes'
           /\ Chan(Other(x))' = Append(Chan(Other(x)), m) /\ Chan(x)' = Chan(x)
  <1>1. \A y \in End : wire[y] \in Seq(Msg) /\ queue_tx[y] \in Seq(Msg)
    BY DEF LinkTypes
  <1>2. /\ queue_tx'[x] = Append(queue_tx[x], m)
        /\ \A y \in End : y # x => queue_tx'[y] = queue_tx[y]
    BY DEF LinkTypes
  <1>3. Chan(x)' = Chan(x)
    BY <1>2, Ends DEF Chan
  <1>4. Chan(Other(x))' = wire[Other(x)] \o Append(queue_tx[x], m)
    BY <1>2, Ends DEF Chan
  <1>5. wire[Other(x)] \o Append(queue_tx[x], m) = Append(wire[Other(x)] \o queue_tx[x], m)
    <2> DEFINE w == wire[Other(x)]
               q == queue_tx[x]
    <2>1. w \in Seq(Msg) /\ q \in Seq(Msg)
      BY <1>1, Ends
    <2> HIDE DEF w, q
    <2>2. w \o Append(q, m) = Append(w \o q, m)
      BY <2>1, PipeAppend
    <2> QED
      BY <2>2 DEF w, q
  <1>6. Chan(Other(x)) = wire[Other(x)] \o queue_tx[x]
    BY Ends DEF Chan
  <1>7. LinkTypes'
    <2>1. Append(queue_tx[x], m) \in Seq(Msg)
      BY <1>1, AppendProperties
    <2> QED
      BY <2>1 DEF LinkTypes
  <1> QED
    BY <1>3, <1>4, <1>5, <1>6, <1>7

\* dequeue_tx takes a payload from the queue.
LEMMA QueueTaken ==
    ASSUME LinkTypes, NEW x \in End, queue_tx[x] # <<>>,
           queue_tx' = [queue_tx EXCEPT ![x] = Tail(@)],
           wire' = [wire EXCEPT ![Other(x)] = Append(@, Head(queue_tx[x]))]
    PROVE  LinkTypes' /\ \A y \in End : Chan(y)' = Chan(y)
  <1>1. \A y \in End : wire[y] \in Seq(Msg) /\ queue_tx[y] \in Seq(Msg)
    BY DEF LinkTypes
  <1>2. /\ queue_tx'[x] = Tail(queue_tx[x]) /\ queue_tx'[Other(x)] = queue_tx[Other(x)]
        /\ wire'[Other(x)] = Append(wire[Other(x)], Head(queue_tx[x])) /\ wire'[x] = wire[x]
    BY Ends DEF LinkTypes
  <1>3. Chan(x)' = Chan(x)
    BY <1>2 DEF Chan
  <1>4. Chan(Other(x))' = Append(wire[Other(x)], Head(queue_tx[x])) \o Tail(queue_tx[x])
    BY <1>2, Ends DEF Chan
  <1>5. Append(wire[Other(x)], Head(queue_tx[x])) \o Tail(queue_tx[x]) = wire[Other(x)] \o queue_tx[x]
    <2>1. wire[Other(x)] \in Seq(Msg) /\ queue_tx[x] \in Seq(Msg)
      BY <1>1, Ends
    <2> QED
      BY <2>1, PipeSeq
  <1>6. Chan(Other(x)) = wire[Other(x)] \o queue_tx[x]
    BY Ends DEF Chan
  <1>7. LinkTypes'
    <2>1. Head(queue_tx[x]) \in Msg /\ Tail(queue_tx[x]) \in Seq(Msg)
      BY <1>1, TailSeq
    <2>2. Append(wire[Other(x)], Head(queue_tx[x])) \in Seq(Msg)
      BY <1>1, <2>1, Ends, AppendProperties
    <2> QED
      BY <2>1, <2>2 DEF LinkTypes
  <1>8. \A y \in End : y = x \/ y = Other(x)
    BY Ends
  <1> QED
    BY <1>3, <1>4, <1>5, <1>6, <1>7, <1>8

\* It sends a chunk while the queue is empty.
LEMMA WireGrows ==
    ASSUME LinkTypes, NEW x \in End, NEW m \in Msg, queue_tx[x] = <<>>, queue_tx' = queue_tx,
           wire' = [wire EXCEPT ![Other(x)] = Append(@, m)]
    PROVE  /\ LinkTypes'
           /\ Chan(Other(x))' = Append(Chan(Other(x)), m) /\ Chan(x)' = Chan(x)
  <1>1. \A y \in End : wire[y] \in Seq(Msg) /\ queue_tx[y] \in Seq(Msg)
    BY DEF LinkTypes
  <1>2. wire'[Other(x)] = Append(wire[Other(x)], m) /\ wire'[x] = wire[x]
    BY Ends DEF LinkTypes
  <1>3. Chan(x)' = Chan(x)
    BY <1>2 DEF Chan
  <1>4. Chan(Other(x))' = Append(wire[Other(x)], m) \o queue_tx[x]
    BY <1>2, Ends DEF Chan
  <1>5. Append(wire[Other(x)], m) \o queue_tx[x] = Append(wire[Other(x)] \o queue_tx[x], m)
    <2>1. wire[Other(x)] \in Seq(Msg) /\ queue_tx[x] \in Seq(Msg)
      BY <1>1, Ends
    <2> QED
      BY <2>1, PipeSeq
  <1>6. Chan(Other(x)) = wire[Other(x)] \o queue_tx[x]
    BY Ends DEF Chan
  <1>7. LinkTypes'
    <2>1. Append(wire[Other(x)], m) \in Seq(Msg)
      BY <1>1, Ends, AppendProperties
    <2> QED
      BY <2>1 DEF LinkTypes
  <1> QED
    BY <1>3, <1>4, <1>5, <1>6, <1>7

\* enqueue_rx takes a payload; the answer goes into the queue.
LEMMA WireTaken ==
    ASSUME LinkTypes, NEW x \in End, wire[x] # <<>>, wire' = [wire EXCEPT ![x] = Tail(@)]
    PROVE  /\ wire[x] \in Seq(Msg) /\ Head(wire[x]) \in Msg
           /\ Chan(x) # <<>> /\ Head(Chan(x)) = Head(wire[x])
           /\ queue_tx' = queue_tx =>
                LinkTypes' /\ Chan(x)' = Tail(Chan(x)) /\ Chan(Other(x))' = Chan(Other(x))
           /\ \A m \in Msg : queue_tx' = [queue_tx EXCEPT ![x] = Append(@, m)] =>
                /\ LinkTypes' /\ Chan(x)' = Tail(Chan(x))
                /\ Chan(Other(x))' = Append(Chan(Other(x)), m)
  <1>1. \A y \in End : wire[y] \in Seq(Msg) /\ queue_tx[y] \in Seq(Msg)
    BY DEF LinkTypes
  <1>2. Head(wire[x]) \in Msg /\ Tail(wire[x]) \in Seq(Msg)
    BY <1>1, TailSeq
  <1>3. wire'[x] = Tail(wire[x]) /\ wire'[Other(x)] = wire[Other(x)] /\ wire' \in [End -> Seq(Msg)]
    BY <1>2, Ends DEF LinkTypes
  <1>4. /\ Chan(x) # <<>> /\ Head(Chan(x)) = Head(wire[x])
        /\ Tail(wire[x]) \o queue_tx[Other(x)] = Tail(Chan(x))
    <2>1. wire[x] \in Seq(Msg) /\ queue_tx[Other(x)] \in Seq(Msg)
      BY <1>1, Ends
    <2> QED
      BY <2>1, PipeSeq DEF Chan
  <1>5. ASSUME queue_tx' = queue_tx
        PROVE  LinkTypes' /\ Chan(x)' = Tail(Chan(x)) /\ Chan(Other(x))' = Chan(Other(x))
    <2>1. Chan(x)' = Tail(Chan(x)) /\ Chan(Other(x))' = Chan(Other(x))
      BY <1>3, <1>4, <1>5, Ends DEF Chan
    <2> QED
      BY <1>3, <1>5, <2>1 DEF LinkTypes
  <1>6. ASSUME NEW m \in Msg, queue_tx' = [queue_tx EXCEPT ![x] = Append(@, m)]
        PROVE  LinkTypes' /\ Chan(x)' = Tail(Chan(x)) /\ Chan(Other(x))' = Append(Chan(Other(x)), m)
    <2>1. queue_tx'[x] = Append(queue_tx[x], m) /\ queue_tx'[Other(x)] = queue_tx[Other(x)]
      BY <1>6, Ends DEF LinkTypes
    <2>2. Chan(x)' = Tail(Chan(x))
      BY <1>3, <1>4, <2>1 DEF Chan
    <2>3. Chan(Other(x))' = wire[Other(x)] \o Append(queue_tx[x], m)
      BY <1>3, <2>1, Ends DEF Chan
    <2>4. wire[Other(x)] \o Append(queue_tx[x], m) = Append(wire[Other(x)] \o queue_tx[x], m)
      <3> DEFINE w == wire[Other(x)]
                 q == queue_tx[x]
      <3>1. w \in Seq(Msg) /\ q \in Seq(Msg)
        BY <1>1, Ends
      <3> HIDE DEF w, q
      <3>2. w \o Append(q, m) = Append(w \o q, m)
        BY <3>1, PipeAppend
      <3> QED
        BY <3>2 DEF w, q
    <2>5. Chan(Other(x)) = wire[Other(x)] \o queue_tx[x]
      BY Ends DEF Chan
    <2>6. Append(queue_tx[x], m) \in Seq(Msg)
      BY <1>1, AppendProperties
    <2> QED
      BY <1>3, <1>6, <2>2, <2>3, <2>4, <2>5, <2>6 DEF LinkTypes
  <1> QED
    BY <1>1, <1>2, <1>4, <1>5, <1>6

-----------------------------------------------------------------------------
(* One step, seen by all transfers. *)

\* Minima of sets of ids and of sizes.
LEMMA MinIn ==
    ASSUME NEW T \in SUBSET Nat, T # {}
    PROVE  Min(T) \in T /\ \A y \in T : Min(T) <= y
  <1>1. \E m \in T : \A y \in T : m <= y
    BY LeastNatural
  <1> QED
    BY <1>1 DEF Min

\* The smaller of two sizes.
LEMMA MinTwo ==
    ASSUME NEW a \in Nat, NEW b \in Nat
    PROVE  Min({a, b}) = IF a <= b THEN a ELSE b
  <1>1. Min({a, b}) \in {a, b} /\ Min({a, b}) <= a /\ Min({a, b}) <= b
    BY MinIn
  <1> HIDE DEF Min
  <1> QED
    BY <1>1

\* The fields of a payload.
LEMMA Payloads ==
    ASSUME NEW id \in Id, NEW op \in Op
    PROVE  /\ Payload(id, op) \in Msg /\ Payload(id, op).file_id = id /\ Payload(id, op).op = op
           /\ \A f \in 0..MaxFiles : LET m == [Payload(id, op) EXCEPT !.file = f]
                IN  m \in Msg /\ m.file_id = id /\ m.op = op /\ m.file = f
           /\ \A data \in Data : LET m == [Payload(id, op) EXCEPT !.data = data]
                IN  m \in Msg /\ m.file_id = id /\ m.op = op /\ m.data = data
  <1>1. \A f \in 0..MaxFiles : \A data \in Data :
          [file_id |-> id, op |-> op, file |-> f, data |-> data] \in Msg
    BY DEF Msg, Op, Data
  <1>2. 0 \in 0..MaxFiles /\ <<>> \in Data
    BY FileAssumption, EmptySeq DEF Data
  <1>3. Payload(id, op) = [file_id |-> id, op |-> op, file |-> 0, data |-> <<>>]
    BY DEF Payload
  <1>4. \A f : [Payload(id, op) EXCEPT !.file = f] =
                 [file_id |-> id, op |-> op, file |-> f, data |-> <<>>]
    BY DEF Payload
  <1>5. \A data : [Payload(id, op) EXCEPT !.data = data] =
                    [file_id |-> id, op |-> op, file |-> 0, data |-> data]
    BY DEF Payload
  <1> QED
    BY <1>1, <1>2, <1>3, <1>4, <1>5

\* Whatever is sent or delivered is of the id.
Only(id, c, c2) ==
    \/ c2 = c
    \/ \E m \in Msg : m.file_id = id /\ c2 = Append(c, m)
    \/ c # <<>> /\ Head(c).file_id = id /\ c2 = Tail(c)

\* A step of one transfer leaves the others alone.
LEMMA OneTransfer ==
    ASSUME FilesInv, NEW e0 \in End, NEW id0 \in TxIds(e0), FilesKept(files, files'),
           Only(id0, Chan(e0), Chan(e0)'), Only(id0, Chan(Other(e0)), Chan(Other(e0))'),
           \A e \in End : \A id \in TxIds(e) : id # id0 =>
             /\ outgoing'[e][id] = outgoing[e][id]
             /\ incoming'[Other(e)][id] = incoming[Other(e)][id]
             /\ heard'[Other(e)][id] = heard[Other(e)][id]
             /\ id \in paused' <=> id \in paused,
           TransferInv(e0, id0)'
    PROVE  \A e \in End : \A id \in TxIds(e) : TransferInv(e, id)'
  <1>1. ASSUME NEW e \in End, NEW id \in TxIds(e), id # id0
        PROVE  TransferInv(e, id)'
    <2>1. Quiet(id, Chan(Other(e)), Chan(Other(e))') /\ Quiet(id, Chan(e), Chan(e)')
      BY <1>1, Ends DEF Only, Quiet
    <2>2. View(e, id, Chan(Other(e)), Chan(e), outgoing[e][id], incoming[Other(e)][id],
               heard[Other(e)][id], files, id \in paused)
      BY DEF FilesInv, TransferInv
    <2>3. /\ Chan(e) \in Seq(Msg) /\ Chan(Other(e)) \in Seq(Msg) /\ outgoing[e][id] \in Session
          /\ heard[Other(e)][id] \in Heard /\ files \in Seq(File)
      BY OneTyped DEF FilesInv
    <2>4. View(e, id, Chan(Other(e))', Chan(e)', outgoing[e][id], incoming[Other(e)][id],
               heard[Other(e)][id], files', id \in paused)
      BY <2>1, <2>2, <2>3, ViewElsewhere
    <2>5. (id \in paused') = (id \in paused)
      BY <1>1
    <2> QED
      BY <1>1, <2>4, <2>5 DEF TransferInv
  <1>2. ASSUME NEW e \in End, NEW id \in TxIds(e), id = id0
        PROVE  TransferInv(e, id)'
    <2>1. e = e0
      BY <1>2, Ends
    <2> QED
      BY <1>2, <2>1
  <1> QED
    BY <1>1, <1>2

\* Files that are not touched.
LEMMA FilesSame ==
    ASSUME Types, files' = files
    PROVE  FilesKept(files, files')
  BY LenProperties DEF Types, FileTypes, FilesKept

-----------------------------------------------------------------------------
(* The actions keep the invariant. *)

\* What a view says after a step.
LEMMA ViewAfter ==
    ASSUME NEW e \in End, NEW id \in TxIds(e), NEW c, NEW d, NEW o, NEW slot, NEW h, NEW fl, NEW p,
           Chan(Other(e))' = c, Chan(e)' = d, outgoing'[e][id] = o, incoming'[Other(e)][id] = slot,
           heard'[Other(e)][id] = h, files' = fl, (id \in paused') = p,
           View(e, id, c, d, o, slot, h, fl, p)
    PROVE  TransferInv(e, id)'
  <1>1. View(e, id, Chan(Other(e))', Chan(e)', outgoing'[e][id], incoming'[Other(e)][id],
             heard'[Other(e)][id], files', id \in paused')
    OBVIOUS
  <1> QED
    BY <1>1 DEF TransferInv

\* A step that moves no payload and no session.
LEMMA NothingMoves ==
    ASSUME FilesInv, Types', UNCHANGED <<outgoing, incoming, queue_tx, wire, files, heard, paused>>
    PROVE  FilesInv'
  <1>1. ASSUME NEW e \in End, NEW id \in TxIds(e)
        PROVE  TransferInv(e, id)'
    <2>1. TransferInv(e, id)
      BY DEF FilesInv
    <2> QED
      BY <2>1 DEF TransferInv, Chan
  <1> QED
    BY <1>1 DEF FilesInv

\* Ids an end has reserved, without one of them.
LEMMA WithoutSeq ==
    ASSUME NEW S, NEW s \in Seq(S), NEW k \in 1..Len(s)
    PROVE  Without(s, k) \in Seq(S)
  <1>1. Len(s) \in Nat /\ \A i \in 1..Len(s) : s[i] \in S
    BY LenProperties, ElementOfSeq
  <1>2. SubSeq(s, 1, k - 1) \in Seq(S)
    <2>1. 1 \in Int /\ k - 1 \in Int /\ \A i \in 1..(k - 1) : s[i] \in S
      BY <1>1
    <2> QED
      BY <2>1, SubSeqProperties
  <1>3. SubSeq(s, k + 1, Len(s)) \in Seq(S)
    <2>1. k + 1 \in Int /\ Len(s) \in Int /\ \A i \in (k + 1)..Len(s) : s[i] \in S
      BY <1>1
    <2> QED
      BY <2>1, SubSeqProperties
  <1> QED
    BY <1>2, <1>3, ConcatProperties DEF Without

\* An end's ids get new values.
LEMMA IdsTyped ==
    ASSUME Types, NEW x \in End, NEW taken \in SUBSET TxIds(x), NEW h \in Seq(TxIds(x)),
           taken_ids' = taken_ids \/ taken_ids' = [taken_ids EXCEPT ![x] = taken],
           held' = held \/ held' = [held EXCEPT ![x] = h]
    PROVE  IdTypes'
  <1>1. TxIds(x) \subseteq Id
    BY Ends
  <1>2. taken \in SUBSET Id /\ h \in Seq(Id)
    BY <1>1, SeqMonotonic
  <1>3. taken_ids' \in [End -> SUBSET Id] /\ \A e \in End : taken_ids'[e] \subseteq TxIds(e)
    BY <1>2 DEF Types, IdTypes
  <1>4. held' \in [End -> Seq(Id)] /\ \A e \in End : held'[e] \in Seq(TxIds(e))
    BY <1>2 DEF Types, IdTypes
  <1> QED
    BY <1>3, <1>4 DEF IdTypes

\* An application reserves an id or gives it back.
LEMMA ReserveKeeps ==
    ASSUME FilesInv, NEW x \in End, reserve(x) \/ cancel_reserved(x)
    PROVE  FilesInv'
  <1>1. UNCHANGED <<outgoing, incoming, queue_tx, wire, files, heard, paused, panicked, asks, strays>>
    BY DEF reserve, cancel_reserved, link
  <1>2. Types /\ taken_ids[x] \subseteq TxIds(x) /\ held[x] \in Seq(TxIds(x))
    BY DEF FilesInv, Types, IdTypes
  <1>3. IdTypes'
    <2>1. CASE reserve(x)
      <3> DEFINE free == TxIds(x) \ taken_ids[x]
      <3>1. /\ free # {} /\ taken_ids' = [taken_ids EXCEPT ![x] = @ \cup {Min(free)}]
            /\ held' = [held EXCEPT ![x] = Append(@, Min(free))]
        BY <2>1 DEF reserve
      <3>2. TxIds(x) \subseteq Nat
        BY FileAssumption DEF TxIds
      <3>3. Min(free) \in TxIds(x)
        BY <3>1, <3>2, MinIn
      <3> HIDE DEF free
      <3>4. Append(held[x], Min(free)) \in Seq(TxIds(x))
        BY <1>2, <3>3, AppendProperties
      <3>5. taken_ids[x] \cup {Min(free)} \in SUBSET TxIds(x)
        BY <1>2, <3>3
      <3> QED
        BY <1>2, <3>1, <3>4, <3>5, IdsTyped
    <2>2. CASE cancel_reserved(x)
      <3>1. PICK k \in 1..Len(held[x]) :
              /\ taken_ids' = [taken_ids EXCEPT ![x] = @ \ {held[x][k]}]
              /\ held' = [held EXCEPT ![x] = Without(@, k)]
        BY <2>2 DEF cancel_reserved
      <3>2. Without(held[x], k) \in Seq(TxIds(x))
        BY <1>2, WithoutSeq
      <3>3. taken_ids[x] \ {held[x][k]} \in SUBSET TxIds(x)
        BY <1>2
      <3> QED
        BY <1>2, <3>1, <3>2, <3>3, IdsTyped
    <2> QED
      BY <2>1, <2>2
  <1>4. Types'
    BY <1>1, <1>2, <1>3 DEF Types, OutgoingTypes, IncomingTypes, LinkTypes, FileTypes, AskTypes
  <1> QED
    BY <1>1, <1>4, NothingMoves

\* The session of an id becomes o2, and the types are kept.
SessionBecomes(x, id, o2) == outgoing' = [outgoing EXCEPT ![x][id] = o2]
SessionSet(x, id, o2) ==
    /\ OutgoingTypes' /\ outgoing'[x][id] = o2
    /\ \A e \in End : \A i \in TxIds(e) : i # id => outgoing'[e][i] = outgoing[e][i]

\* A session of an end gets a new value.
LEMMA OutgoingTyped ==
    ASSUME Types, NEW x \in End, NEW id \in TxIds(x), NEW o2 \in Session, SessionBecomes(x, id, o2)
    PROVE  SessionSet(x, id, o2)
  <1>0. outgoing' = [outgoing EXCEPT ![x][id] = o2]
    BY DEF SessionBecomes
  <1>1. DOMAIN outgoing = End /\ \A e \in End : outgoing[e] \in [TxIds(e) -> Session]
    BY DEF Types, OutgoingTypes
  <1>2. /\ DOMAIN outgoing' = End /\ outgoing'[x] = [outgoing[x] EXCEPT ![id] = o2]
        /\ \A e \in End : e # x => outgoing'[e] = outgoing[e]
    BY <1>0, <1>1
  <1> QED
    BY <1>1, <1>2 DEF SessionSet, OutgoingTypes

\* send_file opens a session and queues its Setup.
LEMMA SendFileKeeps ==
    ASSUME FilesInv, NEW x \in End, send_file(x)
    PROVE  FilesInv'
  <1>1. PICK k \in 1..Len(held[x]), size \in Sizes :
          /\ Len(files) < MaxFiles /\ held' = [held EXCEPT ![x] = Without(@, k)]
          /\ IF outgoing[x][held[x][k]] # NoSession
             THEN panicked' = TRUE /\ UNCHANGED <<outgoing, queue_tx, files>>
             ELSE /\ outgoing' = [outgoing EXCEPT ![x][held[x][k]] =
                                    [file |-> Len(files) + 1, progress |-> 0, state |-> "Pause"]]
                  /\ queue_tx' = [queue_tx EXCEPT ![x] =
                       Append(@, [Payload(held[x][k], "Setup") EXCEPT !.file = Len(files) + 1])]
                  /\ files' = Append(files, [by |-> x, id |-> held[x][k], size |-> size, fate |-> "open"])
                  /\ UNCHANGED panicked
          /\ UNCHANGED <<taken_ids, incoming, wire, paused, asks, strays, heard>>
    BY DEF send_file
  <1>2. Types /\ taken_ids[x] \in SUBSET TxIds(x) /\ held[x] \in Seq(TxIds(x))
    BY DEF FilesInv, Types, IdTypes
  <1> PICK id \in TxIds(x) : id = held[x][k]
    BY <1>2, ElementOfSeq
  <1> PICK f \in Nat : f = Len(files) + 1
    BY <1>2, LenProperties DEF Types, FileTypes
  <1>3. id \in Id /\ Without(held[x], k) \in Seq(TxIds(x))
    BY <1>2, WithoutSeq, Ends
  <1>4. IdTypes'
    BY <1>1, <1>2, <1>3, IdsTyped
  <1>5. panicked' \in BOOLEAN
    BY <1>1, <1>2 DEF Types, AskTypes
  <1>6. CASE outgoing[x][id] # NoSession
    <2>1. UNCHANGED <<outgoing, incoming, queue_tx, wire, files, heard, paused, asks, strays>>
      BY <1>1, <1>6
    <2>2. Types'
      BY <1>2, <1>4, <1>5, <2>1 DEF Types, OutgoingTypes, IncomingTypes, LinkTypes, FileTypes, AskTypes
    <2> QED
      BY <2>1, <2>2, NothingMoves
  <1>7. CASE outgoing[x][id] = NoSession
    <2> DEFINE m == [Payload(id, "Setup") EXCEPT !.file = f]
               o2 == [file |-> f, progress |-> 0, state |-> "Pause"]
               rec == [by |-> x, id |-> id, size |-> size, fate |-> "open"]
    <2>1. /\ outgoing' = [outgoing EXCEPT ![x][id] = o2]
          /\ queue_tx' = [queue_tx EXCEPT ![x] = Append(@, m)]
          /\ files' = Append(files, rec)
          /\ UNCHANGED <<incoming, wire, heard, paused, asks, strays, panicked>>
      BY <1>1, <1>7
    <2>2. f \in 1..MaxFiles /\ Len(files) \in Nat /\ files \in Seq(File) /\ size \in Nat
      BY <1>1, <1>2, LenProperties, FileAssumption DEF Types, FileTypes
    <2>3. m \in Msg /\ m.file_id = id /\ m.op = "Setup" /\ m.file = f
      <3>1. "Setup" \in Op /\ f \in 0..MaxFiles
        BY <2>2 DEF Op
      <3> QED
        BY <1>3, <3>1, Payloads
    <2>4. o2 \in Session /\ o2.file = f /\ o2.progress = 0 /\ o2.state = "Pause"
      BY <2>2 DEF Session
    <2>5. rec \in File /\ rec.by = x /\ rec.id = id /\ rec.size = size
      BY <1>3, <2>2 DEF File
    <2> HIDE DEF m, o2, rec
    <2>6. /\ files' \in Seq(File) /\ Len(files') = f /\ files'[f] = rec
          /\ \A i \in 1..Len(files) : files'[i] = files[i]
      BY <2>1, <2>2, <2>5, AppendProperties
    <2>7. FilesKept(files, files') /\ f \in 1..Len(files')
      BY <2>2, <2>6 DEF FilesKept
    <2>8. LinkTypes' /\ Chan(Other(x))' = Append(Chan(Other(x)), m) /\ Chan(x)' = Chan(x)
      BY <1>2, <2>1, <2>3, QueueGrows DEF Types
    <2>9. /\ OutgoingTypes' /\ outgoing'[x][id] = o2
          /\ \A e \in End : \A i \in TxIds(e) : i # id => outgoing'[e][i] = outgoing[e][i]
      <3>1. SessionBecomes(x, id, o2)
        BY <2>1 DEF SessionBecomes
      <3>2. SessionSet(x, id, o2)
        BY <1>2, <2>4, <3>1, OutgoingTyped
      <3> QED
        BY <3>2 DEF SessionSet
    <2>10. Types'
      <3>1. IncomingTypes' /\ AskTypes'
        BY <1>2, <2>1 DEF Types, IncomingTypes, AskTypes
      <3>2. FileTypes'
        BY <2>2, <2>6 DEF FileTypes
      <3> QED
        BY <1>4, <2>8, <2>9, <3>1, <3>2 DEF Types
    <2>11. TransferInv(x, id)'
      <3>1. View(x, id, Chan(Other(x)), Chan(x), outgoing[x][id], incoming[Other(x)][id],
                 heard[Other(x)][id], files, id \in paused)
        BY <1>3 DEF FilesInv, TransferInv
      <3>2. /\ Chan(x) \in Seq(Msg) /\ Chan(Other(x)) \in Seq(Msg) /\ outgoing[x][id] \in Session
            /\ heard[Other(x)][id] \in Heard
        BY <1>2, <1>3, OneTyped
      <3>3. files'[f].by = x /\ files'[f].id = id /\ files'[f].size \in Nat
        BY <2>2, <2>5, <2>6
      <3>4. View(x, id, Append(Chan(Other(x)), m), Chan(x), o2, incoming[Other(x)][id],
                 heard[Other(x)][id], files', id \in paused)
        BY <1>7, <2>2, <2>3, <2>4, <2>7, <3>1, <3>2, <3>3, ViewSend
      <3>5. /\ incoming'[Other(x)][id] = incoming[Other(x)][id]
            /\ heard'[Other(x)][id] = heard[Other(x)][id] /\ (id \in paused') = (id \in paused)
        BY <2>1
      <3> QED
        BY <1>3, <2>8, <2>9, <3>4, <3>5, ViewAfter
    <2>12. \A e \in End : \A i \in TxIds(e) : TransferInv(e, i)'
      <3>1. Only(id, Chan(x), Chan(x)') /\ Only(id, Chan(Other(x)), Chan(Other(x))')
        BY <2>3, <2>8 DEF Only
      <3> QED
        BY <1>3, <2>1, <2>7, <2>9, <2>11, <3>1, OneTransfer
    <2> QED
      BY <2>10, <2>12 DEF FilesInv
  <1> QED
    BY <1>6, <1>7

\* A slot of a receiver gets a new value, and its application may hear something.
LEMMA IncomingTyped ==
    ASSUME Types, NEW x \in End, NEW id \in RxIds(x), NEW slot \in Slot, NEW h \in Heard,
           incoming' = [incoming EXCEPT ![x][id] = slot],
           (heard' = heard /\ h = heard[x][id]) \/ heard' = [heard EXCEPT ![x][id] = h]
    PROVE  /\ IncomingTypes' /\ incoming'[x][id] = slot /\ heard'[x][id] = h
           /\ \A e \in End : \A i \in TxIds(e) : i # id =>
                /\ incoming'[Other(e)][i] = incoming[Other(e)][i]
                /\ heard'[Other(e)][i] = heard[Other(e)][i]
  <1>1. /\ DOMAIN incoming = End /\ \A e \in End : incoming[e] \in [RxIds(e) -> Slot]
        /\ DOMAIN heard = End /\ \A e \in End : heard[e] \in [RxIds(e) -> Heard]
    BY DEF Types, IncomingTypes
  <1>2. /\ DOMAIN incoming' = End /\ incoming'[x] = [incoming[x] EXCEPT ![id] = slot]
        /\ \A e \in End : e # x => incoming'[e] = incoming[e]
    BY <1>1
  <1>3. \/ heard' = heard /\ h = heard[x][id]
        \/ /\ DOMAIN heard' = End /\ heard'[x] = [heard[x] EXCEPT ![id] = h]
           /\ \A e \in End : e # x => heard'[e] = heard[e]
    BY <1>1
  <1>4. /\ incoming'[x][id] = slot /\ heard'[x][id] = h
        /\ \A e \in End : \A i \in RxIds(e) : i # id =>
             incoming'[e][i] = incoming[e][i] /\ heard'[e][i] = heard[e][i]
    BY <1>1, <1>2, <1>3
  <1>5. incoming'[x] \in [RxIds(x) -> Slot] /\ heard'[x] \in [RxIds(x) -> Heard]
    BY <1>1, <1>2, <1>3
  <1>6. IncomingTypes'
    BY <1>1, <1>2, <1>3, <1>5 DEF IncomingTypes
  <1>7. \A e \in End : \A i \in TxIds(e) : i \in RxIds(Other(e)) /\ Other(e) \in End
    BY Ends
  <1> QED
    BY <1>4, <1>6, <1>7

\* The view of a transfer before a step, with its types.
LEMMA ViewNow ==
    ASSUME FilesInv, NEW e \in End, NEW id \in TxIds(e)
    PROVE  /\ View(e, id, Chan(Other(e)), Chan(e), outgoing[e][id], incoming[Other(e)][id],
                   heard[Other(e)][id], files, id \in paused)
           /\ Chan(e) \in Seq(Msg) /\ Chan(Other(e)) \in Seq(Msg)
           /\ outgoing[e][id] \in Session /\ incoming[Other(e)][id] \in Slot
           /\ heard[Other(e)][id] \in Heard /\ files \in Seq(File) /\ Len(files) \in Nat
           /\ Types /\ id \in Id
  BY OneTyped, Ends DEF FilesInv, TransferInv

\* The other implementation turns its own session.
LEMMA OwnTurnKeeps ==
    ASSUME FilesInv, NEW id \in TxIds(Foreign), NEW op \in {"Pause", "Start"}, NEW o2 \in Session,
           Say(Payload(id, op)), outgoing' = [outgoing EXCEPT ![Foreign][id] = o2],
           o2.file = outgoing[Foreign][id].file, o2.progress = outgoing[Foreign][id].progress,
           \/ outgoing[Foreign][id].state = "Sending" /\ op = "Pause" /\ o2.state = "Pause"
              /\ paused' = paused \cup {id}
           \/ id \in paused /\ op = "Start" /\ o2.state = "Sending" /\ paused' = paused \ {id},
           asks' \in 0..MaxAsks,
           UNCHANGED <<taken_ids, incoming, wire, held, panicked, strays, files, heard>>
    PROVE  FilesInv'
  <1> DEFINE m == Payload(id, op)
             o == outgoing[Foreign][id]
  <1>1. Foreign \in End /\ Other(Foreign) \in End
    BY FileAssumption, Ends DEF End
  <1>2. /\ View(Foreign, id, Chan(Other(Foreign)), Chan(Foreign), o, incoming[Other(Foreign)][id],
                heard[Other(Foreign)][id], files, id \in paused)
        /\ Chan(Foreign) \in Seq(Msg) /\ Chan(Other(Foreign)) \in Seq(Msg) /\ o \in Session
        /\ heard[Other(Foreign)][id] \in Heard /\ files \in Seq(File)
        /\ Types /\ id \in Id
    BY <1>1, ViewNow
  <1>3. m \in Msg /\ m.file_id = id /\ m.op = op
    <2>1. op \in Op
      BY DEF Op
    <2> QED
      BY <1>2, <2>1, Payloads
  <1>4. o2.file = o.file /\ o2.progress = o.progress
    OBVIOUS
  <1>6. queue_tx' = [queue_tx EXCEPT ![Foreign] = Append(@, m)]
    BY DEF Say
  <1> HIDE DEF m, o
  <1>7. LinkTypes' /\ Chan(Other(Foreign))' = Append(Chan(Other(Foreign)), m) /\ Chan(Foreign)' = Chan(Foreign)
    BY <1>1, <1>2, <1>3, <1>6, QueueGrows DEF Types
  <1>8. /\ OutgoingTypes' /\ outgoing'[Foreign][id] = o2
        /\ \A e \in End : \A i \in TxIds(e) : i # id => outgoing'[e][i] = outgoing[e][i]
    <2>1. SessionBecomes(Foreign, id, o2)
      BY <1>1, <1>2 DEF SessionBecomes
    <2>2. SessionSet(Foreign, id, o2)
      BY <1>1, <1>2, <2>1, OutgoingTyped
    <2> QED
      BY <2>2 DEF SessionSet
  <1>9. Types'
    <2>1. AskTypes'
      BY <1>2 DEF Types, AskTypes
    <2> QED
      BY <1>2, <1>7, <1>8, <2>1 DEF Types, IdTypes, IncomingTypes, FileTypes
  <1>10. View(Foreign, id, Append(Chan(Other(Foreign)), m), Chan(Foreign), o2,
              incoming[Other(Foreign)][id], heard[Other(Foreign)][id], files, id \in paused')
    <2>1. \/ o.state = "Sending" /\ m.op = "Pause" /\ o2.state = "Pause" /\ id \in paused'
          \/ id \in paused /\ m.op = "Start" /\ o2.state = "Sending" /\ id \notin paused'
      BY <1>3, <1>4 DEF o
    <2> QED
      BY <1>1, <1>2, <1>3, <1>4, <2>1, ViewOwnTurn
  <1>11. TransferInv(Foreign, id)'
    BY <1>1, <1>7, <1>8, <1>10, ViewAfter
  <1>12. Only(id, Chan(Foreign), Chan(Foreign)') /\ Only(id, Chan(Other(Foreign)), Chan(Other(Foreign))')
    BY <1>3, <1>7 DEF Only
  <1>13. FilesKept(files, files')
    BY <1>2, FilesSame
  <1>14. \A e \in End : \A i \in TxIds(e) : i # id => (i \in paused' <=> i \in paused)
    OBVIOUS
  <1> QED
    BY <1>1, <1>8, <1>9, <1>11, <1>12, <1>13, <1>14, OneTransfer DEF FilesInv

\* It says something about a transfer it receives.
LEMMA SayKeeps ==
    ASSUME FilesInv, NEW id \in RxIds(Foreign), NEW op \in Op, NEW slot \in Slot,
           Say(Payload(id, op)),
           \/ incoming' = [incoming EXCEPT ![Foreign][id] = slot]
           \/ incoming' = incoming /\ slot = incoming[Foreign][id],
           \A i \in Id : i # id => (i \in paused' <=> i \in paused), paused' \subseteq Id,
           asks' \in 0..MaxAsks, strays' \in 0..MaxStrays,
           \/ incoming[Foreign][id] # NoSlot /\ op \in {"Pause", "Start"} /\ slot = incoming[Foreign][id]
           \/ incoming[Foreign][id] # NoSlot /\ op \in {"Cancel", "Failure"} /\ slot = NoSlot
              /\ id \notin paused'
           \/ op = "Setup" /\ slot = incoming[Foreign][id] /\ paused' = paused,
           UNCHANGED <<taken_ids, outgoing, wire, held, panicked, files, heard>>
    PROVE  FilesInv'
  <1> DEFINE m == Payload(id, op)
             e == Other(Foreign)
  <1>1. Foreign \in End /\ e \in End /\ e # Foreign /\ Other(e) = Foreign /\ id \in TxIds(e)
    BY FileAssumption, Ends DEF End
  <1> PICK h \in Heard : h = heard[Foreign][id]
    BY <1>1, ViewNow
  <1>2. /\ View(e, id, Chan(Foreign), Chan(e), outgoing[e][id], incoming[Foreign][id],
                h, files, id \in paused)
        /\ Chan(Foreign) \in Seq(Msg) /\ Chan(e) \in Seq(Msg) /\ outgoing[e][id] \in Session
        /\ files \in Seq(File) /\ Types /\ id \in Id
    BY <1>1, ViewNow
  <1>3. m \in Msg /\ m.file_id = id /\ m.op = op
    BY <1>2, Payloads
  <1>4. queue_tx' = [queue_tx EXCEPT ![Foreign] = Append(@, m)]
    BY DEF Say
  <1> HIDE DEF m, e
  <1>5. LinkTypes' /\ Chan(e)' = Append(Chan(e), m) /\ Chan(Foreign)' = Chan(Foreign)
    BY <1>1, <1>2, <1>3, <1>4, QueueGrows DEF Types, e
  <1>6. /\ IncomingTypes' /\ incoming'[Foreign][id] = slot /\ heard'[Foreign][id] = h
        /\ \A x \in End : \A i \in TxIds(x) : i # id =>
             incoming'[Other(x)][i] = incoming[Other(x)][i]
    <2>1. /\ DOMAIN incoming = End /\ \A x \in End : incoming[x] \in [RxIds(x) -> Slot]
          /\ DOMAIN heard' = End /\ \A x \in End : heard'[x] \in [RxIds(x) -> Heard]
      BY <1>2 DEF Types, IncomingTypes
    <2>2. /\ DOMAIN incoming' = End /\ incoming'[Foreign] = [incoming[Foreign] EXCEPT ![id] = slot]
          /\ \A x \in End : x # Foreign => incoming'[x] = incoming[x]
      <3>1. CASE incoming' = [incoming EXCEPT ![Foreign][id] = slot]
        BY <1>1, <2>1, <3>1
      <3>2. CASE incoming' = incoming /\ slot = incoming[Foreign][id]
        BY <1>1, <2>1, <3>2
      <3> QED
        BY <3>1, <3>2
    <2>3. incoming'[Foreign] \in [RxIds(Foreign) -> Slot]
      BY <1>1, <2>1, <2>2
    <2>4. IncomingTypes'
      BY <2>1, <2>2, <2>3 DEF IncomingTypes
    <2>5. incoming'[Foreign][id] = slot
      BY <1>1, <2>1, <2>2
    <2>6. ASSUME NEW x \in End, NEW i \in TxIds(x), i # id
          PROVE  incoming'[Other(x)][i] = incoming[Other(x)][i]
      <3>1. i \in RxIds(Other(x)) /\ Other(x) \in End
        BY Ends
      <3> QED
        BY <1>1, <2>1, <2>2, <2>6, <3>1
    <2> QED
      BY <2>4, <2>5, <2>6
  <1>7. Types'
    <2>1. AskTypes'
      BY <1>2 DEF Types, AskTypes
    <2> QED
      BY <1>2, <1>5, <1>6, <2>1 DEF Types, IdTypes, OutgoingTypes, FileTypes
  <1>8. View(e, id, Chan(Foreign), Append(Chan(e), m), outgoing[e][id], slot, h, files, id \in paused')
    <2>1. CASE incoming[Foreign][id] # NoSlot /\ op \in {"Pause", "Start"} /\ slot = incoming[Foreign][id]
      BY <1>1, <1>2, <1>3, <2>1, ViewAsk
    <2>2. CASE incoming[Foreign][id] # NoSlot /\ op \in {"Cancel", "Failure"} /\ slot = NoSlot
               /\ id \notin paused'
      BY <1>1, <1>2, <1>3, <2>2, ViewStop
    <2>3. CASE op = "Setup" /\ slot = incoming[Foreign][id] /\ paused' = paused
      BY <1>1, <1>2, <1>3, <2>3, ViewStray
    <2> QED
      BY <2>1, <2>2, <2>3
  <1>9. TransferInv(e, id)'
    BY <1>1, <1>5, <1>6, <1>8, ViewAfter
  <1>10. Only(id, Chan(e), Chan(e)') /\ Only(id, Chan(Foreign), Chan(Foreign)')
    BY <1>3, <1>5 DEF Only
  <1>11. FilesKept(files, files')
    BY <1>2, FilesSame
  <1>12. \A x \in End : \A i \in TxIds(x) : i \in Id
    BY Ends
  <1> QED
    BY <1>1, <1>6, <1>7, <1>9, <1>10, <1>11, <1>12, OneTransfer DEF FilesInv

\* A Setup under an id of the other end, which its sender will refuse.
LEMMA StraySetupKeeps ==
    ASSUME FilesInv, StraySetup
    PROVE  FilesInv'
  <1>1. PICK id \in RxIds(Foreign) :
          /\ strays < MaxStrays /\ Say(Payload(id, "Setup")) /\ strays' = strays + 1
          /\ UNCHANGED <<taken_ids, outgoing, incoming, wire, held, panicked, paused, asks, files, heard>>
    BY DEF StraySetup
  <1>2. Types /\ Foreign \in End
    BY FileAssumption DEF FilesInv, End
  <1>3. incoming[Foreign][id] \in Slot
    BY <1>2 DEF Types, IncomingTypes
  <1>4. asks' \in 0..MaxAsks /\ strays' \in 0..MaxStrays /\ paused' \subseteq Id
    BY <1>1, <1>2, FileAssumption DEF Types, AskTypes
  <1>5. "Setup" \in Op
    BY DEF Op
  <1> QED
    BY <1>1, <1>3, <1>4, <1>5, SayKeeps

\* It gives up a transfer that it receives.
LEMMA AskStopKeeps ==
    ASSUME FilesInv, AskStop
    PROVE  FilesInv'
  <1>1. PICK id \in RxIds(Foreign), op \in {"Cancel", "Failure"} :
          /\ incoming[Foreign][id] # NoSlot /\ asks < MaxAsks /\ Say(Payload(id, op))
          /\ incoming' = [incoming EXCEPT ![Foreign][id] = NoSlot]
          /\ paused' = paused \ {id} /\ asks' = asks + 1
          /\ UNCHANGED <<taken_ids, outgoing, wire, held, panicked, strays, files, heard>>
    BY DEF AskStop
  <1>2. Types
    BY DEF FilesInv
  <1>3. NoSlot \in Slot /\ op \in Op /\ id \notin paused'
    BY <1>1 DEF Slot, Op
  <1>4. asks' \in 0..MaxAsks /\ strays' \in 0..MaxStrays /\ paused' \subseteq Id
    BY <1>1, <1>2, FileAssumption DEF Types, AskTypes
  <1>5. \A i \in Id : i # id => (i \in paused' <=> i \in paused)
    BY <1>1
  <1> QED
    BY <1>1, <1>3, <1>4, <1>5, SayKeeps

\* It pauses a transfer that it receives or one that it sends.
LEMMA AskPauseKeeps ==
    ASSUME FilesInv, AskPause
    PROVE  FilesInv'
  <1>1. PICK id \in Id \ paused :
          /\ asks < MaxAsks
          /\ \/ id \in RxIds(Foreign) /\ incoming[Foreign][id] # NoSlot /\ outgoing' = outgoing
             \/ /\ id \in Sending(Foreign)
                /\ outgoing' = [outgoing EXCEPT ![Foreign][id].state = "Pause"]
          /\ Say(Payload(id, "Pause")) /\ paused' = paused \cup {id} /\ asks' = asks + 1
          /\ UNCHANGED <<taken_ids, incoming, wire, held, panicked, strays, files, heard>>
    BY DEF AskPause
  <1>2. Types /\ Foreign \in End
    BY FileAssumption DEF FilesInv, End
  <1>3. asks' \in 0..MaxAsks /\ strays' \in 0..MaxStrays /\ paused' \subseteq Id /\ "Pause" \in Op
    BY <1>1, <1>2, FileAssumption DEF Types, AskTypes, Op
  <1>4. \A i \in Id : i # id => (i \in paused' <=> i \in paused)
    BY <1>1
  <1>5. CASE id \in RxIds(Foreign) /\ incoming[Foreign][id] # NoSlot /\ outgoing' = outgoing
    <2>1. incoming[Foreign][id] \in Slot
      BY <1>2, <1>5 DEF Types, IncomingTypes
    <2> QED
      BY <1>1, <1>3, <1>4, <1>5, <2>1, SayKeeps
  <1>6. CASE id \in Sending(Foreign) /\ outgoing' = [outgoing EXCEPT ![Foreign][id].state = "Pause"]
    <2>1. id \in TxIds(Foreign) /\ outgoing[Foreign][id].state = "Sending"
      BY <1>6 DEF Sending
    <2>2. PICK o \in Session : o = outgoing[Foreign][id]
      BY <1>2, <2>1 DEF Types, OutgoingTypes
    <2>3. PICK o2 \in Session : o2 = [file |-> o.file, progress |-> o.progress, state |-> "Pause"]
      BY <2>2 DEF Session
    <2>4. [o EXCEPT !.state = "Pause"] = o2
      BY <2>2, <2>3 DEF Session
    <2>5. outgoing' = [outgoing EXCEPT ![Foreign][id] = o2]
      BY <1>6, <2>2, <2>4
    <2>6. o2.file = o.file /\ o2.progress = o.progress /\ o2.state = "Pause"
      BY <2>3
    <2> QED
      BY <1>1, <1>3, <2>1, <2>2, <2>5, <2>6, OwnTurnKeeps
  <1> QED
    BY <1>1, <1>5, <1>6

\* It resumes a transfer.
LEMMA ResumeKeeps ==
    ASSUME FilesInv, Resume
    PROVE  FilesInv'
  <1>1. PICK id \in paused :
          /\ Say(Payload(id, "Start")) /\ paused' = paused \ {id}
          /\ outgoing' = IF id \in TxIds(Foreign)
                         THEN [outgoing EXCEPT ![Foreign][id].state = "Sending"] ELSE outgoing
          /\ UNCHANGED <<taken_ids, incoming, wire, held, panicked, asks, strays, files, heard>>
    BY DEF Resume
  <1>2. Types /\ Foreign \in End /\ Other(Foreign) \in End /\ Other(Other(Foreign)) = Foreign
        /\ Other(Foreign) # Foreign
    BY FileAssumption, Ends DEF FilesInv, End
  <1>3. /\ asks' \in 0..MaxAsks /\ strays' \in 0..MaxStrays /\ paused' \subseteq Id /\ "Start" \in Op
        /\ id \in Id
    BY <1>1, <1>2, FileAssumption DEF Types, AskTypes, Op
  <1>4. \A i \in Id : i # id => (i \in paused' <=> i \in paused)
    BY <1>1
  <1>5. CASE id \notin TxIds(Foreign)
    <2>1. id \in TxIds(Other(Foreign)) /\ id \in RxIds(Foreign)
      BY <1>2, <1>3, <1>5 DEF Id, TxIds, RxIds, Other, End
    <2>2. incoming[Foreign][id] # NoSlot
      BY <1>1, <1>2, <2>1, ViewNow DEF View
    <2>3. incoming[Foreign][id] \in Slot
      BY <1>2, <2>1 DEF Types, IncomingTypes
    <2>4. outgoing' = outgoing
      BY <1>1, <1>5
    <2> QED
      BY <1>1, <1>3, <1>4, <2>1, <2>2, <2>3, <2>4, SayKeeps
  <1>6. CASE id \in TxIds(Foreign)
    <2>1. outgoing' = [outgoing EXCEPT ![Foreign][id].state = "Sending"]
      BY <1>1, <1>6
    <2>2. PICK o \in Session : o = outgoing[Foreign][id]
      BY <1>2, <1>6 DEF Types, OutgoingTypes
    <2>3. PICK o2 \in Session : o2 = [file |-> o.file, progress |-> o.progress, state |-> "Sending"]
      BY <2>2 DEF Session
    <2>4. [o EXCEPT !.state = "Sending"] = o2
      BY <2>2, <2>3 DEF Session
    <2>5. outgoing' = [outgoing EXCEPT ![Foreign][id] = o2]
      BY <2>1, <2>2, <2>4
    <2>6. o2.file = o.file /\ o2.progress = o.progress /\ o2.state = "Sending"
      BY <2>3
    <2> QED
      BY <1>1, <1>3, <1>6, <2>2, <2>5, <2>6, OwnTurnKeeps
  <1> QED
    BY <1>5, <1>6

\* dequeue_tx hands a waiting payload to the link: nothing more is under way.
LEMMA QueueTakenKeeps ==
    ASSUME FilesInv, NEW x \in End, queue_tx[x] # <<>>,
           queue_tx' = [queue_tx EXCEPT ![x] = Tail(@)],
           wire' = [wire EXCEPT ![Other(x)] = Append(@, Head(queue_tx[x]))],
           UNCHANGED <<taken_ids, outgoing, incoming, held, panicked, paused, asks, strays, files, heard>>
    PROVE  FilesInv'
  <1>1. Types
    BY DEF FilesInv
  <1>2. LinkTypes' /\ \A y \in End : Chan(y)' = Chan(y)
    BY <1>1, QueueTaken DEF Types
  <1>3. Types'
    <2>1. IdTypes' /\ OutgoingTypes' /\ IncomingTypes' /\ FileTypes' /\ AskTypes'
      BY <1>1 DEF Types, IdTypes, OutgoingTypes, IncomingTypes, FileTypes, AskTypes
    <2> QED
      BY <1>2, <2>1 DEF Types
  <1>4. ASSUME NEW e \in End, NEW id \in TxIds(e)
        PROVE  TransferInv(e, id)'
    <2>1. Chan(e)' = Chan(e) /\ Chan(Other(e))' = Chan(Other(e))
      BY <1>2, Ends
    <2>2. TransferInv(e, id)
      BY DEF FilesInv
    <2> HIDE DEF Chan
    <2> QED
      BY <2>1, <2>2 DEF TransferInv
  <1> QED
    BY <1>3, <1>4 DEF FilesInv

\* The parts of a pair.
LEMMA Pair ==
    ASSUME NEW a, NEW b
    PROVE  <<a, b>>[1] = a /\ <<a, b>>[2] = b
  OBVIOUS

\* poll_send: the next chunk of the file, with the mark of the last one where it ends.
LEMMA PollKeeps ==
    ASSUME FilesInv, NEW x \in End, NEW id \in TxIds(x), outgoing[x][id].state = "Sending",
           queue_tx[x] = <<>>, poll_send(x, id),
           UNCHANGED <<queue_tx, taken_ids, incoming, held, panicked, paused, asks, strays, files, heard>>
    PROVE  FilesInv'
  <1>1. PICK o \in Session : o = outgoing[x][id]
    BY ViewNow
  <1>2. /\ View(x, id, Chan(Other(x)), Chan(x), o, incoming[Other(x)][id],
                heard[Other(x)][id], files, id \in paused)
        /\ Chan(x) \in Seq(Msg) /\ Chan(Other(x)) \in Seq(Msg)
        /\ heard[Other(x)][id] \in Heard /\ files \in Seq(File) /\ Len(files) \in Nat
        /\ Types /\ id \in Id
    BY <1>1, ViewNow
  <1>3. o # NoSession /\ o.state = "Sending"
    BY <1>1 DEF NoSession
  <1>4. PICK size \in Nat : size = files[o.file].size
    BY <1>2, <1>3, SizeNat DEF View
  <1>5. o.file \in 1..Len(files) /\ o.file \in 1..MaxFiles /\ o.progress \in Nat /\ o.progress <= size
    BY <1>2, <1>3, <1>4, FileAssumption DEF View, SessionInv, Types, FileTypes, Session
  <1>6. PICK take \in Nat : take = Min({size - o.progress, chunk_size})
    <2>1. size - o.progress \in Nat /\ chunk_size \in Nat
      BY <1>5, FileAssumption
    <2> QED
      BY <2>1, MinTwo
  <1>7. take <= size - o.progress
    <2>1. size - o.progress \in Nat /\ chunk_size \in Nat
      BY <1>5, FileAssumption
    <2>2. take = IF size - o.progress <= chunk_size THEN size - o.progress ELSE chunk_size
      BY <1>6, <2>1, MinTwo
    <2> QED
      BY <1>5, <2>1, <2>2
  <1> DEFINE data == Units(o.file, o.progress, take)
             progress == o.progress + take
             last == progress >= size
             op == IF o.progress = 0 THEN IF last THEN "FirstAndOnlyData" ELSE "FirstData"
                   ELSE IF last THEN "LastData" ELSE "Data"
             m == [Payload(id, op) EXCEPT !.data = data]
             state == IF last THEN "WaitingForSuccess" ELSE "Sending"
  <1>8. data \in Data /\ Len(data) = take
    BY <1>5, UnitsJoin
  <1>9. get_chunk(o.file, o.progress) = <<data, last>>
    BY <1>4, <1>6 DEF get_chunk, Size
  <1>10. /\ get_chunk(o.file, o.progress)[1] = data
         /\ get_chunk(o.file, o.progress)[2] <=> last
    <2>1. <<data, last>>[1] = data /\ <<data, last>>[2] = last
      <3> HIDE DEF data, last
      <3> QED
        BY Pair, Zenon
    <2> QED
      BY <1>9, <2>1, Zenon
  <1>11. last \/ (Size(o.file) > 0 /\ progress >= Size(o.file)) <=> last
    BY <1>4 DEF Size
  <1>12. /\ outgoing' = [outgoing EXCEPT ![x][id].progress = progress, ![x][id].state = state]
         /\ wire' = [wire EXCEPT ![Other(x)] = Append(@, m)]
    <2> DEFINE s == outgoing[x][id]
               chunk == get_chunk(s.file, s.progress)
               p2 == s.progress + Len(chunk[1])
               l2 == chunk[2] \/ (Size(s.file) > 0 /\ p2 >= Size(s.file))
               s2 == IF l2 THEN "WaitingForSuccess" ELSE s.state
               op2 == IF s.progress = 0 THEN IF l2 THEN "FirstAndOnlyData" ELSE "FirstData"
                      ELSE IF l2 THEN "LastData" ELSE "Data"
    <2>1. /\ outgoing' = [outgoing EXCEPT ![x][id].progress = p2, ![x][id].state = s2]
          /\ wire' = [wire EXCEPT ![Other(x)] = Append(@, [Payload(id, op2) EXCEPT !.data = chunk[1]])]
      BY DEF poll_send
    <2>2. chunk[1] = data /\ p2 = progress /\ (chunk[2] <=> last)
      BY <1>1, <1>8, <1>10
    <2>3. l2 <=> last
      BY <1>1, <1>11, <2>2
    <2>4. s2 = state /\ op2 = op
      <3> HIDE DEF l2, last
      <3> QED
        BY <1>1, <1>3, <2>3
    <2> HIDE DEF chunk, p2, s2, op2, data, progress, state, op
    <2> QED
      BY <2>1, <2>2, <2>4
  <1>13. progress \in Nat /\ progress <= size /\ (last <=> progress = size)
    BY <1>5, <1>7
  <1>14. op \in Op /\ IsData(op) /\ (is_final_chunk(op) <=> last)
    BY DEF Op, IsData, is_final_chunk
  <1> HIDE DEF data, last, op, progress
  <1>25. state \in {"WaitingForSuccess", "Sending"} /\ (state = IF last THEN "WaitingForSuccess" ELSE "Sending")
    OBVIOUS
  <1> HIDE DEF state
  <1>15. m \in Msg /\ m.file_id = id /\ m.op = op /\ m.data = data
    BY <1>2, <1>8, <1>14, Payloads
  <1>16. PICK o2 \in Session : o2 = [file |-> o.file, progress |-> progress, state |-> state]
    BY <1>5, <1>13, <1>25, FileAssumption DEF Session
  <1>17. outgoing' = [outgoing EXCEPT ![x][id] = o2]
    <2>1. [[o EXCEPT !.progress = progress] EXCEPT !.state = state] = o2
      <3>1. PICK o1 \in Session : o1 = [file |-> o.file, progress |-> progress, state |-> o.state]
        BY <1>1, <1>13 DEF Session
      <3>2. [o EXCEPT !.progress = progress] = o1
        BY <1>1, <3>1 DEF Session
      <3>3. [o1 EXCEPT !.state = state] = o2
        BY <1>16, <3>1 DEF Session
      <3> QED
        BY <3>2, <3>3
    <2>2. outgoing' = [outgoing EXCEPT ![x][id] = [[o EXCEPT !.progress = progress] EXCEPT !.state = state]]
      BY <1>1, <1>2, <1>3, <1>12 DEF Types, OutgoingTypes
    <2> QED
      BY <2>1, <2>2
  <1> HIDE DEF m
  <1>18. LinkTypes' /\ Chan(Other(x))' = Append(Chan(Other(x)), m) /\ Chan(x)' = Chan(x)
    BY <1>2, <1>12, <1>15, WireGrows DEF Types
  <1>19. /\ OutgoingTypes' /\ outgoing'[x][id] = o2
         /\ \A e \in End : \A i \in TxIds(e) : i # id => outgoing'[e][i] = outgoing[e][i]
    <2>1. SessionBecomes(x, id, o2)
      BY <1>17 DEF SessionBecomes
    <2>2. SessionSet(x, id, o2)
      BY <1>2, <2>1, OutgoingTyped
    <2> QED
      BY <2>2 DEF SessionSet
  <1>20. Types'
    <2>1. IdTypes' /\ IncomingTypes' /\ FileTypes' /\ AskTypes'
      BY <1>2 DEF Types, IdTypes, IncomingTypes, FileTypes, AskTypes
    <2> QED
      BY <1>18, <1>19, <2>1 DEF Types
  <1>21. View(x, id, Append(Chan(Other(x)), m), Chan(x), o2, incoming[Other(x)][id],
              heard[Other(x)][id], files, id \in paused)
    <2>1. /\ o2.file = o.file /\ o2.progress = o.progress + Len(m.data)
          /\ o2.state = IF is_final_chunk(m.op) THEN "WaitingForSuccess" ELSE "Sending"
      BY <1>8, <1>14, <1>15, <1>16, <1>25 DEF progress
    <2>2. /\ m.data = Units(o.file, o.progress, Len(m.data)) /\ Len(m.data) \in Nat /\ IsData(m.op)
          /\ o2.progress <= files[o.file].size
          /\ is_final_chunk(m.op) <=> o2.progress = files[o.file].size
      BY <1>4, <1>8, <1>13, <1>14, <1>15, <1>16 DEF data
    <2> QED
      BY <1>2, <1>3, <1>15, <2>1, <2>2, ViewPoll
  <1>22. TransferInv(x, id)'
    BY <1>18, <1>19, <1>21, ViewAfter
  <1>23. Only(id, Chan(x), Chan(x)') /\ Only(id, Chan(Other(x)), Chan(Other(x))')
    BY <1>15, <1>18 DEF Only
  <1>24. FilesKept(files, files')
    BY <1>2, FilesSame
  <1> QED
    BY <1>19, <1>20, <1>22, <1>23, <1>24, OneTransfer DEF FilesInv

\* dequeue_tx hands a payload to the link.
LEMMA DequeueKeeps ==
    ASSUME FilesInv, NEW x \in End, dequeue_tx(x)
    PROVE  FilesInv'
  <1>1. UNCHANGED <<taken_ids, incoming, held, panicked, paused, asks, strays, files, heard>>
    BY DEF dequeue_tx
  <1>2. CASE /\ queue_tx[x] # <<>> /\ queue_tx' = [queue_tx EXCEPT ![x] = Tail(@)]
             /\ wire' = [wire EXCEPT ![Other(x)] = Append(@, Head(queue_tx[x]))]
             /\ UNCHANGED outgoing
    BY <1>1, <1>2, QueueTakenKeeps
  <1>3. CASE /\ queue_tx[x] = <<>> /\ Sending(x) # {} /\ poll_send(x, Min(Sending(x)))
             /\ UNCHANGED queue_tx
    <2>1. Sending(x) \in SUBSET Nat
      BY FileAssumption DEF Sending, TxIds
    <2>2. Min(Sending(x)) \in Sending(x)
      BY <1>3, <2>1, MinIn
    <2>3. PICK id \in TxIds(x) : id = Min(Sending(x)) /\ outgoing[x][id].state = "Sending"
      BY <2>2 DEF Sending
    <2>4. poll_send(x, id)
      BY <1>3, <2>3
    <2> QED
      BY <1>1, <1>3, <2>3, <2>4, PollKeeps
  <1> QED
    BY <1>2, <1>3 DEF dequeue_tx

\* New fields of what an application has heard.
LEMMA HeardExcept ==
    ASSUME NEW r \in Heard, NEW s \in Heard
    PROVE  /\ s.data = r.data /\ s.final = r.final => [r EXCEPT !.file = s.file] = s
           /\ s.file = r.file => [r EXCEPT !.data = s.data, !.final = s.final] = s
  <1>1. ASSUME s.data = r.data, s.final = r.final
        PROVE  [r EXCEPT !.file = s.file] = s
    BY <1>1 DEF Heard
  <1>2. ASSUME s.file = r.file
        PROVE  [r EXCEPT !.data = s.data, !.final = s.final] = s
    BY <1>2 DEF Heard
  <1> QED
    BY <1>1, <1>2

\* What the receiver does with each payload.
LEMMA FeedAnswers ==
    ASSUME NEW x \in End, NEW m \in Msg, incoming[x][m.file_id] \in Slot, heard[x][m.file_id] \in Heard
    PROVE  LET id == m.file_id
               now == incoming[x][id]
               r == rx_feed(x, m)
               app == [file |-> heard[x][id].file, data |-> heard[x][id].data \o m.data,
                       final |-> is_final_chunk(m.op)]
           IN  /\ m.op = "Setup" /\ now = NoSlot =>
                    /\ r.slot = "Sending" /\ r.reply = <<Payload(id, "Start")>>
                    /\ r.app = [file |-> m.file, data |-> <<>>, final |-> FALSE]
               /\ IsData(m.op) /\ now # NoSlot /\ is_final_chunk(m.op) =>
                    r.slot = NoSlot /\ r.reply = <<Payload(id, "Success")>> /\ r.app = app
               /\ IsData(m.op) /\ now # NoSlot /\ ~is_final_chunk(m.op) =>
                    r.slot = "Sending" /\ r.reply = <<>> /\ r.app = app
               /\ m.op # "Setup" /\ (now = NoSlot \/ ~IsData(m.op)) =>
                    /\ r.reply = <<>> /\ r.app = heard[x][id] /\ r.slot \in Slot
                    /\ r.slot = NoSlot <=> now = NoSlot \/ m.op = "Cancel"
  <1> DEFINE id == m.file_id
             now == incoming[x][id]
             h == heard[x][id]
             app == [file |-> h.file, data |-> h.data \o m.data, final |-> is_final_chunk(m.op)]
  <1>1. ASSUME m.op = "Setup", now = NoSlot
        PROVE  /\ rx_feed(x, m).slot = "Sending" /\ rx_feed(x, m).reply = <<Payload(id, "Start")>>
               /\ rx_feed(x, m).app = [file |-> m.file, data |-> <<>>, final |-> FALSE]
    <2>1. rx_feed(x, m) = rx_Setup(x, m)
      BY <1>1 DEF rx_feed, IsData
    <2>2. [NothingHeard EXCEPT !.file = m.file] = [file |-> m.file, data |-> <<>>, final |-> FALSE]
      <3>1. PICK b \in BOOLEAN : b = FALSE
        OBVIOUS
      <3>2. NothingHeard = [file |-> 0, data |-> <<>>, final |-> b]
        BY <3>1 DEF NothingHeard
      <3>3. PICK r \in Heard : r = [file |-> 0, data |-> <<>>, final |-> b]
        <4>1. 0 \in 0..MaxFiles /\ <<>> \in Data
          BY EmptySeq, FileAssumption DEF Data
        <4> QED
          BY <4>1 DEF Heard
      <3>4. PICK s \in Heard : s = [file |-> m.file, data |-> <<>>, final |-> b]
        BY EmptySeq DEF Heard, Data, Msg
      <3>5. s.file = m.file /\ s.data = r.data /\ s.final = r.final
        BY <3>3, <3>4
      <3>6. [r EXCEPT !.file = s.file] = s
        BY <3>5, HeardExcept
      <3>7. [r EXCEPT !.file = m.file] = s
        BY <3>5, <3>6, Zenon
      <3> QED
        BY <3>1, <3>2, <3>3, <3>4, <3>7, Zenon
    <2>3. rx_Setup(x, m) = [slot |-> "Sending", reply |-> <<Payload(id, "Start")>>,
                            app |-> [NothingHeard EXCEPT !.file = m.file]]
      BY <1>1 DEF rx_Setup
    <2> QED
      BY <2>1, <2>2, <2>3
  <1>2. ASSUME IsData(m.op), now # NoSlot
        PROVE  rx_feed(x, m) = IF is_final_chunk(m.op)
                 THEN [slot |-> NoSlot, reply |-> <<Payload(id, "Success")>>, app |-> app]
                 ELSE [slot |-> "Sending", reply |-> <<>>, app |-> app]
    <2>1. rx_feed(x, m) = rx_Data(x, m)
      BY <1>2 DEF rx_feed, IsData
    <2> DEFINE fin == is_final_chunk(m.op)
    <2>2. fin \in BOOLEAN
      BY DEF is_final_chunk
    <2>3. [h EXCEPT !.data = h.data \o m.data, !.final = fin] = app
      <3>1. PICK b \in BOOLEAN : b = fin
        BY <2>2
      <3>2. h.data \o m.data \in Data
        BY ConcatProperties DEF Data, Heard, Msg
      <3>3. PICK s \in Heard : s = [file |-> h.file, data |-> h.data \o m.data, final |-> b]
        <4> HIDE DEF fin
        <4> QED
          BY <3>1, <3>2 DEF Heard
      <3>4. s.file = h.file /\ s.data = h.data \o m.data /\ s.final = b
        BY <3>3
      <3>5. app = s
        BY <3>1, <3>3, Zenon
      <3>6. [h EXCEPT !.data = s.data, !.final = s.final] = s
        BY <3>4, HeardExcept
      <3>7. [h EXCEPT !.data = h.data \o m.data, !.final = b] = s
        BY <3>4, <3>6, Zenon
      <3> HIDE DEF app, fin
      <3> QED
        BY <3>1, <3>5, <3>7, Zenon
    <2>4. rx_Data(x, m) = IF is_final_chunk(m.op)
                 THEN [slot |-> NoSlot, reply |-> <<Payload(id, "Success")>>,
                       app |-> [h EXCEPT !.data = h.data \o m.data, !.final = fin]]
                 ELSE [slot |-> "Sending", reply |-> <<>>,
                       app |-> [h EXCEPT !.data = h.data \o m.data, !.final = fin]]
      BY <1>2 DEF rx_Data
    <2> HIDE DEF app
    <2> QED
      BY <2>1, <2>3, <2>4
  <1>3. ASSUME m.op # "Setup", now = NoSlot \/ ~IsData(m.op)
        PROVE  /\ rx_feed(x, m).reply = <<>> /\ rx_feed(x, m).app = h /\ rx_feed(x, m).slot \in Slot
               /\ rx_feed(x, m).slot = NoSlot <=> now = NoSlot \/ m.op = "Cancel"
    <2> DEFINE same == [slot |-> now, reply |-> <<>>, app |-> h]
    <2>1. RxSame(x, m) = same
      BY DEF RxSame
    <2>2. \A from, to : rx_Turn(x, m, from, to) = IF now = from THEN [slot |-> to, reply |-> <<>>, app |-> h] ELSE same
      BY <2>1 DEF rx_Turn
    <2>3. [same EXCEPT !.slot = NoSlot] = [slot |-> NoSlot, reply |-> <<>>, app |-> h]
      OBVIOUS
    <2>4. CASE IsData(m.op)
      <3>1. rx_feed(x, m) = same
        BY <1>3, <2>1, <2>4 DEF rx_feed, IsData, rx_Data
      <3> QED
        BY <1>3, <2>4, <3>1 DEF IsData
    <2>5. CASE m.op = "Start"
      <3>1. rx_feed(x, m) = IF now = "Pause" THEN [slot |-> "Sending", reply |-> <<>>, app |-> h] ELSE same
        BY <2>2, <2>5 DEF rx_feed, IsData
      <3> QED
        BY <2>5, <3>1 DEF Slot, NoSlot
    <2>6. CASE m.op = "Pause"
      <3>1. rx_feed(x, m) = IF now = "Sending" THEN [slot |-> "Pause", reply |-> <<>>, app |-> h] ELSE same
        BY <2>2, <2>6 DEF rx_feed, IsData
      <3> QED
        BY <2>6, <3>1 DEF Slot, NoSlot
    <2>7. CASE m.op = "Cancel"
      <3>1. rx_feed(x, m) = [slot |-> NoSlot, reply |-> <<>>, app |-> h]
        BY <2>1, <2>3, <2>7 DEF rx_feed, IsData
      <3> QED
        BY <2>7, <3>1 DEF Slot
    <2>8. CASE m.op \in {"Success", "Failure"}
      <3>1. rx_feed(x, m) = same
        BY <2>1, <2>8 DEF rx_feed, IsData
      <3> QED
        BY <2>8, <3>1
    <2>9. m.op \in {"Start", "Pause", "Cancel", "Success", "Failure"} \/ IsData(m.op)
      BY <1>3 DEF Msg, IsData
    <2> QED
      BY <2>4, <2>5, <2>6, <2>7, <2>8, <2>9
  <1>4. ASSUME IsData(m.op), now # NoSlot, is_final_chunk(m.op)
        PROVE  rx_feed(x, m).slot = NoSlot /\ rx_feed(x, m).reply = <<Payload(id, "Success")>>
               /\ rx_feed(x, m).app = app
    <2> HIDE DEF app
    <2> QED
      BY <1>2, <1>4
  <1>5. ASSUME IsData(m.op), now # NoSlot, ~is_final_chunk(m.op)
        PROVE  rx_feed(x, m).slot = "Sending" /\ rx_feed(x, m).reply = <<>>
               /\ rx_feed(x, m).app = app
    <2> HIDE DEF app
    <2> QED
      BY <1>2, <1>5
  <1> QED
    BY <1>1, <1>3, <1>4, <1>5, Zenon

\* A payload reaches the receiver of a transfer.
LEMMA ReceiveKeeps ==
    ASSUME FilesInv, NEW x \in End, NEW id \in RxIds(x), NEW slot \in Slot, NEW h \in Heard, NEW d,
           Chan(x) # <<>>, Head(Chan(x)).file_id = id,
           LinkTypes', Chan(x)' = Tail(Chan(x)), Chan(Other(x))' = d, Only(id, Chan(Other(x)), d),
           incoming' = [incoming EXCEPT ![x][id] = slot], heard' = [heard EXCEPT ![x][id] = h],
           \A i \in Id : i # id => (i \in paused' <=> i \in paused), paused' \subseteq Id,
           View(Other(x), id, Tail(Chan(x)), d, outgoing[Other(x)][id], slot, h, files, id \in paused'),
           UNCHANGED <<taken_ids, outgoing, held, panicked, asks, strays, files>>
    PROVE  FilesInv'
  <1> DEFINE e == Other(x)
  <1>1. e \in End /\ Other(e) = x /\ id \in TxIds(e)
    BY Ends
  <1> HIDE DEF e
  <1>2. Types
    BY DEF FilesInv
  <1>3. /\ IncomingTypes' /\ incoming'[x][id] = slot /\ heard'[x][id] = h
        /\ \A y \in End : \A i \in TxIds(y) : i # id =>
             /\ incoming'[Other(y)][i] = incoming[Other(y)][i]
             /\ heard'[Other(y)][i] = heard[Other(y)][i]
    BY ONLY <1>2, x \in End, id \in RxIds(x), slot \in Slot, h \in Heard,
            incoming' = [incoming EXCEPT ![x][id] = slot], heard' = [heard EXCEPT ![x][id] = h],
            IncomingTyped
  <1>4. Types'
    <2>1. IdTypes' /\ OutgoingTypes' /\ FileTypes' /\ AskTypes'
      BY <1>2 DEF Types, IdTypes, OutgoingTypes, FileTypes, AskTypes
    <2> QED
      BY <1>3, <2>1 DEF Types
  <1>5. TransferInv(e, id)'
    <2>1. View(e, id, Tail(Chan(x)), d, outgoing[e][id], slot, h, files, id \in paused')
      BY DEF e
    <2>2. Chan(e)' = d
      BY DEF e
    <2> QED
      BY <1>1, <1>3, <2>1, <2>2, ViewAfter
  <1>6. Only(id, Chan(e), Chan(e)') /\ Only(id, Chan(Other(e)), Chan(Other(e))')
    <2>1. Only(id, Chan(e), d) /\ Chan(e)' = d
      BY DEF e
    <2>2. Only(id, Chan(x), Tail(Chan(x)))
      BY DEF Only
    <2> QED
      BY <1>1, <2>1, <2>2
  <1>7. FilesKept(files, files')
    BY <1>2, FilesSame
  <1>8. \A y \in End : \A i \in TxIds(y) : i # id => (i \in paused' <=> i \in paused)
    BY Ends
  <1>9. \A y \in End : \A i \in TxIds(y) : TransferInv(y, i)'
    BY <1>1, <1>3, <1>5, <1>6, <1>7, <1>8, OneTransfer
  <1> QED
    BY <1>4, <1>9 DEF FilesInv

\* enqueue_rx at the receiver.
LEMMA ReceiverKeeps ==
    ASSUME FilesInv, NEW x \in End, NEW m \in Msg, m = Head(wire[x]), m.file_id \in RxIds(x),
           wire[x] # <<>>, wire' = [wire EXCEPT ![x] = Tail(@)],
           incoming' = [incoming EXCEPT ![x][m.file_id] = rx_feed(x, m).slot],
           queue_tx' = [queue_tx EXCEPT ![x] = @ \o rx_feed(x, m).reply],
           heard' = [heard EXCEPT ![x][m.file_id] = rx_feed(x, m).app],
           paused' = IF x = Foreign /\ rx_feed(x, m).slot = NoSlot THEN paused \ {m.file_id} ELSE paused,
           UNCHANGED <<taken_ids, outgoing, held, panicked, asks, strays, files>>
    PROVE  FilesInv'
  <1>1. PICK e \in End : e = Other(x) /\ Other(e) = x /\ e # x
    BY Ends
  <1>2. PICK id \in TxIds(e) : id = m.file_id /\ id \in RxIds(x)
    BY <1>1, Ends
  <1>3. /\ View(e, id, Chan(x), Chan(e), outgoing[e][id], incoming[x][id], heard[x][id],
                files, id \in paused)
        /\ Chan(e) \in Seq(Msg) /\ Chan(x) \in Seq(Msg) /\ outgoing[e][id] \in Session
        /\ incoming[x][id] \in Slot /\ heard[x][id] \in Heard /\ files \in Seq(File)
        /\ Types /\ id \in Id
    BY <1>1, ViewNow
  <1>4. /\ wire[x] \in Seq(Msg) /\ Chan(x) # <<>> /\ Head(Chan(x)) = m
        /\ queue_tx' = queue_tx => LinkTypes' /\ Chan(x)' = Tail(Chan(x)) /\ Chan(e)' = Chan(e)
        /\ \A a \in Msg : queue_tx' = [queue_tx EXCEPT ![x] = Append(@, a)] =>
             LinkTypes' /\ Chan(x)' = Tail(Chan(x)) /\ Chan(e)' = Append(Chan(e), a)
    BY <1>1, <1>3, WireTaken DEF Types
  <1>5. /\ rx_feed(x, m).reply = <<>> => queue_tx' = queue_tx
        /\ \A a \in Msg : rx_feed(x, m).reply = <<a>> => queue_tx' = [queue_tx EXCEPT ![x] = Append(@, a)]
    <2>1. queue_tx \in [End -> Seq(Msg)]
      BY <1>3 DEF Types, LinkTypes
    <2>2. queue_tx[x] \o <<>> = queue_tx[x] /\ \A a \in Msg : queue_tx[x] \o <<a>> = Append(queue_tx[x], a)
      BY <2>1, AnswerSeq
    <2> QED
      BY <2>1, <2>2
  <1>6. /\ paused' \subseteq Id /\ (id \in paused' => id \in paused)
        /\ \A i \in Id : i # id => (i \in paused' <=> i \in paused)
        /\ e # Foreign /\ rx_feed(x, m).slot = NoSlot => id \notin paused'
    <2>1. paused \subseteq Id
      BY <1>3 DEF Types, AskTypes
    <2>2. e # Foreign => x = Foreign
      BY <1>1, Ends
    <2> QED
      BY <1>2, <2>1, <2>2
  <1>7. Head(Chan(x)).file_id = id /\ Head(Chan(x)).op = m.op
    BY <1>2, <1>4
  <1>8. CASE m.op = "Setup"
    <2> DEFINE a == Payload(id, "Start")
    <2>1. a \in Msg /\ a.file_id = id /\ a.op = "Start"
      BY <1>3, Payloads DEF Op
    <2>2. PICK h \in Heard : h = [file |-> m.file, data |-> <<>>, final |-> FALSE]
      <3>1. <<>> \in Data /\ m.file \in 0..MaxFiles
        BY EmptySeq DEF Data, Msg
      <3> QED
        BY <3>1 DEF Heard
    <2> HIDE DEF a
    <2>3. /\ incoming[x][id] = NoSlot
          /\ View(e, id, Tail(Chan(x)), Append(Chan(e), a), outgoing[e][id], "Sending", h, files, id \in paused')
      <3>1. /\ Head(Chan(x)).op = "Setup" /\ Chan(x) # <<>> /\ (id \in paused' => id \in paused)
            /\ h.file = Head(Chan(x)).file /\ h.data = <<>> /\ ~h.final
        BY <1>4, <1>6, <1>7, <1>8, <2>2
      <3>2. \A p2 : (p2 => id \in paused) => View(e, id, Tail(Chan(x)), Append(Chan(e), a), outgoing[e][id], "Sending", h, files, p2)
        BY <1>3, <1>7, <2>1, <3>1, ViewSetup
      <3>3. incoming[x][id] = NoSlot
        BY ONLY <1>3, <1>7, <2>1, <3>1, h \in Heard, ViewSetup
      <3> QED
        BY <3>1, <3>2, <3>3
    <2>4. rx_feed(x, m).slot = "Sending" /\ rx_feed(x, m).reply = <<a>> /\ rx_feed(x, m).app = h
      BY <1>2, <1>3, <1>8, <2>2, <2>3, FeedAnswers DEF a
    <2>5. LinkTypes' /\ Chan(x)' = Tail(Chan(x)) /\ Chan(e)' = Append(Chan(e), a)
      BY <1>4, <1>5, <2>1, <2>4
    <2>6. Only(id, Chan(e), Append(Chan(e), a))
      BY <2>1 DEF Only
    <2>7. "Sending" \in Slot
      BY DEF Slot
    <2> QED
      BY <1>1, <1>2, <1>4, <1>6, <1>7, <2>3, <2>4, <2>5, <2>6, <2>7, ReceiveKeeps
  <1>9. CASE IsData(m.op) /\ incoming[x][id] # NoSlot
    <2> DEFINE a == Payload(id, "Success")
    <2>1. a \in Msg /\ a.file_id = id /\ a.op = "Success"
      BY <1>3, Payloads DEF Op
    <2>2. PICK fin \in BOOLEAN : fin = is_final_chunk(m.op)
      <3>1. is_final_chunk(m.op) \in BOOLEAN
        BY DEF is_final_chunk
      <3> QED
        BY <3>1, Zenon
    <2>3. heard[x][id].data \o m.data \in Data
      BY <1>3, ConcatProperties DEF Data, Heard, Msg
    <2>4. PICK h \in Heard : h = [file |-> heard[x][id].file, data |-> heard[x][id].data \o m.data,
                                  final |-> fin]
      BY <1>3, <2>3 DEF Heard
    <2>5. /\ h.file = heard[x][id].file /\ h.data = heard[x][id].data \o Head(Chan(x)).data
          /\ h.final = is_final_chunk(Head(Chan(x)).op)
      BY <1>4, <2>2, <2>4
    <2> HIDE DEF a
    <2>6. Len(files) <= MaxFiles
      BY <1>3 DEF Types, FileTypes
    <2>7. IF is_final_chunk(m.op)
          THEN (e # Foreign => id \notin paused') =>
               View(e, id, Tail(Chan(x)), Append(Chan(e), a), outgoing[e][id], NoSlot, h, files, id \in paused')
          ELSE View(e, id, Tail(Chan(x)), Chan(e), outgoing[e][id], "Sending", h, files, id \in paused')
      BY <1>3, <1>4, <1>6, <1>7, <1>9, <2>1, <2>5, <2>6, ViewData
    <2>8. CASE is_final_chunk(m.op)
      <3>1. rx_feed(x, m).slot = NoSlot /\ rx_feed(x, m).reply = <<a>> /\ rx_feed(x, m).app = h
        BY <1>2, <1>3, <1>9, <2>2, <2>4, <2>8, FeedAnswers DEF a
      <3>2. LinkTypes' /\ Chan(x)' = Tail(Chan(x)) /\ Chan(e)' = Append(Chan(e), a)
        BY <1>4, <1>5, <2>1, <3>1
      <3>3. Only(id, Chan(e), Append(Chan(e), a)) /\ NoSlot \in Slot
        BY <2>1 DEF Only, Slot
      <3>4. View(e, id, Tail(Chan(x)), Append(Chan(e), a), outgoing[e][id], NoSlot, h, files, id \in paused')
        BY <1>6, <2>7, <2>8, <3>1
      <3> QED
        BY <1>1, <1>2, <1>4, <1>6, <1>7, <3>1, <3>2, <3>3, <3>4, ReceiveKeeps
    <2>9. CASE ~is_final_chunk(m.op)
      <3>1. rx_feed(x, m).slot = "Sending" /\ rx_feed(x, m).reply = <<>> /\ rx_feed(x, m).app = h
        BY <1>2, <1>3, <1>9, <2>2, <2>4, <2>9, FeedAnswers
      <3>2. LinkTypes' /\ Chan(x)' = Tail(Chan(x)) /\ Chan(e)' = Chan(e)
        BY <1>4, <1>5, <3>1
      <3>3. Only(id, Chan(e), Chan(e)) /\ "Sending" \in Slot
        BY DEF Only, Slot
      <3>4. View(e, id, Tail(Chan(x)), Chan(e), outgoing[e][id], "Sending", h, files, id \in paused')
        BY <2>7, <2>9
      <3> QED
        BY <1>1, <1>2, <1>4, <1>6, <1>7, <3>1, <3>2, <3>3, <3>4, ReceiveKeeps
    <2> QED
      BY <2>8, <2>9
  <1>10. CASE m.op # "Setup" /\ (incoming[x][id] = NoSlot \/ ~IsData(m.op))
    <2>1. PICK slot \in Slot : slot = rx_feed(x, m).slot
      BY <1>2, <1>3, <1>10, FeedAnswers
    <2>2. PICK h \in Heard : h = heard[x][id]
      BY <1>3
    <2>3. /\ rx_feed(x, m).reply = <<>> /\ rx_feed(x, m).app = h
          /\ slot = NoSlot <=> incoming[x][id] = NoSlot \/ m.op = "Cancel"
      BY <1>2, <1>3, <1>10, <2>1, <2>2, FeedAnswers
    <2>4. LinkTypes' /\ Chan(x)' = Tail(Chan(x)) /\ Chan(e)' = Chan(e)
      BY <1>4, <1>5, <2>3
    <2>5. View(e, id, Tail(Chan(x)), Chan(e), outgoing[e][id], slot, h, files, id \in paused')
      <3>1. /\ Head(Chan(x)).op # "Setup" /\ Chan(x) # <<>> /\ (id \in paused' => id \in paused)
            /\ incoming[x][id] = NoSlot \/ ~IsData(Head(Chan(x)).op)
            /\ slot = NoSlot <=> incoming[x][id] = NoSlot \/ Head(Chan(x)).op = "Cancel"
            /\ e # Foreign /\ slot = NoSlot => id \notin paused'
        BY <1>4, <1>6, <1>7, <1>10, <2>1, <2>3
      <3> QED
        BY <1>3, <1>7, <2>2, <3>1, ViewPasses
    <2>6. Only(id, Chan(e), Chan(e))
      BY DEF Only
    <2> QED
      BY <1>1, <1>2, <1>4, <1>6, <1>7, <2>1, <2>3, <2>4, <2>5, <2>6, ReceiveKeeps
  <1> QED
    BY <1>8, <1>9, <1>10 DEF IsData

\* A payload reaches the sender of a transfer.
LEMMA SenderKeeps ==
    ASSUME FilesInv, NEW x \in End, NEW id \in TxIds(x), NEW o2 \in Session, NEW c,
           Chan(x) # <<>>, Head(Chan(x)).file_id = id,
           LinkTypes', Chan(x)' = Tail(Chan(x)), Chan(Other(x))' = c, Only(id, Chan(Other(x)), c),
           OutgoingTypes', outgoing'[x][id] = o2,
           \A e \in End : \A i \in TxIds(e) : i # id => outgoing'[e][i] = outgoing[e][i],
           IdTypes', FileTypes', FilesKept(files, files'),
           View(x, id, c, Tail(Chan(x)), o2, incoming[Other(x)][id], heard[Other(x)][id],
                files', id \in paused),
           UNCHANGED <<incoming, heard, paused, panicked, asks, strays>>
    PROVE  FilesInv'
  <1>1. Types
    BY DEF FilesInv
  <1>2. Types'
    <2>1. IncomingTypes' /\ AskTypes'
      BY <1>1 DEF Types, IncomingTypes, AskTypes
    <2> QED
      BY <2>1 DEF Types
  <1>3. TransferInv(x, id)'
    <2>1. /\ incoming'[Other(x)][id] = incoming[Other(x)][id]
          /\ heard'[Other(x)][id] = heard[Other(x)][id] /\ (id \in paused') = (id \in paused)
      OBVIOUS
    <2> QED
      BY <2>1, ViewAfter
  <1>4. Only(id, Chan(x), Chan(x)') /\ Only(id, Chan(Other(x)), Chan(Other(x))')
    <2>1. Only(id, Chan(x), Tail(Chan(x)))
      BY DEF Only
    <2> QED
      BY <2>1
  <1>5. \A y \in End : \A i \in TxIds(y) : TransferInv(y, i)'
    BY <1>3, <1>4, OneTransfer
  <1> QED
    BY <1>2, <1>5 DEF FilesInv

\* A file gets its fate.
LEMMA FateSet ==
    ASSUME NEW fl \in Seq(File), Len(fl) <= MaxFiles, NEW f \in 1..Len(fl), NEW state \in Finals
    PROVE  LET fl2 == [fl EXCEPT ![f].fate = state]
           IN  fl2 \in Seq(File) /\ Len(fl2) <= MaxFiles /\ FilesKept(fl, fl2)
  <1> DEFINE fl2 == [fl EXCEPT ![f].fate = state]
  <1>1. Len(fl) \in Nat /\ fl \in [1..Len(fl) -> File]
    BY LenProperties
  <1>2. fl2 \in [1..Len(fl) -> File]
    BY <1>1 DEF File
  <1>3. fl2 \in Seq(File) /\ Len(fl2) = Len(fl)
    BY <1>1, <1>2, FunctionSeq
  <1>4. \A i \in 1..Len(fl) : fl2[i].by = fl[i].by /\ fl2[i].id = fl[i].id /\ fl2[i].size = fl[i].size
    BY <1>1 DEF File
  <1> HIDE DEF fl2
  <1>5. FilesKept(fl, fl2)
    BY <1>1, <1>3, <1>4 DEF FilesKept
  <1> QED
    BY <1>3, <1>5 DEF fl2

\* enqueue_rx at the sender.
LEMMA TransmitterKeeps ==
    ASSUME FilesInv, NEW x \in End, NEW m \in Msg, m = Head(wire[x]), m.file_id \in TxIds(x),
           wire[x] # <<>>, wire' = [wire EXCEPT ![x] = Tail(@)], tx_feed(x, m),
           UNCHANGED <<incoming, heard, paused, held, panicked, asks, strays>>
    PROVE  FilesInv'
  <1>1. PICK id \in TxIds(x) : id = m.file_id
    OBVIOUS
  <1>2. PICK o \in Session : o = outgoing[x][id]
    BY <1>1, ViewNow
  <1>3. /\ View(x, id, Chan(Other(x)), Chan(x), o, incoming[Other(x)][id], heard[Other(x)][id],
                files, id \in paused)
        /\ Chan(x) \in Seq(Msg) /\ Chan(Other(x)) \in Seq(Msg)
        /\ heard[Other(x)][id] \in Heard /\ files \in Seq(File) /\ Types /\ id \in Id
    BY <1>2, ViewNow
  <1>4. /\ wire[x] \in Seq(Msg) /\ Chan(x) # <<>> /\ Head(Chan(x)) = m
        /\ queue_tx' = queue_tx => LinkTypes' /\ Chan(x)' = Tail(Chan(x)) /\ Chan(Other(x))' = Chan(Other(x))
        /\ \A a \in Msg : queue_tx' = [queue_tx EXCEPT ![x] = Append(@, a)] =>
             LinkTypes' /\ Chan(x)' = Tail(Chan(x)) /\ Chan(Other(x))' = Append(Chan(Other(x)), a)
    BY <1>3, WireTaken DEF Types
  <1>5. Head(Chan(x)).file_id = id /\ Head(Chan(x)).op = m.op
    BY <1>1, <1>4
  <1>6. held' = held /\ held[x] \in Seq(TxIds(x)) /\ taken_ids[x] \subseteq TxIds(x)
    BY <1>3 DEF Types, IdTypes
  <1>7. taken_ids' = taken_ids \/ taken_ids' = [taken_ids EXCEPT ![x] = @ \ {id}] => IdTypes'
    <2>1. taken_ids[x] \ {id} \in SUBSET TxIds(x)
      BY <1>6
    <2> QED
      BY <1>3, <1>6, <2>1, IdsTyped
  <1>8. CASE o = NoSession
    <2> DEFINE a == Payload(id, "Cancel")
    <2>1. a \in Msg /\ a.file_id = id /\ a.op = "Cancel"
      BY <1>3, Payloads DEF Op
    <2>2. /\ taken_ids' = [taken_ids EXCEPT ![x] = IF m.op = "Setup" THEN @ \ {id} ELSE @]
          /\ queue_tx' = [queue_tx EXCEPT ![x] = IF m.op = "Setup" THEN Append(@, a) ELSE @]
          /\ outgoing' = outgoing /\ files' = files
      BY <1>1, <1>2, <1>8 DEF tx_feed
    <2> HIDE DEF a
    <2>3. /\ m.op = "Setup"
          /\ View(x, id, Append(Chan(Other(x)), a), Tail(Chan(x)), o, incoming[Other(x)][id],
                  heard[Other(x)][id], files, id \in paused)
      BY <1>3, <1>4, <1>5, <1>8, <2>1, ViewRefuse
    <2>4. LinkTypes' /\ Chan(x)' = Tail(Chan(x)) /\ Chan(Other(x))' = Append(Chan(Other(x)), a)
      BY <1>4, <2>1, <2>2, <2>3
    <2>5. IdTypes'
      BY <1>7, <2>2, <2>3
    <2>6. OutgoingTypes' /\ FileTypes' /\ FilesKept(files, files')
      BY <1>3, <2>2, FilesSame DEF Types, OutgoingTypes, FileTypes
    <2>7. Only(id, Chan(Other(x)), Append(Chan(Other(x)), a))
      BY <2>1 DEF Only
    <2> QED
      BY <1>2, <1>4, <1>5, <2>2, <2>3, <2>4, <2>5, <2>6, <2>7, SenderKeeps
  <1>9. ASSUME o # NoSession
        PROVE  /\ m.op \in Terminal <=> feed_event(m.op, o.state) \in Finals
               /\ o.file \in 1..Len(files) /\ Len(files) <= MaxFiles
    <2>1. o.state \in {"Pause", "Sending", "WaitingForSuccess"}
      BY <1>3, <1>9 DEF View, SessionInv, Session
    <2>2. m.op \in Terminal <=> feed_event(m.op, o.state) \in Finals
      BY <2>1 DEF feed_event, Terminal, Finals
    <2> QED
      BY <1>3, <1>9, <2>2 DEF View, SessionInv, Types, FileTypes
  <1>10. CASE o # NoSession /\ m.op \in Terminal
    <2>1. PICK state \in Finals : state = feed_event(m.op, o.state)
      BY <1>9, <1>10
    <2>2. /\ taken_ids' = [taken_ids EXCEPT ![x] = @ \ {id}]
          /\ outgoing' = [outgoing EXCEPT ![x][id] = NoSession]
          /\ files' = [files EXCEPT ![o.file].fate = state] /\ queue_tx' = queue_tx
      BY <1>1, <1>2, <1>10, <2>1 DEF tx_feed
    <2>3. files' \in Seq(File) /\ Len(files') <= MaxFiles /\ FilesKept(files, files')
      BY <1>3, <1>9, <1>10, <2>2, FateSet
    <2>4. NoSession \in Session
      BY FileAssumption DEF NoSession, Session
    <2>5. /\ OutgoingTypes' /\ outgoing'[x][id] = NoSession
          /\ \A e \in End : \A i \in TxIds(e) : i # id => outgoing'[e][i] = outgoing[e][i]
      <3>1. SessionBecomes(x, id, NoSession)
        BY <2>2 DEF SessionBecomes
      <3>2. SessionSet(x, id, NoSession)
        BY <1>3, <2>4, <3>1, OutgoingTyped
      <3> QED
        BY <3>2 DEF SessionSet
    <2>6. View(x, id, Chan(Other(x)), Tail(Chan(x)), NoSession, incoming[Other(x)][id],
               heard[Other(x)][id], files', id \in paused)
      BY <1>3, <1>4, <1>5, <1>10, <2>3, ViewEnd
    <2>7. LinkTypes' /\ Chan(x)' = Tail(Chan(x)) /\ Chan(Other(x))' = Chan(Other(x))
      BY <1>4, <2>2
    <2>8. IdTypes' /\ FileTypes' /\ Only(id, Chan(Other(x)), Chan(Other(x)))
      BY <1>7, <2>2, <2>3 DEF FileTypes, Only
    <2> QED
      BY <1>4, <1>5, <2>3, <2>4, <2>5, <2>6, <2>7, <2>8, SenderKeeps
  <1>11. CASE o # NoSession /\ m.op \notin Terminal
    <2>1. PICK state \in {"Pause", "Sending", "WaitingForSuccess"} : state = feed_event(m.op, o.state)
      <3>1. o.state \in {"Pause", "Sending", "WaitingForSuccess"}
        BY <1>3, <1>11 DEF View, SessionInv, Session
      <3> QED
        BY <1>11, <3>1 DEF feed_event, Terminal
    <2>2. /\ outgoing' = [outgoing EXCEPT ![x][id].state = state]
          /\ taken_ids' = taken_ids /\ files' = files /\ queue_tx' = queue_tx
      BY <1>1, <1>2, <1>9, <1>11, <2>1 DEF tx_feed
    <2>3. PICK o2 \in Session : o2 = [file |-> o.file, progress |-> o.progress, state |-> state]
      BY DEF Session
    <2>4. [o EXCEPT !.state = state] = o2
      BY <2>3 DEF Session
    <2>5. outgoing' = [outgoing EXCEPT ![x][id] = o2]
      BY <1>2, <2>2, <2>4
    <2>6. o2.file = o.file /\ o2.progress = o.progress /\ o2.state = feed_event(m.op, o.state)
      BY <2>1, <2>3
    <2>7. View(x, id, Chan(Other(x)), Tail(Chan(x)), o2, incoming[Other(x)][id],
               heard[Other(x)][id], files, id \in paused)
      BY <1>3, <1>4, <1>5, <1>11, <2>6, ViewTurn
    <2>8. /\ OutgoingTypes' /\ outgoing'[x][id] = o2
          /\ \A e \in End : \A i \in TxIds(e) : i # id => outgoing'[e][i] = outgoing[e][i]
      <3>1. SessionBecomes(x, id, o2)
        BY <2>5 DEF SessionBecomes
      <3>2. SessionSet(x, id, o2)
        BY <1>3, <3>1, OutgoingTyped
      <3> QED
        BY <3>2 DEF SessionSet
    <2>9. LinkTypes' /\ Chan(x)' = Tail(Chan(x)) /\ Chan(Other(x))' = Chan(Other(x))
      BY <1>4, <2>2
    <2>10. FileTypes' /\ FilesKept(files, files')
      BY <1>3, <2>2, FilesSame DEF Types, FileTypes
    <2>11. IdTypes' /\ Only(id, Chan(Other(x)), Chan(Other(x)))
      BY <1>7, <2>2 DEF Only
    <2> QED
      BY <1>4, <1>5, <2>2, <2>7, <2>8, <2>9, <2>10, <2>11, SenderKeeps
  <1> QED
    BY <1>8, <1>10, <1>11

\* enqueue_rx takes a payload from the link.
LEMMA EnqueueKeeps ==
    ASSUME FilesInv, NEW x \in End, enqueue_rx(x)
    PROVE  FilesInv'
  <1>1. wire[x] # <<>> /\ wire' = [wire EXCEPT ![x] = Tail(@)]
        /\ UNCHANGED <<held, panicked, asks, strays>>
    BY DEF enqueue_rx
  <1>2. wire[x] \in Seq(Msg)
    BY DEF FilesInv, Types, LinkTypes
  <1>3. PICK m \in Msg : m = Head(wire[x])
    BY <1>1, <1>2, TailSeq
  <1>4. CASE /\ m.file_id \in RxIds(x)
             /\ incoming' = [incoming EXCEPT ![x][m.file_id] = rx_feed(x, m).slot]
             /\ queue_tx' = [queue_tx EXCEPT ![x] = @ \o rx_feed(x, m).reply]
             /\ heard' = [heard EXCEPT ![x][m.file_id] = rx_feed(x, m).app]
             /\ paused' = IF x = Foreign /\ rx_feed(x, m).slot = NoSlot THEN paused \ {m.file_id} ELSE paused
             /\ UNCHANGED <<taken_ids, outgoing, files>>
    BY <1>1, <1>3, <1>4, ReceiverKeeps
  <1>5. CASE m.file_id \in TxIds(x) /\ tx_feed(x, m) /\ UNCHANGED <<incoming, heard, paused>>
    BY <1>1, <1>3, <1>5, TransmitterKeeps
  <1> QED
    BY <1>3, <1>4, <1>5 DEF enqueue_rx

-----------------------------------------------------------------------------
(* The theorems. *)

\* Nothing is under way at first.
LEMMA FilesInit ==
    ASSUME Init
    PROVE  FilesInv
  <1> USE DEF Init
  <1>1. /\ MaxFiles \in Nat /\ MaxAsks \in Nat /\ MaxStrays \in Nat
        /\ \A e \in End : TxIds(e) \subseteq Id /\ RxIds(e) \subseteq Id
    BY FileAssumption, Ends
  <1>2. IdTypes
    <2>1. \A S : <<>> \in Seq(S)
      BY EmptySeq
    <2> QED
      BY <2>1 DEF IdTypes
  <1>3. OutgoingTypes
    <2>1. NoSession \in Session
      BY <1>1 DEF NoSession, Session
    <2> QED
      BY <2>1 DEF OutgoingTypes
  <1>4. IncomingTypes
    <2>1. NothingHeard \in Heard
      BY <1>1, EmptySeq DEF NothingHeard, Heard, Data
    <2> QED
      BY <2>1 DEF IncomingTypes, Slot
  <1>5. LinkTypes
    BY EmptySeq DEF LinkTypes
  <1>6. FileTypes
    <2>1. files \in Seq(File) /\ Len(files) = 0
      BY EmptySeq
    <2> QED
      BY <1>1, <2>1 DEF FileTypes
  <1>7. AskTypes
    <2>1. panicked \in BOOLEAN /\ paused \subseteq Id
      OBVIOUS
    <2>2. asks \in 0..MaxAsks /\ strays \in 0..MaxStrays
      BY <1>1
    <2> QED
      BY <2>1, <2>2 DEF AskTypes
  <1>8. ASSUME NEW e \in End, NEW id \in TxIds(e)
        PROVE  TransferInv(e, id)
    <2>1. Chan(e) = <<>> /\ Chan(Other(e)) = <<>>
      <3>1. \A x \in End : wire[x] = <<>> /\ queue_tx[x] = <<>>
        OBVIOUS
      <3>2. <<>> \o <<>> = <<>>
        OBVIOUS
      <3> QED
        BY <3>1, <3>2, Ends DEF Chan
    <2>2. /\ outgoing[e][id] = NoSession /\ incoming[Other(e)][id] = NoSlot
          /\ heard[Other(e)][id] = NothingHeard /\ id \notin paused
      BY Ends
    <2> DEFINE s == <<>>
    <2>3. Len(s) = 0 /\ 1..Len(s) = {}
      OBVIOUS
    <2> HIDE DEF s
    <2>4. \A ops : Lacks(id, s, ops) /\ AtMostOne(id, s, ops)
      BY <2>3 DEF Lacks, AtMostOne
    <2>5. OnlySetups(id, s)
      BY <2>3 DEF OnlySetups
    <2>6. NothingHeard.file = 0
      BY DEF NothingHeard
    <2>7. SessionInv(e, id, NoSession, files) /\ Intact(NothingHeard, files)
      BY <2>6 DEF SessionInv, Intact
    <2>8. Transfer(id, s, s, NoSession, NoSlot, NothingHeard, files)
      BY <2>4, <2>5 DEF Transfer, Free
    <2>9. PausesOwn(id, s, s, NoSession, NoSlot, FALSE)
      BY <2>4 DEF PausesOwn
    <2>10. View(e, id, s, s, NoSession, NoSlot, NothingHeard, files, FALSE)
      BY <2>7, <2>8, <2>9 DEF View
    <2>11. (id \in paused) = FALSE
      BY <2>2
    <2>12. View(e, id, Chan(Other(e)), Chan(e), outgoing[e][id], incoming[Other(e)][id],
                heard[Other(e)][id], files, id \in paused)
      <3> HIDE DEF Chan
      <3> QED
        BY <2>1, <2>2, <2>10, <2>11 DEF s
    <2> QED
      BY <2>12 DEF TransferInv
  <1> QED
    BY <1>2, <1>3, <1>4, <1>5, <1>6, <1>7, <1>8 DEF FilesInv, Types

\* Every step keeps the invariant.
LEMMA FilesNext ==
    ASSUME FilesInv, [Next]_vars
    PROVE  FilesInv'
  <1>1. CASE UNCHANGED vars
    <2>1. UNCHANGED <<outgoing, incoming, queue_tx, wire, files, heard, paused>>
      BY <1>1 DEF vars
    <2>2. Types'
      BY <1>1 DEF FilesInv, Types, IdTypes, OutgoingTypes, IncomingTypes, LinkTypes, FileTypes,
                  AskTypes, vars
    <2> QED
      BY <2>1, <2>2, NothingMoves
  <1>2. ASSUME NEW x \in End, reserve(x) \/ cancel_reserved(x)
        PROVE  FilesInv'
    BY <1>2, ReserveKeeps
  <1>3. ASSUME NEW x \in End, send_file(x)
        PROVE  FilesInv'
    BY <1>3, SendFileKeeps
  <1>4. ASSUME NEW x \in End, dequeue_tx(x)
        PROVE  FilesInv'
    BY <1>4, DequeueKeeps
  <1>5. ASSUME NEW x \in End, enqueue_rx(x)
        PROVE  FilesInv'
    BY <1>5, EnqueueKeeps
  <1>6. CASE AskPause
    BY <1>6, AskPauseKeeps
  <1>7. CASE Resume
    BY <1>7, ResumeKeeps
  <1>8. CASE AskStop
    BY <1>8, AskStopKeeps
  <1>9. CASE StraySetup
    BY <1>9, StraySetupKeeps
  <1> QED
    BY <1>1, <1>2, <1>3, <1>4, <1>5, <1>6, <1>7, <1>8, <1>9 DEF Next

\* The invariant holds in every reachable state.
THEOREM TransfersConsistent == Spec => []FilesInv
  <1>1. Init => FilesInv
    BY FilesInit
  <1>2. FilesInv /\ [Next]_vars => FilesInv'
    BY FilesNext
  <1> QED
    BY <1>1, <1>2, PTL DEF Spec

\* Slots, queues, sessions and ids have their types (link.rs, incoming.rs, outgoing.rs).
THEOREM FileTypesCorrect == Spec => []TypeOK
  <1>1. FilesInv => TypeOK
    <2> SUFFICES ASSUME FilesInv
                 PROVE  TypeOK
      OBVIOUS
    <2>1. Types
      BY DEF FilesInv
    <2>2. ASSUME NEW e \in End
          PROVE  /\ taken_ids[e] \subseteq TxIds(e) /\ outgoing[e] \in [TxIds(e) -> Session]
                 /\ incoming[e] \in [RxIds(e) -> Slot] /\ queue_tx[e] \in Seq(Msg) /\ wire[e] \in Seq(Msg)
                 /\ held[e] \in Seq(TxIds(e))
      BY <2>1 DEF Types, IdTypes, OutgoingTypes, IncomingTypes, LinkTypes
    <2>3. \A f \in 1..Len(files) : files[f].fate \in {"open"} \cup Finals
      <3>1. \A f \in 1..Len(files) : files[f] \in File
        BY <2>1, ElementOfSeq DEF Types, FileTypes
      <3> QED
        BY <3>1 DEF File
    <2> QED
      BY <2>1, <2>2, <2>3 DEF TypeOK, Types, AskTypes, Session, Slot
  <1> QED
    BY <1>1, TransfersConsistent, PTL

\* What an application hears under an id is the beginning of one file, and the whole
\* file once the final chunk is in (FileTransferReceiver::feed, incoming.rs).
THEOREM FilesArriveIntact == Spec => []FileIntact
  <1>1. FilesInv => FileIntact
    <2> SUFFICES ASSUME FilesInv, NEW e \in End, NEW id \in RxIds(e)
                 PROVE  LET h == heard[e][id]
                        IN  h.file # 0 =>
                              /\ Len(h.data) <= Size(h.file)
                              /\ h.data = Units(h.file, 0, Len(h.data))
                              /\ h.final => Len(h.data) = Size(h.file)
      BY DEF FileIntact
    <2>1. Other(e) \in End /\ Other(Other(e)) = e /\ id \in TxIds(Other(e))
      BY Ends
    <2>2. Intact(heard[e][id], files)
      BY <2>1, ViewNow DEF View
    <2> QED
      BY <2>2 DEF Intact, Size
  <1> QED
    BY <1>1, TransfersConsistent, PTL

\* A slot of a receiver always has its session at the sender, on the same file
\* (FileTransferReceiver::feed and FileTransferTransmitter::reconcile).
THEOREM SlotsHaveSenders == Spec => []SlotHasSender
  <1>1. FilesInv => SlotHasSender
    <2> SUFFICES ASSUME FilesInv, NEW e \in End, NEW id \in RxIds(e), incoming[e][id] # NoSlot
                 PROVE  /\ outgoing[Other(e)][id] # NoSession
                        /\ heard[e][id].file = outgoing[Other(e)][id].file
      BY DEF SlotHasSender
    <2>1. Other(e) \in End /\ Other(Other(e)) = e /\ id \in TxIds(Other(e))
      BY Ends
    <2>2. Transfer(id, Chan(e), Chan(Other(e)), outgoing[Other(e)][id], incoming[e][id],
                   heard[e][id], files)
      BY <2>1, ViewNow DEF View
    <2> QED
      BY <2>2 DEF Transfer, Free, Opening, Open, Ending
  <1> QED
    BY <1>1, TransfersConsistent, PTL

\* The answer Success is behind the last chunk.
LEMMA EndWhole ==
    ASSUME NEW e, NEW id, NEW c \in Seq(Msg), NEW d \in Seq(Msg), NEW o \in Session,
           NEW slot, NEW h \in Heard, NEW fl \in Seq(File), NEW p,
           View(e, id, c, d, o, slot, h, fl, p), o # NoSession, FilesKept(fl, fl),
           d # <<>>, Head(d).file_id = id, Head(d).op = "Success"
    PROVE  h.file = o.file /\ h.final
  <1>1. Head(d).op \in Terminal
    BY DEF Terminal
  <1>2. Head(d).op = "Success" => h.file = o.file /\ h.final
    BY <1>1, ViewEnd, Zenon
  <1> QED
    BY <1>2

\* A file that succeeds is the one whose last chunk the other application has got.
LEMMA SuccessStep ==
    ASSUME FilesInv, [Next]_vars, NEW f \in 1..Len(files),
           files'[f].fate = "Success", files[f].fate = "open"
    PROVE  heard[Other(files[f].by)][files[f].id].file = f /\ heard[Other(files[f].by)][files[f].id].final
  <1>1. files' # files
    OBVIOUS
  <1>2. CASE \E x \in End : send_file(x)
    <2>1. PICK rec : files' = Append(files, rec)
      BY <1>1, <1>2 DEF send_file
    <2>2. files \in Seq(File \cup {rec})
      <3>1. files \in Seq(File) /\ File \subseteq File \cup {rec}
        BY DEF FilesInv, Types, FileTypes
      <3> QED
        BY <3>1, SeqMonotonic
    <2>3. files'[f] = files[f]
      BY <2>1, <2>2, AppendProperties
    <2> QED
      BY <2>3
  <1>3. CASE \E x \in End : enqueue_rx(x)
    <2>1. PICK x \in End : enqueue_rx(x)
      BY <1>3
    <2>2. wire[x] # <<>> /\ wire[x] \in Seq(Msg)
      BY <2>1 DEF enqueue_rx, FilesInv, Types, LinkTypes
    <2>3. PICK m \in Msg : m = Head(wire[x])
      BY <2>2, TailSeq
    <2>4. m.file_id \in TxIds(x) /\ tx_feed(x, m)
      BY <1>1, <2>1, <2>3 DEF enqueue_rx
    <2>5. PICK id \in TxIds(x) : id = m.file_id
      BY <2>4
    <2>6. PICK o \in Session : o = outgoing[x][id]
      BY <2>5, ViewNow
    <2>7. /\ o # NoSession /\ feed_event(m.op, o.state) \in Finals
          /\ files' = [files EXCEPT ![o.file].fate = feed_event(m.op, o.state)]
      BY <1>1, <2>4, <2>5, <2>6 DEF tx_feed
    <2>8. /\ View(x, id, Chan(Other(x)), Chan(x), o, incoming[Other(x)][id], heard[Other(x)][id],
                  files, id \in paused)
          /\ Chan(x) \in Seq(Msg) /\ Chan(Other(x)) \in Seq(Msg)
          /\ heard[Other(x)][id] \in Heard /\ files \in Seq(File) /\ Types
      BY <2>5, <2>6, ViewNow
    <2>9. o.file \in 1..Len(files) /\ files[o.file].by = x /\ files[o.file].id = id
          /\ o.state \in {"Pause", "Sending", "WaitingForSuccess"}
      BY <2>7, <2>8 DEF View, SessionInv, Session
    <2>10. f = o.file /\ feed_event(m.op, o.state) = "Success"
      BY <2>7, <2>8, <2>9
    <2>11. m.op = "Success"
      BY <2>9, <2>10 DEF feed_event
    <2>12. Chan(x) # <<>> /\ Head(Chan(x)) = m
      <3>1. queue_tx[Other(x)] \in Seq(Msg)
        BY <2>8, Ends DEF Types, LinkTypes
      <3> QED
        BY <2>2, <2>3, <3>1, PipeSeq DEF Chan
    <2>13. FilesKept(files, files)
      BY <2>8, LenProperties DEF FilesKept
    <2>14. heard[Other(x)][id].file = o.file /\ heard[Other(x)][id].final
      <3>1. Head(Chan(x)).file_id = id /\ Head(Chan(x)).op = "Success" /\ "Success" \in Terminal
        BY <2>5, <2>11, <2>12 DEF Terminal
      <3> QED
        BY <2>7, <2>8, <2>12, <2>13, <3>1, EndWhole
    <2> QED
      BY <2>9, <2>10, <2>14
  <1>4. (\E x \in End : send_file(x)) \/ (\E x \in End : enqueue_rx(x))
    BY <1>1 DEF Next, vars, reserve, cancel_reserved, dequeue_tx, AskPause, Resume, AskStop, StraySetup
  <1> QED
    BY <1>2, <1>3, <1>4

\* The sender takes a transfer for a success only when the other application has all of
\* the file (FileTransferTransmitter::feed and FileTransferReceiver::feed).
THEOREM SuccessIsEarned == Spec => SuccessMeansWhole
  <1>1. FilesInv /\ [Next]_vars =>
          [\A f \in 1..Len(files) :
             files'[f].fate = "Success" /\ files[f].fate = "open" =>
               LET h == heard[Other(files[f].by)][files[f].id]
               IN  h.file = f /\ h.final]_vars
    BY SuccessStep
  <1> QED
    BY <1>1, TransfersConsistent, PTL DEF Spec, SuccessMeansWhole
=============================================================================
