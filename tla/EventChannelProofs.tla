-------------------------- MODULE EventChannelProofs --------------------------
(***************************************************************************)
(* Proofs about EventChannel, for every number of requests, every limit of *)
(* commands in flight and every choice of callers that give up, tasks that *)
(* are cancelled and drains that are closed.                               *)
(*                                                                         *)
(* The client has only positions to match answers with.  The invariant     *)
(* says that every queue on the way holds a run of consecutive requests,   *)
(* or the answers to one, and that each run begins where the one before it *)
(* ends: around the whole loop from pending_send to the client's slots.    *)
(***************************************************************************)
EXTENDS EventChannel, ProofBasics

\* A sequence of consecutive numbers from a on.
IsRun(s, a) == \A i \in 1..Len(s) : s[i] = a + i - 1

Increasing(s) == \A i, j \in 1..Len(s) : i < j => s[i] < s[j]

Received == Len(recvd)

\* The responses the client's queue has consumed.
Fed == next_cseq - Len(fifo)

\* The answer given to request r, as a set of at most one.
Answers(r) ==
    IF Kind[r] # "command" THEN IF r < Received THEN {Refusal(r)} ELSE {}
    ELSE IF reply[r] = None THEN {} ELSE {reply[r]}

Answered == [r \in Req |-> Answers(r)]

\* s holds answers to the requests from a on, by what was answered to each.
AnswersTo(s, a, ans) ==
    \A i \in 1..Len(s) : a + i - 1 \in Req /\ s[i] \in ans[a + i - 1]

-----------------------------------------------------------------------------
(* The inductive invariant. *)

Domains ==
    /\ DOMAIN msgs = Task /\ DOMAIN wire = Task /\ DOMAIN composites = Task
    /\ closed <=> phase[Client] = "eof"
    /\ \A t \in Task : phase[t] # "reconcile" => msgs[t] = <<>>

\* The callers: a slot is left for exactly the requests that are not fed yet, with a
\* sender while its caller waits.
CallsInv ==
    /\ Len(fifo) <= next_cseq
    /\ closed => fifo = <<>>
    /\ \A i \in 1..Len(fifo) :
         /\ fifo[i].cseq = Fed + i - 1
         /\ fifo[i].sender <=> call[Fed + i - 1] = "waiting"
         /\ oneshot[Fed + i - 1] = None
    /\ \A r \in Req :
         /\ call[r] = "idle" <=> r >= next_cseq
         /\ r >= next_cseq => oneshot[r] = None
         /\ call[r] = "waiting" /\ r < Fed => oneshot[r] # None
         /\ oneshot[r] \in Answers(r) \cup {None, Closed}
         /\ call[r] = "answered" => oneshot[r] \in Answers(r)

\* Where the requests in wire[Server], in composites[Client] and in pending_send begin.
WireStart == Received + Len(msgs[Server])
CompositesStart == WireStart + Len(wire[Server])
PendingStart == CompositesStart + Len(composites[Client])

\* The requests, from the callers to the server.
RequestsInv ==
    /\ IsRun(recvd, 0)
    /\ Received <= next_cseq
    /\ phase[Server] # "eof" =>
         /\ IsRun(msgs[Server], Received)
         /\ IsRun(wire[Server], WireStart)
         /\ IsRun(composites[Client], CompositesStart)
         /\ PendingStart <= next_cseq
         /\ ~closed => /\ IsRun(pending_send, PendingStart)
                       /\ PendingStart + Len(pending_send) = next_cseq

\* Where the answers in wire[Client], and those not yet flushed by the server, begin.
AnswersStart == Fed + Len(msgs[Client])
UnflushedStart == AnswersStart + Len(wire[Client])

\* The answers, from the server back to the callers.
ResponsesInv ==
    /\ next_send <= Received
    /\ \A i \in Ids : completed[i] \in Answered[i] \cup {None}
    /\ next_response # None => next_send > 0 /\ next_response \in Answered[next_send - 1]
    /\ ~closed =>
         /\ AnswersTo(msgs[Client], Fed, Answered)
         /\ AnswersTo(wire[Client], AnswersStart, Answered)
         /\ UnflushedStart <= next_send
         /\ phase[Server] # "eof" =>
              /\ AnswersTo(composites[Server], UnflushedStart, Answered)
              /\ UnflushedStart + Len(composites[Server]) + Len(Opt(next_response)) = next_send

\* The ids of q that have not started yet, and then those of p, come in order and after
\* all those that have.
InOrder(q, p, st) ==
    /\ \A j \in 1..Len(q) : q[j] \notin st =>
         /\ \A i \in st : i < q[j]
         /\ \A k \in 1..Len(q) : j < k /\ q[k] \notin st => q[j] < q[k]
         /\ \A k \in 1..Len(p) : q[j] < p[k]
    /\ Increasing(p)
    /\ \A j \in 1..Len(p) : \A i \in st : i < p[j]

CommandIds == {i \in Ids : i < Received /\ Kind[i] = "command"}

\* The commands in the server and in the CommandQueue: they start, and are handed out,
\* in the order of the requests, and each is answered once.
CommandsInv ==
    /\ started \subseteq CommandIds
    /\ \A j \in 1..Len(ready) :
         ready[j] \in CommandIds /\ (ready[j] \in started => reply[ready[j]] # None)
    /\ \A j \in 1..Len(pending) : pending[j] \in CommandIds
    /\ InOrder(ready, pending, started)
    /\ \A i \in Ids : reply[i] # None => i \in started /\ reply[i].req = i
    /\ Increasing(cmd_pending)
    /\ \A j \in 1..Len(cmd_pending) :
         cmd_pending[j] \in started /\ reply[cmd_pending[j]] = None
    /\ Increasing(popped)
    /\ \A j \in 1..Len(popped) :
         /\ popped[j] \in started
         /\ \A k \in 1..Len(cmd_pending) : popped[j] < cmd_pending[k]
    /\ \A i \in held : reply[i] = None /\ \E j \in 1..Len(popped) : popped[j] = i

EventInv ==
    TypeOK /\ Domains /\ CallsInv /\ RequestsInv /\ ResponsesInv /\ CommandsInv
-----------------------------------------------------------------------------
(* Sequences of ids. *)

\* What the assumptions say of the constants.
LEMMA EventConstants == MaxReq \in Nat /\ Req \subseteq Nat /\ Ids = Req /\ max_inflight \in Nat \ {0}
  BY EventAssumption DEF Req, Ids

\* pump_inflight moves the first pending commands to the end of the futures to poll.
LEMMA PumpProps ==
    ASSUME NEW p \in Seq(Ids), NEW f \in SUBSET Ids, NEW q \in Seq(Ids), pump_inflight(p, f, q)
    PROVE  \E n \in 0..Len(p) :
             /\ pending' = SubSeq(p, n + 1, Len(p))
             /\ ready' = q \o SubSeq(p, 1, n)
             /\ inflight' = f \cup {p[i] : i \in 1..n}
  <1>1. IsFiniteSet(f) /\ Cardinality(f) \in Nat
    <2>1. IsFiniteSet(Ids)
      BY EventConstants, FS_Interval DEF Req
    <2> QED
      BY <2>1, FS_Subset, FS_CardinalityType
  <1>2. Len(p) \in Nat
    BY LenProperties
  <1>3. Room(p, f) \in 0..Len(p)
    <2> DEFINE a == max_inflight - Cardinality(f)
               b == Len(p)
               m == Min({a, b})
    <2>1. CASE Cardinality(f) >= max_inflight
      BY <1>2, <2>1 DEF Room
    <2>2. CASE ~(Cardinality(f) >= max_inflight)
      <3>1. a \in Nat /\ b \in Nat
        BY <1>1, <1>2, <2>2, EventConstants
      <3>2. \E x \in {a, b} : \A y \in {a, b} : x <= y
        <4>1. CASE a <= b
          BY <3>1, <4>1
        <4>2. CASE b <= a
          BY <3>1, <4>2
        <4> QED
          BY <3>1, <4>1, <4>2
      <3>3. m \in {a, b} /\ \A y \in {a, b} : m <= y
        BY <3>2 DEF Min
      <3> QED
        BY <2>2, <3>1, <3>3 DEF Room
    <2> QED
      BY <2>1, <2>2
  <1> QED
    BY <1>3 DEF pump_inflight, Drop1

\* Moving the first of p to the end of q keeps the order.
LEMMA PumpInOrder ==
    ASSUME NEW q \in Seq(Ids), NEW p \in Seq(Ids), NEW st \in SUBSET Ids,
           NEW n \in 0..Len(p), InOrder(q, p, st)
    PROVE  InOrder(q \o SubSeq(p, 1, n), SubSeq(p, n + 1, Len(p)), st)
  <1> DEFINE h == SubSeq(p, 1, n)
             t == SubSeq(p, n + 1, Len(p))
             u == q \o h
  <1>1. h \in Seq(Ids) /\ t \in Seq(Ids) /\ Len(h) = n /\ Joined(p, h, t)
    BY SplitSeq
  <1>2. Joined(u, q, h)
    BY <1>1, JoinSeq
  <1>3. Len(q) \in Nat /\ Len(p) \in Nat
    BY LenProperties
  <1>4. /\ \A i \in 1..Len(q) : q[i] \in Nat
        /\ \A i \in 1..Len(p) : p[i] \in Nat
    BY EventConstants, ElementOfSeq
  <1> HIDE DEF h, t, u
  <1> USE <1>1, <1>2, <1>3, <1>4 DEF Joined
  <1>5. \A k \in 1..Len(t) : Len(h) + k \in 1..Len(p) /\ t[k] = p[Len(h) + k]
    OBVIOUS
  <1>6. Increasing(t)
    <2>1. Increasing(p)
      BY DEF InOrder
    <2>2. SUFFICES ASSUME NEW i \in 1..Len(t), NEW j \in 1..Len(t), i < j
                   PROVE  t[i] < t[j]
      BY DEF Increasing
    <2>3. Len(h) + i < Len(h) + j
      BY <2>2
    <2> QED
      BY <1>5, <2>1, <2>3 DEF Increasing
  <1>7. \A j \in 1..Len(t) : \A i \in st : i < t[j]
    BY <1>5 DEF InOrder
  <1>8. ASSUME NEW j \in 1..Len(u), u[j] \notin st
        PROVE  /\ \A x \in st : x < u[j]
               /\ \A k \in 1..Len(u) : j < k /\ u[k] \notin st => u[j] < u[k]
               /\ \A k \in 1..Len(t) : u[j] < t[k]
    <2>1. CASE j \in 1..Len(q)
      <3>1. u[j] = q[j]
        BY <2>1
      <3>2. /\ \A i \in st : i < q[j]
            /\ \A k \in 1..Len(q) : j < k /\ q[k] \notin st => q[j] < q[k]
            /\ \A k \in 1..Len(p) : q[j] < p[k]
        BY <1>8, <2>1, <3>1 DEF InOrder
      <3>3. \A k \in 1..Len(t) : u[j] < t[k]
        BY <3>1, <3>2
      <3>4. ASSUME NEW k \in 1..Len(u), j < k, u[k] \notin st
            PROVE  u[j] < u[k]
        <4>1. CASE k \in 1..Len(q)
          BY <3>1, <3>2, <3>4, <4>1
        <4>2. ASSUME NEW i \in 1..Len(h), k = Len(q) + i
              PROVE  u[j] < u[k]
          <5>1. u[k] = h[i] /\ h[i] = p[i] /\ i \in 1..Len(p)
            BY <4>2
          <5> QED
            BY <3>1, <3>2, <5>1
        <4> QED
          BY <4>1, <4>2
      <3> QED
        BY <3>1, <3>2, <3>3, <3>4
    <2>2. ASSUME NEW i \in 1..Len(h), j = Len(q) + i
          PROVE  /\ \A x \in st : x < u[j]
                 /\ \A k \in 1..Len(u) : j < k /\ u[k] \notin st => u[j] < u[k]
                 /\ \A k \in 1..Len(t) : u[j] < t[k]
      <3>1. i \in 1..Len(p) /\ u[j] = p[i]
        BY <2>2
      <3>2. \A x \in st : x < u[j]
        BY <3>1 DEF InOrder
      <3>3. \A k \in 1..Len(t) : u[j] < t[k]
        BY <3>1 DEF InOrder, Increasing
      <3>4. ASSUME NEW k \in 1..Len(u), j < k
            PROVE  u[j] < u[k]
        <4>1. k \notin 1..Len(q)
          BY <2>2, <3>4
        <4>2. PICK l \in 1..Len(h) : k = Len(q) + l
          BY <4>1
        <4>3. u[k] = p[l] /\ i < l /\ l \in 1..Len(p)
          BY <2>2, <3>4, <4>2
        <4> QED
          BY <3>1, <4>3 DEF InOrder, Increasing
      <3> QED
        BY <3>2, <3>3, <3>4
    <2> QED
      BY <2>1, <2>2
  <1> QED
    BY <1>6, <1>7, <1>8 DEF InOrder, h, t, u

\* The first of q may start.
LEMMA TailInOrder ==
    ASSUME NEW q \in Seq(Ids), NEW p \in Seq(Ids), NEW st \in SUBSET Ids,
           q # <<>>, InOrder(q, p, st)
    PROVE  InOrder(Tail(q), p, st \cup {Head(q)})
  <1> DEFINE t == Tail(q)
             s2 == st \cup {q[1]}
  <1>1. Head(q) = q[1] /\ 1 \in 1..Len(q) /\ Shifted(t, q)
    BY TailSeq
  <1>2. /\ \A i \in 1..Len(q) : q[i] \in Nat
        /\ \A i \in 1..Len(p) : p[i] \in Nat
    BY EventConstants, ElementOfSeq
  <1> HIDE DEF t
  <1>3. ASSUME NEW j \in 1..Len(t), t[j] \notin s2
        PROVE  /\ \A i \in s2 : i < t[j]
               /\ \A k \in 1..Len(t) : j < k /\ t[k] \notin s2 => t[j] < t[k]
               /\ \A k \in 1..Len(p) : t[j] < p[k]
    <2>1. j + 1 \in 1..Len(q) /\ t[j] = q[j + 1] /\ q[j + 1] \notin st
      BY <1>1, <1>3 DEF Shifted
    <2>2. /\ \A i \in st : i < q[j + 1]
          /\ \A k \in 1..Len(q) : j + 1 < k /\ q[k] \notin st => q[j + 1] < q[k]
          /\ \A k \in 1..Len(p) : q[j + 1] < p[k]
      BY <2>1 DEF InOrder
    <2>3. q[1] < t[j]
      <3>1. CASE q[1] \in st
        BY <2>1, <2>2, <3>1
      <3>2. CASE q[1] \notin st
        BY <1>1, <2>1, <3>2 DEF InOrder
      <3> QED
        BY <3>1, <3>2
    <2>4. ASSUME NEW k \in 1..Len(t), j < k, t[k] \notin s2
          PROVE  t[j] < t[k]
      <3>1. k + 1 \in 1..Len(q) /\ t[k] = q[k + 1] /\ j + 1 < k + 1
        BY <1>1, <2>4 DEF Shifted
      <3>2. q[k + 1] \notin st
        BY <2>4, <3>1
      <3> QED
        BY ONLY <2>1, <2>2, <3>1, <3>2
    <2> QED
      BY <2>1, <2>2, <2>3, <2>4
  <1>4. \A j \in 1..Len(p) : \A i \in s2 : i < p[j]
    <2>1. \A j \in 1..Len(p) : q[1] < p[j]
      BY <1>1, <1>2 DEF InOrder
    <2> QED
      BY <2>1 DEF InOrder
  <1> QED
    BY <1>1, <1>3, <1>4 DEF InOrder, t

\* Ids that have started may join q.
LEMMA WokenInOrder ==
    ASSUME NEW q \in Seq(Ids), NEW p \in Seq(Ids), NEW st \in SUBSET Ids,
           NEW w \in Seq(Ids), \A i \in 1..Len(w) : w[i] \in st, InOrder(q, p, st)
    PROVE  InOrder(q \o w, p, st)
  <1> DEFINE u == q \o w
  <1>1. Joined(u, q, w)
    BY JoinSeq
  <1> HIDE DEF u
  <1>2. \A j \in 1..Len(u) : u[j] \notin st => j \in 1..Len(q) /\ u[j] = q[j]
    BY <1>1 DEF Joined
  <1> QED
    BY <1>2 DEF InOrder, u

\* New ids are behind all the others.
LEMMA NewInOrder ==
    ASSUME NEW q \in Seq(Ids), NEW p \in Seq(Ids), NEW st \in SUBSET Ids,
           NEW w \in Seq(Ids), NEW b \in Nat, Increasing(w), InOrder(q, p, st),
           \A i \in 1..Len(w) : w[i] >= b,
           \A i \in st : i < b, \A i \in 1..Len(q) : q[i] < b, \A i \in 1..Len(p) : p[i] < b
    PROVE  InOrder(q, p \o w, st)
  <1> DEFINE u == p \o w
  <1>1. Joined(u, p, w)
    BY JoinSeq
  <1>2. /\ \A i \in 1..Len(q) : q[i] \in Nat
        /\ \A i \in 1..Len(p) : p[i] \in Nat
        /\ \A i \in 1..Len(w) : w[i] \in Nat
        /\ \A i \in st : i \in Nat
    BY EventConstants, ElementOfSeq
  <1> HIDE DEF u
  <1>3. \A k \in 1..Len(u) : \/ k \in 1..Len(p) /\ u[k] = p[k]
                             \/ \E i \in 1..Len(w) : k = Len(p) + i /\ u[k] = w[i]
    BY <1>1 DEF Joined
  <1>4. ASSUME NEW i \in 1..Len(u), NEW k \in 1..Len(u), i < k
        PROVE  u[i] < u[k]
    <2>1. CASE k \in 1..Len(p)
      <3>1. i \in 1..Len(p) /\ u[i] = p[i] /\ u[k] = p[k]
        BY <1>1, <1>4, <2>1 DEF Joined
      <3> QED
        BY <1>4, <2>1, <3>1 DEF InOrder, Increasing
    <2>2. ASSUME NEW l \in 1..Len(w), k = Len(p) + l, u[k] = w[l]
          PROVE  u[i] < u[k]
      <3>1. CASE i \in 1..Len(p) /\ u[i] = p[i]
        BY <1>2, <2>2, <3>1
      <3>2. ASSUME NEW m \in 1..Len(w), i = Len(p) + m, u[i] = w[m]
            PROVE  u[i] < u[k]
        BY <1>1, <1>4, <2>2, <3>2 DEF Increasing, Joined
      <3> QED
        BY <1>3, <3>1, <3>2
    <2> QED
      BY <1>3, <2>1, <2>2
  <1>5. ASSUME NEW k \in 1..Len(u)
        PROVE  /\ \A i \in st : i < u[k]
               /\ \A j \in 1..Len(q) : q[j] \notin st => q[j] < u[k]
    <2>1. CASE k \in 1..Len(p) /\ u[k] = p[k]
      BY <2>1 DEF InOrder
    <2>2. ASSUME NEW i \in 1..Len(w), u[k] = w[i]
          PROVE  /\ \A x \in st : x < u[k]
                 /\ \A j \in 1..Len(q) : q[j] \notin st => q[j] < u[k]
      BY <1>2, <2>2
    <2> QED
      BY <1>3, <2>1, <2>2
  <1> QED
    BY <1>4, <1>5 DEF InOrder, Increasing, u
\* Commands, by induction on the number of requests: the ids of the commands among them.
LEMMA CommandsProps ==
    ASSUME NEW m \in Seq(Req), NEW first \in Nat
    PROVE  /\ Commands(m, first) \in Seq(Nat)
           /\ Increasing(Commands(m, first))
           /\ \A i \in 1..Len(Commands(m, first)) : \E j \in 1..Len(m) :
                Commands(m, first)[i] = first + j - 1 /\ Kind[m[j]] = "command"
  <1> DEFINE P == {n \in Nat : \E f : f =
                     [j \in 0..n |-> IF j = 0 THEN <<>>
                                     ELSE IF Kind[m[j]] = "command" THEN Append(f[j - 1], first + j - 1)
                                     ELSE f[j - 1]]}
  <1>1. 0 \in P
    <2>1. [j \in 0..0 |-> <<>>] =
            [j \in 0..0 |-> IF j = 0 THEN <<>>
                            ELSE IF Kind[m[j]] = "command"
                                 THEN Append([k \in 0..0 |-> <<>>][j - 1], first + j - 1)
                            ELSE [k \in 0..0 |-> <<>>][j - 1]]
      OBVIOUS
    <2> QED
      BY <2>1
  <1>2. ASSUME NEW n \in Nat, n \in P
        PROVE  n + 1 \in P
    <2>1. PICK f : f = [j \in 0..n |->
                          IF j = 0 THEN <<>>
                          ELSE IF Kind[m[j]] = "command" THEN Append(f[j - 1], first + j - 1)
                          ELSE f[j - 1]]
      BY <1>2
    <2> DEFINE e == IF Kind[m[n + 1]] = "command" THEN Append(f[n], first + n) ELSE f[n]
               g == [j \in 0..(n + 1) |-> IF j = n + 1 THEN e ELSE f[j]]
    <2>2. ASSUME NEW j \in 0..(n + 1)
          PROVE  g[j] = IF j = 0 THEN <<>>
                        ELSE IF Kind[m[j]] = "command" THEN Append(g[j - 1], first + j - 1)
                        ELSE g[j - 1]
      <3>1. CASE j = n + 1
        BY <3>1
      <3>2. CASE j = 0
        BY <2>1, <3>2
      <3>3. CASE j \in 1..n
        <4>1. g[j] = f[j] /\ g[j - 1] = f[j - 1] /\ j # 0 /\ j \in 0..n
          BY <3>3
        <4> HIDE DEF g
        <4>2. f[j] = IF Kind[m[j]] = "command" THEN Append(f[j - 1], first + j - 1) ELSE f[j - 1]
          BY <2>1, <4>1
        <4> QED
          BY <4>1, <4>2
      <3> QED
        BY <3>1, <3>2, <3>3
    <2>3. g = [j \in 0..(n + 1) |->
                 IF j = 0 THEN <<>>
                 ELSE IF Kind[m[j]] = "command" THEN Append(g[j - 1], first + j - 1)
                 ELSE g[j - 1]]
      BY <2>2
    <2> HIDE DEF e, g
    <2>4. \E h : h = [j \in 0..(n + 1) |->
                       IF j = 0 THEN <<>>
                       ELSE IF Kind[m[j]] = "command" THEN Append(h[j - 1], first + j - 1)
                       ELSE h[j - 1]]
      BY <2>3, Zenon
    <2> QED
      BY <2>4
  <1>3. Len(m) \in Nat
    BY LenProperties
  <1>4. Len(m) \in P
    <2> HIDE DEF P
    <2> QED
      BY <1>1, <1>2, <1>3, SetInduction
  <1> DEFINE ids == CHOOSE f : f = [j \in 0..Len(m) |->
                       IF j = 0 THEN <<>>
                       ELSE IF Kind[m[j]] = "command" THEN Append(f[j - 1], first + j - 1)
                       ELSE f[j - 1]]
  <1>5. ids = [j \in 0..Len(m) |->
                 IF j = 0 THEN <<>>
                 ELSE IF Kind[m[j]] = "command" THEN Append(ids[j - 1], first + j - 1)
                 ELSE ids[j - 1]]
    BY <1>4
  <1>6. Commands(m, first) = ids[Len(m)]
    BY DEF Commands
  <1> HIDE DEF ids, P
  <1> DEFINE Q == {n \in Nat : n <= Len(m) =>
                     /\ ids[n] \in Seq(Nat)
                     /\ Increasing(ids[n])
                     /\ \A i \in 1..Len(ids[n]) : \E j \in 1..n :
                          ids[n][i] = first + j - 1 /\ Kind[m[j]] = "command"}
  <1>7. 0 \in Q
    <2>1. ids[0] = <<>>
      BY <1>3, <1>5
    <2>2. ids[0] \in Seq(Nat) /\ Len(ids[0]) = 0
      BY <2>1, EmptySeq
    <2>3. Increasing(ids[0])
      BY <2>2 DEF Increasing
    <2> QED
      BY <2>2, <2>3
  <1>8. ASSUME NEW n \in Nat, n \in Q
        PROVE  n + 1 \in Q
    <2>1. SUFFICES ASSUME n + 1 <= Len(m)
                   PROVE  /\ ids[n + 1] \in Seq(Nat)
                          /\ Increasing(ids[n + 1])
                          /\ \A i \in 1..Len(ids[n + 1]) : \E j \in 1..(n + 1) :
                               ids[n + 1][i] = first + j - 1 /\ Kind[m[j]] = "command"
      OBVIOUS
    <2>2. /\ ids[n] \in Seq(Nat)
          /\ Increasing(ids[n])
          /\ \A i \in 1..Len(ids[n]) : \E j \in 1..n :
               ids[n][i] = first + j - 1 /\ Kind[m[j]] = "command"
      BY <1>3, <1>8, <2>1
    <2>3. ids[n + 1] = IF Kind[m[n + 1]] = "command" THEN Append(ids[n], first + n) ELSE ids[n]
      <3>1. n + 1 \in 0..Len(m) /\ n + 1 # 0 /\ (n + 1) - 1 = n /\ first + (n + 1) - 1 = first + n
        BY <1>3, <2>1
      <3> QED
        BY <1>5, <3>1
    <2>4. CASE Kind[m[n + 1]] # "command"
      <3>1. ids[n + 1] = ids[n]
        BY <2>3, <2>4
      <3>2. \A i \in 1..Len(ids[n]) : \E j \in 1..(n + 1) :
              ids[n][i] = first + j - 1 /\ Kind[m[j]] = "command"
        BY <2>2
      <3> QED
        BY <2>2, <3>1, <3>2
    <2>5. CASE Kind[m[n + 1]] = "command"
      <3> DEFINE u == ids[n]
                 v == ids[n + 1]
      <3>1. v \in Seq(Nat) /\ Appended(v, u, first + n)
        BY <2>2, <2>3, <2>5, AppendSeq
      <3>2. /\ u \in Seq(Nat)
            /\ Increasing(u)
            /\ \A i \in 1..Len(u) : \E j \in 1..n : u[i] = first + j - 1 /\ Kind[m[j]] = "command"
        BY <2>2
      <3> HIDE DEF u, v
      <3>3. \A i \in 1..Len(u) : u[i] \in Nat /\ u[i] < first + n
        BY <3>2
      <3>4. ASSUME NEW i \in 1..Len(v), NEW k \in 1..Len(v), i < k
            PROVE  v[i] < v[k]
        <4>1. i \in 1..Len(u) /\ v[i] = u[i]
          BY <3>1, <3>4 DEF Appended
        <4>2. CASE k \in 1..Len(u)
          BY <3>1, <3>2, <3>4, <4>1, <4>2 DEF Appended, Increasing
        <4>3. CASE k = Len(u) + 1
          BY <3>1, <3>3, <4>1, <4>3 DEF Appended
        <4> QED
          BY <3>1, <4>2, <4>3 DEF Appended
      <3>5. ASSUME NEW i \in 1..Len(v)
            PROVE  \E j \in 1..(n + 1) : v[i] = first + j - 1 /\ Kind[m[j]] = "command"
        <4>1. CASE i \in 1..Len(u)
          BY <3>1, <3>2, <4>1 DEF Appended
        <4>2. CASE i = Len(u) + 1
          <5>1. v[i] = first + (n + 1) - 1 /\ n + 1 \in 1..(n + 1)
            BY <3>1, <4>2 DEF Appended
          <5> QED
            BY <2>5, <5>1
        <4> QED
          BY <3>1, <4>1, <4>2 DEF Appended
      <3> QED
        BY <3>1, <3>4, <3>5 DEF v, Increasing
    <2> QED
      BY <2>4, <2>5
  <1>9. Len(m) \in Q
    <2> HIDE DEF Q
    <2> QED
      BY <1>3, <1>7, <1>8, SetInduction
  <1> QED
    BY <1>3, <1>6, <1>9
-----------------------------------------------------------------------------
(* What the types of the frames say of either direction. *)

\* msgs, wire and composites (m, w and c) of the two ends.
FramesOK(m, w, c) ==
    /\ m[Client] \in Seq(Response) /\ m[Server] \in Seq(Req)
    /\ w[Client] \in Seq(Response) /\ w[Server] \in Seq(Req)
    /\ c[Client] \in Seq(Req) /\ c[Server] \in Seq(Response)

\* The client reads responses and writes requests; the server the reverse.
LEMMA FrameTypes ==
    ASSUME NEW m, NEW w, NEW c
    PROVE  FramesOK(m, w, c) <=>
             \A t \in Task : /\ m[t] \in Seq(Frames(t))
                             /\ w[t] \in Seq(Frames(t))
                             /\ c[t] \in Seq(Frames(Other(t)))
  BY DEF FramesOK, Task, Frames, Other, Client, Server

\* The two ends of the connection.
LEMMA Ends2 ==
    /\ Task = {Client, Server} /\ Client # Server
    /\ Other(Client) = Server /\ Other(Server) = Client
  BY DEF Task, Client, Server, Other

\* The responses the model makes.
LEMMA ResponseValues ==
    /\ None \notin Response /\ Closed \notin Response /\ None # Closed
    /\ \A r \in Req : Refusal(r) \in Response /\ Refusal(r).req = r
    /\ \A r \in Req, s \in Statuses \cup {"Gone"} : [req |-> r, status |-> s] \in Response
  <1>1. None \notin Response /\ Closed \notin Response /\ None # Closed
    BY EventConstants DEF None, Closed, Response
  <1>2. \A r \in Req : Refusal(r) \in Response /\ Refusal(r).req = r
    BY DEF Refusal, Response, Status
  <1>3. \A r \in Req, s \in Statuses \cup {"Gone"} : [req |-> r, status |-> s] \in Response
    BY EventAssumption DEF Response, Status
  <1> QED
    BY <1>1, <1>2, <1>3

-----------------------------------------------------------------------------
(* Types. *)

\* The client's side: requests are numbered, sent and answered within their types.
LEMMA QueueTypes ==
    ASSUME EventInv,
           \/ \E r \in Req : queue(r) \/ PollReady(r) \/ GiveUp(r)
           \/ ClientReconcile \/ ClientWake \/ ClientEnd
    PROVE  TypeOK' /\ Domains'
  <1> USE Ends2, EventConstants
  <1>1. /\ TypeOK /\ Domains /\ FramesOK(msgs, wire, composites)
        /\ Len(fifo) \in Nat
    BY FrameTypes, LenProperties DEF EventInv, TypeOK
  <1>2. ASSUME NEW r \in Req, queue(r)
        PROVE  TypeOK' /\ Domains'
    <2>1. /\ Append(pending_send, r) \in Seq(Req)
          /\ Append(fifo, [cseq |-> r, sender |-> TRUE]) \in Seq([cseq : Req, sender : BOOLEAN])
      BY <1>1, AppendSeq DEF TypeOK
    <2>2. next_cseq' \in 0..MaxReq
      BY <1>1, <1>2 DEF queue, Req
    <2> QED
      BY <1>1, <1>2, <2>1, <2>2 DEF queue, TypeOK, Domains, CallState, taskVars, serverVars, commandVars
  <1>3. ASSUME NEW r \in Req, fifo' = DropFuture(fifo, r), NEW s \in CallState,
               call' = [call EXCEPT ![r] = s],
               UNCHANGED <<next_cseq, pending_send, notify, closed, oneshot,
                           taskVars, serverVars, commandVars>>
        PROVE  TypeOK' /\ Domains'
    <2>1. DropFuture(fifo, r) \in [1..Len(fifo) -> [cseq : Req, sender : BOOLEAN]]
      <3>1. \A i \in 1..Len(fifo) : fifo[i] \in [cseq : Req, sender : BOOLEAN]
        BY <1>1, ElementOfSeq DEF TypeOK
      <3>2. \A x \in [cseq : Req, sender : BOOLEAN] :
              [x EXCEPT !.sender = FALSE] \in [cseq : Req, sender : BOOLEAN]
        OBVIOUS
      <3> QED
        BY <3>1, <3>2 DEF DropFuture
    <2>2. DropFuture(fifo, r) \in Seq([cseq : Req, sender : BOOLEAN])
      BY <1>1, <2>1, FunctionSeq
    <2> QED
      BY <1>1, <1>3, <2>2 DEF TypeOK, Domains, taskVars, serverVars, commandVars
  <1>4. ASSUME NEW r \in Req, PollReady(r) \/ GiveUp(r)
        PROVE  TypeOK' /\ Domains'
    BY <1>3, <1>4 DEF PollReady, GiveUp, CallState
  <1>5. CASE ClientReconcile
    <2> DEFINE n == IF Len(msgs[Client]) < Len(fifo) THEN Len(msgs[Client]) ELSE Len(fifo)
    <2>1. Len(msgs[Client]) \in Nat
      BY <1>1, LenProperties DEF FramesOK
    <2>2. n \in 0..Len(fifo)
      BY <1>1, <2>1
    <2>3. Drop1(fifo, n) \in Seq([cseq : Req, sender : BOOLEAN])
      BY <1>1, <2>2, SplitSeq DEF Drop1, TypeOK
    <2>4. fifo' \in Seq([cseq : Req, sender : BOOLEAN])
      BY <1>5, <2>3 DEF ClientReconcile, feed
    <2>5. oneshot' \in [Req -> Response \cup {None, Closed}]
      <3>1. ASSUME NEW r \in Req, FedTo(msgs[Client], r) # {}
            PROVE  msgs[Client][CHOOSE i \in FedTo(msgs[Client], r) : TRUE] \in Response
        <4>1. (CHOOSE i \in FedTo(msgs[Client], r) : TRUE) \in 1..Len(msgs[Client])
          BY <3>1 DEF FedTo
        <4> QED
          BY <1>1, <4>1, ElementOfSeq DEF FramesOK
      <3> QED
        BY <1>1, <1>5, <3>1 DEF ClientReconcile, feed, TypeOK
    <2>6. composites[Client] \o pending_send \in Seq(Req)
      BY <1>1, JoinSeq DEF FramesOK, TypeOK
    <2>7. <<>> \in Seq(Response) /\ <<>> \in Seq(Req)
      BY EmptySeq
    <2>8. FramesOK(msgs', wire', composites') /\ pending_send' \in Seq(Req)
      BY <1>1, <1>5, <2>6, <2>7 DEF ClientReconcile, FramesOK, Domains
    <2>9. Domains'
      BY <1>1, <1>5 DEF ClientReconcile, Domains, TypeOK
    <2>10. phase' \in [Task -> {"reconcile", "sleep", "eof"}]
      BY <1>1, <1>5 DEF ClientReconcile, TypeOK
    <2> HIDE DEF n
    <2> QED
      BY <1>1, <1>5, <2>4, <2>5, <2>8, <2>9, <2>10, FrameTypes
      DEF ClientReconcile, TypeOK, serverVars, commandVars
  <1>6. CASE ClientWake
    BY <1>1, <1>6 DEF ClientWake, TypeOK, Domains, serverVars, commandVars
  <1>7. CASE ClientEnd
    <2>1. PICK n \in 0..Len(composites[Client]) :
            wire' = [wire EXCEPT ![Server] = @ \o SubSeq(composites[Client], 1, n)]
      BY <1>7 DEF ClientEnd, Finish
    <2>2. SubSeq(composites[Client], 1, n) \in Seq(Req)
      BY <1>1, SplitSeq DEF FramesOK
    <2>3. wire[Server] \o SubSeq(composites[Client], 1, n) \in Seq(Req)
      BY <1>1, <2>2, JoinSeq DEF FramesOK
    <2>4. <<>> \in Seq(Response) /\ <<>> \in Seq(Req)
      BY EmptySeq
    <2>5. FramesOK(msgs', wire', composites')
      BY <1>1, <1>7, <2>1, <2>3, <2>4 DEF ClientEnd, Finish, FramesOK, Domains
    <2>6. Domains'
      BY <1>1, <1>7, <2>1 DEF ClientEnd, Finish, close, Domains, TypeOK
    <2>7. <<>> \in Seq([cseq : Req, sender : BOOLEAN])
      BY EmptySeq
    <2>8. /\ fifo' \in Seq([cseq : Req, sender : BOOLEAN]) /\ notify' \in BOOLEAN /\ closed' \in BOOLEAN
          /\ oneshot' \in [Req -> Response \cup {None, Closed}]
      BY <1>1, <1>7, <2>7 DEF ClientEnd, close, TypeOK
    <2>9. phase' \in [Task -> {"reconcile", "sleep", "eof"}] /\ armed' = armed
      BY <1>1, <1>7 DEF ClientEnd, Finish, TypeOK
    <2> QED
      BY <1>1, <1>7, <2>5, <2>6, <2>8, <2>9, FrameTypes DEF ClientEnd, TypeOK, serverVars, commandVars
  <1> QED
    BY <1>2, <1>4, <1>5, <1>6, <1>7

\* Frames between the ends, and the end of the server's task.
LEMMA WireTypes ==
    ASSUME EventInv, (\E t \in Task : Flush(t) \/ Receive(t)) \/ ServerEnd
    PROVE  TypeOK' /\ Domains'
  <1> USE Ends2, EventConstants
  <1>1. TypeOK /\ Domains /\ FramesOK(msgs, wire, composites)
    BY FrameTypes DEF EventInv, TypeOK
  <1>2. <<>> \in Seq(Response) /\ <<>> \in Seq(Req)
    BY EmptySeq
  <1>3. ASSUME NEW t \in Task, Flush(t)
        PROVE  TypeOK' /\ Domains'
    <2>1. PICK n \in 1..Len(composites[t]) :
            /\ wire' = [wire EXCEPT ![Other(t)] = @ \o SubSeq(composites[t], 1, n)]
            /\ composites' = [composites EXCEPT ![t] = Drop1(@, n)]
      BY <1>3 DEF Flush
    <2>2. /\ wire[Other(t)] \in Seq(Frames(Other(t))) /\ composites[t] \in Seq(Frames(Other(t)))
          /\ n \in 0..Len(composites[t])
      <3>1. t \in Task /\ Other(t) \in Task
        BY ONLY Ends2, t \in Task
      <3>2. \A u \in Task : wire[u] \in Seq(Frames(u)) /\ composites[u] \in Seq(Frames(Other(u)))
        BY ONLY <1>1 DEF TypeOK
      <3>3. n \in 0..Len(composites[t])
        BY ONLY n \in 1..Len(composites[t])
      <3> QED
        BY ONLY <3>1, <3>2, <3>3
    <2>3. /\ SubSeq(composites[t], 1, n) \in Seq(Frames(Other(t)))
          /\ Drop1(composites[t], n) \in Seq(Frames(Other(t)))
      BY <2>2, SplitSeq DEF Drop1
    <2>4. wire[Other(t)] \o SubSeq(composites[t], 1, n) \in Seq(Frames(Other(t)))
      BY <2>2, <2>3, JoinSeq
    <2>5. \A u \in Task : /\ msgs'[u] \in Seq(Frames(u)) /\ wire'[u] \in Seq(Frames(u))
                          /\ composites'[u] \in Seq(Frames(Other(u)))
      BY <1>1, <1>3, <2>1, <2>3, <2>4 DEF Flush, TypeOK, Domains
    <2> QED
      BY <1>1, <1>3, <2>1, <2>5 DEF Flush, TypeOK, Domains, queueVars, serverVars, commandVars
  <1>4. ASSUME NEW t \in Task, Receive(t)
        PROVE  TypeOK' /\ Domains'
    <2>1. PICK n \in 1..Len(wire[t]) :
            /\ msgs' = [msgs EXCEPT ![t] = SubSeq(wire[t], 1, n)]
            /\ wire' = [wire EXCEPT ![t] = Drop1(@, n)]
      BY <1>4 DEF Receive
    <2>2. wire[t] \in Seq(Frames(t)) /\ n \in 0..Len(wire[t])
      <3>1. \A u \in Task : wire[u] \in Seq(Frames(u))
        BY ONLY <1>1 DEF TypeOK
      <3>2. n \in 0..Len(wire[t])
        BY ONLY n \in 1..Len(wire[t])
      <3> QED
        BY ONLY <3>1, <3>2, t \in Task
    <2>3. SubSeq(wire[t], 1, n) \in Seq(Frames(t)) /\ Drop1(wire[t], n) \in Seq(Frames(t))
      BY <2>2, SplitSeq DEF Drop1
    <2>5. \A u \in Task : /\ msgs'[u] \in Seq(Frames(u)) /\ wire'[u] \in Seq(Frames(u))
                          /\ composites'[u] \in Seq(Frames(Other(u)))
      BY <1>1, <1>4, <2>1, <2>3 DEF Receive, TypeOK, Domains
    <2> QED
      BY <1>1, <1>4, <2>1, <2>5 DEF Receive, TypeOK, Domains, queueVars, serverVars, commandVars
  <1>5. CASE ServerEnd
    <2>1. PICK n \in 0..Len(composites[Server]) :
            wire' = [wire EXCEPT ![Client] = @ \o SubSeq(composites[Server], 1, n)]
      BY <1>5 DEF ServerEnd, Finish
    <2>2. SubSeq(composites[Server], 1, n) \in Seq(Response)
      BY <1>1, SplitSeq DEF FramesOK
    <2>3. wire[Client] \o SubSeq(composites[Server], 1, n) \in Seq(Response)
      BY <1>1, <2>2, JoinSeq DEF FramesOK
    <2>4. FramesOK(msgs', wire', composites')
      BY <1>1, <1>2, <1>5, <2>1, <2>3 DEF ServerEnd, Finish, FramesOK, Domains
    <2>5. Domains'
      BY <1>1, <1>5, <2>1 DEF ServerEnd, Finish, Domains, TypeOK, queueVars
    <2>6. phase' \in [Task -> {"reconcile", "sleep", "eof"}] /\ armed' = armed
      BY <1>1, <1>5 DEF ServerEnd, Finish, TypeOK
    <2> QED
      BY <1>1, <1>5, <2>4, <2>5, <2>6, FrameTypes DEF ServerEnd, TypeOK, queueVars, serverVars, commandVars
  <1> QED
    BY <1>3, <1>4, <1>5

\* What on_msg is given: the requests behind those already numbered.
LEMMA NewRequests ==
    ASSUME EventInv, ServerReconcile
    PROVE  /\ Received \in Nat /\ Len(msgs[Server]) \in Nat /\ msgs[Server] \in Seq(Req)
           /\ Received + Len(msgs[Server]) <= next_cseq /\ next_cseq <= MaxReq
           /\ \A i \in 1..Len(msgs[Server]) : msgs[Server][i] = Received + i - 1 /\ msgs[Server][i] \in Req
           /\ Commands(msgs[Server], Received) \in Seq(Ids)
           /\ \A i \in 1..Len(Commands(msgs[Server], Received)) :
                /\ Commands(msgs[Server], Received)[i] >= Received
                /\ Commands(msgs[Server], Received)[i] < Received + Len(msgs[Server])
                /\ Kind[Commands(msgs[Server], Received)[i]] = "command"
           /\ Increasing(Commands(msgs[Server], Received))
  <1> DEFINE m == msgs[Server]
             c == Commands(m, Received)
  <1>1. /\ m \in Seq(Req) /\ wire[Server] \in Seq(Req) /\ composites[Client] \in Seq(Req)
        /\ recvd \in Seq(Req) /\ next_cseq \in Nat /\ next_cseq <= MaxReq
    BY FrameTypes, EventConstants DEF EventInv, TypeOK, FramesOK
  <1>2. /\ Len(m) \in Nat /\ Len(wire[Server]) \in Nat /\ Len(composites[Client]) \in Nat
        /\ Received \in Nat
    BY <1>1, LenProperties DEF Received
  <1>3. phase[Server] # "eof"
    BY DEF ServerReconcile
  <1>4. IsRun(m, Received) /\ Received + Len(m) <= next_cseq
    <2>1. IsRun(m, Received) /\ PendingStart <= next_cseq
      BY <1>3 DEF EventInv, RequestsInv
    <2>2. PendingStart = Received + Len(m) + Len(wire[Server]) + Len(composites[Client])
      BY DEF PendingStart, CompositesStart, WireStart
    <2> DEFINE a == Received + Len(m)
               b == Len(wire[Server])
               d == Len(composites[Client])
    <2>3. a \in Nat /\ b \in Nat /\ d \in Nat /\ PendingStart = a + b + d
      BY <1>2, <2>2
    <2> HIDE DEF a, b, d
    <2>4. a <= PendingStart /\ PendingStart \in Nat
      BY <2>3
    <2>5. a <= next_cseq
      BY <1>1, <2>1, <2>3, <2>4
    <2> QED
      BY <2>1, <2>5 DEF a
  <1>5. \A i \in 1..Len(m) : m[i] = Received + i - 1 /\ m[i] \in Req
    BY <1>1, <1>4, ElementOfSeq DEF IsRun
  <1>6. /\ c \in Seq(Nat) /\ Increasing(c)
        /\ \A i \in 1..Len(c) : \E j \in 1..Len(m) : c[i] = Received + j - 1 /\ Kind[m[j]] = "command"
    BY <1>1, <1>2, CommandsProps
  <1> HIDE DEF c, m
  <1>7. ASSUME NEW i \in 1..Len(c)
        PROVE  c[i] >= Received /\ c[i] < Received + Len(m) /\ Kind[c[i]] = "command" /\ c[i] \in Ids
    <2>1. PICK j \in 1..Len(m) : c[i] = Received + j - 1 /\ Kind[m[j]] = "command"
      BY <1>6
    <2>2. c[i] = m[j] /\ m[j] \in Req
      BY <1>5, <2>1
    <2> QED
      BY <1>2, <2>1, <2>2, EventConstants
  <1>8. c \in Seq(Ids)
    <2>1. Len(c) \in Nat /\ c \in [1..Len(c) -> Nat]
      BY <1>6, LenProperties
    <2>2. c \in [1..Len(c) -> Ids]
      BY <1>7, <2>1
    <2> QED
      BY <2>1, <2>2, FunctionSeq
  <1> QED
    BY <1>1, <1>2, <1>4, <1>5, <1>6, <1>7, <1>8 DEF c, m

\* pump_inflight keeps the types.
LEMMA PumpTypes ==
    ASSUME NEW p \in Seq(Ids), NEW f \in SUBSET Ids, NEW q \in Seq(Ids), pump_inflight(p, f, q)
    PROVE  pending' \in Seq(Ids) /\ ready' \in Seq(Ids) /\ inflight' \subseteq Ids
  <1>1. PICK n \in 0..Len(p) :
          /\ pending' = SubSeq(p, n + 1, Len(p))
          /\ ready' = q \o SubSeq(p, 1, n)
          /\ inflight' = f \cup {p[i] : i \in 1..n}
    BY PumpProps
  <1>2. SubSeq(p, 1, n) \in Seq(Ids) /\ SubSeq(p, n + 1, Len(p)) \in Seq(Ids)
    BY SplitSeq
  <1>3. q \o SubSeq(p, 1, n) \in Seq(Ids)
    BY <1>2, JoinSeq
  <1>4. \A i \in 1..n : p[i] \in Ids
    <2>1. Len(p) \in Nat
      BY LenProperties
    <2> QED
      BY <2>1, ElementOfSeq
  <1> QED
    BY <1>1, <1>2, <1>3, <1>4

\* A response or none, as frames.
LEMMA OptType ==
    ASSUME NEW x \in Response \cup {None}
    PROVE  Opt(x) \in Seq(Response) /\ Len(Opt(x)) = IF x = None THEN 0 ELSE 1
  BY ResponseValues DEF Opt

\* The server's reconcile().
LEMMA ReconcileTypes ==
    ASSUME EventInv, ServerReconcile
    PROVE  TypeOK' /\ Domains'
  <1> USE Ends2, EventConstants
  <1> DEFINE m == msgs[Server]
  <1>1. TypeOK /\ Domains /\ FramesOK(msgs, wire, composites)
    BY FrameTypes DEF EventInv, TypeOK
  <1>2. composites[Server] \o Opt(next_response) \in Seq(Response)
    BY <1>1, OptType, JoinSeq DEF TypeOK, FramesOK
  <1>3. <<>> \in Seq(Req)
    BY EmptySeq
  <1>4. /\ recvd' \in Seq(Req)
        /\ pending' \in Seq(Ids) /\ ready' \in Seq(Ids) /\ inflight' \subseteq Ids
        /\ completed' \in [Ids -> Response \cup {None}]
        /\ next_response' \in Response \cup {None}
        /\ next_send' \in 0..MaxReq
        /\ composites'[Client] = composites[Client]
        /\ composites'[Server] \in Seq(Response)
        /\ DOMAIN composites' = Task
    <2>1. CASE m = <<>>
      BY <1>1, <1>2, <2>1 DEF ServerReconcile, drain_next_response, TypeOK, Domains
    <2>2. CASE m # <<>>
      <3> DEFINE c == [i \in Ids |-> IF i >= Len(recvd) /\ i < Len(recvd) + Len(m)
                                        /\ Kind[m[i - Len(recvd) + 1]] # "command"
                                     THEN Refusal(m[i - Len(recvd) + 1]) ELSE completed[i]]
                 turn == next_send \in Ids /\ c[next_send] # None
      <3>1. on_msg(m)
        BY <2>2 DEF ServerReconcile
      <3>2. recvd \o m \in Seq(Req)
        BY <1>1, JoinSeq DEF TypeOK, FramesOK
      <3>3. pending' \in Seq(Ids) /\ ready' \in Seq(Ids) /\ inflight' \subseteq Ids
        <4>1. pending \o Commands(m, Received) \in Seq(Ids)
          BY <1>1, NewRequests, JoinSeq DEF TypeOK
        <4>2. pump_inflight(pending \o Commands(m, Received), inflight, ready)
          BY <3>1 DEF on_msg, Received
        <4> QED
          BY <1>1, <4>1, <4>2, PumpTypes DEF TypeOK
      <3>4. c \in [Ids -> Response \cup {None}]
        <4>1. ASSUME NEW i \in Ids, i >= Len(recvd) /\ i < Len(recvd) + Len(m)
              PROVE  m[i - Len(recvd) + 1] \in Req
          BY <4>1, NewRequests DEF Received
        <4> QED
          BY <1>1, <4>1, ResponseValues DEF TypeOK
      <3>5. /\ recvd' = recvd \o m /\ next_response' = None
            /\ next_send' = IF turn THEN next_send + 1 ELSE next_send
            /\ completed' = IF turn THEN [c EXCEPT ![next_send] = None] ELSE c
            /\ composites' = [composites EXCEPT ![Server] =
                                @ \o Opt(next_response) \o (IF turn THEN <<c[next_send]>> ELSE <<>>)]
        BY <3>1 DEF on_msg
      <3> HIDE DEF c
      <3>6. turn => c[next_send] \in Response
        BY <3>4
      <3>7. (IF turn THEN <<c[next_send]>> ELSE <<>>) \in Seq(Response)
        BY <3>6
      <3>8. composites[Server] \o Opt(next_response) \o (IF turn THEN <<c[next_send]>> ELSE <<>>)
              \in Seq(Response)
        BY <1>2, <3>7, JoinSeq
      <3>9. completed' \in [Ids -> Response \cup {None}]
        BY <3>4, <3>5
      <3>10. next_send' \in 0..MaxReq
        BY <1>1, <3>5 DEF TypeOK, Req
      <3>11. /\ composites'[Client] = composites[Client] /\ composites'[Server] \in Seq(Response)
             /\ DOMAIN composites' = Task
        BY <1>1, <3>5, <3>8 DEF Domains
      <3> QED
        BY <3>2, <3>3, <3>5, <3>9, <3>10, <3>11
    <2> QED
      BY <2>1, <2>2
  <1>5. FramesOK(msgs', wire', composites')
    BY <1>1, <1>3, <1>4 DEF ServerReconcile, FramesOK, Domains
  <1>6. Domains'
    BY <1>1, <1>4 DEF ServerReconcile, Domains, TypeOK, queueVars
  <1>7. phase' \in [Task -> {"reconcile", "sleep", "eof"}] /\ armed' = TRUE
    BY <1>1 DEF ServerReconcile, TypeOK
  <1> QED
    BY <1>1, <1>4, <1>5, <1>6, <1>7, FrameTypes DEF ServerReconcile, TypeOK, queueVars, commandVars

\* The sleep of the server, and the main loop.
LEMMA CommandTypes ==
    ASSUME EventInv,
           \/ SleepIdle \/ SleepStart \/ SleepYield \/ pop \/ closeDrain
           \/ \E id \in Ids : respond(id)
    PROVE  TypeOK' /\ Domains'
  <1> USE Ends2, EventConstants
  <1>1. TypeOK /\ Domains /\ ready \in Seq(Ids) /\ cmd_pending \in Seq(Ids) /\ popped \in Seq(Ids)
    BY DEF EventInv, TypeOK
  <1>2. CASE SleepIdle
    BY <1>1, <1>2 DEF SleepIdle, TypeOK, Domains, queueVars, serverVars, commandVars
  <1>3. \A i \in Ids : i < Received => ReqOf(i) \in Req
    <2>1. recvd \in Seq(Req)
      BY <1>1 DEF TypeOK
    <2>2. Len(recvd) \in Nat
      BY <2>1, LenProperties
    <2>3. \A i \in Ids : i < Received => i + 1 \in 1..Len(recvd)
      BY <2>2 DEF Received
    <2> QED
      BY <2>1, <2>3, ElementOfSeq DEF ReqOf
  <1>4. \A i \in Ids : i \in CommandIds => Gone(i) \in Response
    BY <1>3, ResponseValues DEF Gone, CommandIds
  <1>5. \A i \in Ids : i \in started => i \in CommandIds
    BY DEF EventInv, CommandsInv
  <1>6. ready # <<>> => Head(ready) \in Ids /\ Tail(ready) \in Seq(Ids) /\ Head(ready) \in CommandIds
    BY <1>1, TailSeq DEF EventInv, CommandsInv
  <1>7. CASE SleepStart
    <2>1. pending' \in Seq(Ids) /\ ready' \in Seq(Ids) /\ inflight' \subseteq Ids
      BY <1>1, <1>6, <1>7, PumpTypes DEF SleepStart, TypeOK
    <2>2. cmd_pending' \in Seq(Ids) /\ started' \subseteq Ids
      BY <1>1, <1>6, <1>7, AppendSeq DEF SleepStart, TypeOK
    <2> QED
      BY <1>1, <1>7, <2>1, <2>2 DEF SleepStart, TypeOK, Domains, queueVars, taskVars
  <1>8. CASE SleepYield
    <2> DEFINE id == Head(ready)
               resp == IF id \in started THEN reply[id] ELSE Gone(id)
               c == [completed EXCEPT ![id] = resp]
    <2>1. id \in Ids /\ resp \in Response \cup {None}
      BY <1>1, <1>4, <1>6, <1>8 DEF SleepYield, TypeOK
    <2> HIDE DEF resp
    <2>2. pending' \in Seq(Ids) /\ ready' \in Seq(Ids) /\ inflight' \subseteq Ids
      <3>1. inflight \ {id} \in SUBSET Ids /\ pump_inflight(pending, inflight \ {id}, Tail(ready))
        BY <1>1, <1>8 DEF SleepYield, TypeOK
      <3> QED
        BY <1>1, <1>6, <1>8, <3>1, PumpTypes DEF SleepYield, TypeOK
    <2>3. /\ completed' \in [Ids -> Response \cup {None}]
          /\ next_response' \in Response \cup {None}
          /\ next_send' \in 0..MaxReq
      <3>1. try_prepare_next_response(c)
        BY <1>8 DEF SleepYield, resp
      <3>2. c \in [Ids -> Response \cup {None}]
        BY <1>1, <2>1 DEF TypeOK
      <3> HIDE DEF c
      <3>3. next_response \in Response \cup {None} /\ next_send \in 0..MaxReq
        BY <1>1 DEF TypeOK
      <3>4. CASE next_response = None /\ next_send \in Ids /\ c[next_send] # None
        <4>1. /\ next_response' = c[next_send]
              /\ completed' = [c EXCEPT ![next_send] = None]
              /\ next_send' = next_send + 1
          BY <3>1, <3>4 DEF try_prepare_next_response
        <4>2. next_send + 1 \in 0..MaxReq
          BY <3>4 DEF Req
        <4> QED
          BY <3>2, <3>4, <4>1, <4>2
      <3>5. CASE ~(next_response = None /\ next_send \in Ids /\ c[next_send] # None)
        BY <3>1, <3>2, <3>3, <3>5 DEF try_prepare_next_response
      <3> QED
        BY <3>4, <3>5
    <2>4. reply' \in [Ids -> Response \cup {None}] /\ started' \subseteq Ids
      BY <1>1, <1>8, <2>1 DEF SleepYield, TypeOK, resp
    <2>5. /\ phase' \in [Task -> {"reconcile", "sleep", "eof"}] /\ armed' \in BOOLEAN
          /\ phase'[Client] = phase[Client]
          /\ \A t \in Task : phase'[t] # "reconcile" => phase'[t] = phase[t]
      BY <1>1, <1>8 DEF SleepYield, TypeOK
    <2>6. UNCHANGED <<queueVars, msgs, composites, wire, recvd, cmd_pending, cmd_closed, held, popped>>
      BY <1>8 DEF SleepYield
    <2> HIDE DEF c
    <2> QED
      BY <1>1, <2>2, <2>3, <2>4, <2>5, <2>6 DEF TypeOK, Domains, queueVars
  <1>9. CASE pop
    <2>1. /\ Head(cmd_pending) \in Ids /\ Tail(cmd_pending) \in Seq(Ids)
          /\ Append(popped, Head(cmd_pending)) \in Seq(Ids)
      BY <1>1, <1>9, TailSeq, AppendSeq DEF pop
    <2> QED
      BY <1>1, <1>9, <2>1 DEF pop, TypeOK, Domains, queueVars, taskVars, serverVars
  <1>10. ASSUME NEW id \in Ids, respond(id)
         PROVE  TypeOK' /\ Domains'
    <2>1. id \in CommandIds
      BY <1>10, <1>5, <1>1, ElementOfSeq DEF respond, EventInv, CommandsInv
    <2>2. \A s \in Statuses \cup {"Gone"} : [req |-> ReqOf(id), status |-> s] \in Response
      BY <1>3, <2>1, ResponseValues DEF CommandIds
    <2>3. reply' \in [Ids -> Response \cup {None}]
      BY <1>1, <1>10, <2>2 DEF respond, TypeOK
    <2>4. ready' \in Seq(Ids) /\ held' \subseteq Ids
      BY <1>1, <1>10, AppendSeq DEF respond, TypeOK
    <2> QED
      BY <1>1, <1>10, <2>3, <2>4 DEF respond, TypeOK, Domains, queueVars, taskVars
  <1>11. CASE closeDrain
    <2>1. \A i \in Ids : (\E j \in 1..Len(cmd_pending) : cmd_pending[j] = i) => Gone(i) \in Response
      BY <1>4, <1>5 DEF EventInv, CommandsInv
    <2>2. reply' \in [Ids -> Response \cup {None}]
      BY <1>1, <1>11, <2>1 DEF closeDrain, TypeOK
    <2>3. ready' \in Seq(Ids) /\ cmd_pending' \in Seq(Ids)
      <3>1. <<>> \in Seq(Ids)
        BY EmptySeq
      <3> QED
        BY <1>1, <1>11, <3>1, JoinSeq DEF closeDrain
    <2> QED
      BY <1>1, <1>11, <2>2, <2>3 DEF closeDrain, TypeOK, Domains, queueVars, taskVars
  <1> QED
    BY <1>2, <1>7, <1>8, <1>9, <1>10, <1>11

\* Every step keeps the types.
LEMMA NextTypes ==
    ASSUME EventInv, Next
    PROVE  TypeOK' /\ Domains'
  BY QueueTypes, WireTypes, ReconcileTypes, CommandTypes DEF Next

-----------------------------------------------------------------------------
(* Runs of requests and of answers. *)

\* A run is taken apart and put together.
LEMMA RunJoin ==
    ASSUME NEW u, NEW s, NEW t, Joined(u, s, t), NEW a \in Nat
    PROVE  IsRun(u, a) <=> IsRun(s, a) /\ IsRun(t, a + Len(s))
  <1>1. ASSUME IsRun(u, a) PROVE IsRun(s, a) /\ IsRun(t, a + Len(s))
    <2>1. \A i \in 1..Len(s) : i \in 1..Len(u)
      BY DEF Joined
    <2>2. \A i \in 1..Len(t) : Len(s) + i \in 1..Len(u)
      BY DEF Joined
    <2>3. IsRun(s, a)
      BY <1>1, <2>1 DEF Joined, IsRun
    <2>4. ASSUME NEW i \in 1..Len(t) PROVE t[i] = a + Len(s) + i - 1
      <3>1. t[i] = u[Len(s) + i] /\ Len(s) + i \in 1..Len(u)
        BY <2>2 DEF Joined
      <3>2. t[i] = a + (Len(s) + i) - 1
        BY <1>1, <3>1 DEF IsRun
      <3> QED
        BY <3>2 DEF Joined
    <2> QED
      BY <2>3, <2>4 DEF IsRun
  <1>2. ASSUME IsRun(s, a), IsRun(t, a + Len(s)), NEW k \in 1..Len(u)
        PROVE  u[k] = a + k - 1
    <2>1. CASE k \in 1..Len(s)
      BY <1>2, <2>1 DEF Joined, IsRun
    <2>2. ASSUME NEW i \in 1..Len(t), k = Len(s) + i
          PROVE  u[k] = a + k - 1
      BY <1>2, <2>2 DEF Joined, IsRun
    <2> QED
      BY <2>1, <2>2 DEF Joined
  <1> QED
    BY <1>1, <1>2 DEF IsRun

\* The same for answers.
LEMMA AnswersJoin ==
    ASSUME NEW u, NEW s, NEW t, Joined(u, s, t), NEW a \in Nat, NEW ans
    PROVE  AnswersTo(u, a, ans) <=> AnswersTo(s, a, ans) /\ AnswersTo(t, a + Len(s), ans)
  <1>1. ASSUME AnswersTo(u, a, ans) PROVE AnswersTo(s, a, ans) /\ AnswersTo(t, a + Len(s), ans)
    <2>1. \A i \in 1..Len(s) : i \in 1..Len(u)
      BY DEF Joined
    <2>2. \A i \in 1..Len(t) : Len(s) + i \in 1..Len(u)
      BY DEF Joined
    <2>3. AnswersTo(s, a, ans)
      BY <1>1, <2>1 DEF Joined, AnswersTo
    <2>4. ASSUME NEW i \in 1..Len(t)
          PROVE  a + Len(s) + i - 1 \in Req /\ t[i] \in ans[a + Len(s) + i - 1]
      <3>1. t[i] = u[Len(s) + i] /\ Len(s) + i \in 1..Len(u)
        BY <2>2 DEF Joined
      <3>2. a + (Len(s) + i) - 1 = a + Len(s) + i - 1
        BY DEF Joined
      <3> QED
        BY <1>1, <3>1, <3>2 DEF AnswersTo
    <2> QED
      BY <2>3, <2>4 DEF AnswersTo
  <1>2. ASSUME AnswersTo(s, a, ans), AnswersTo(t, a + Len(s), ans), NEW k \in 1..Len(u)
        PROVE  a + k - 1 \in Req /\ u[k] \in ans[a + k - 1]
    <2>1. CASE k \in 1..Len(s)
      BY <1>2, <2>1 DEF Joined, AnswersTo
    <2>2. ASSUME NEW i \in 1..Len(t), k = Len(s) + i
          PROVE  a + k - 1 \in Req /\ u[k] \in ans[a + k - 1]
      <3>1. a + Len(s) + i - 1 = a + k - 1 /\ u[k] = t[i]
        BY <2>2 DEF Joined
      <3> QED
        BY <1>2, <3>1 DEF AnswersTo
    <2> QED
      BY <2>1, <2>2 DEF Joined
  <1> QED
    BY <1>1, <1>2 DEF AnswersTo

\* Answers stay answers while more are given.
LEMMA AnswersMore ==
    ASSUME NEW s, NEW a, NEW A, NEW B, AnswersTo(s, a, A), \A r \in Req : A[r] \subseteq B[r]
    PROVE  AnswersTo(s, a, B)
  BY DEF AnswersTo

\* The empty sequence is any run.
LEMMA NoElements ==
    ASSUME NEW a, NEW ans
    PROVE  IsRun(<<>>, a) /\ AnswersTo(<<>>, a, ans) /\ Len(<<>>) = 0
  BY DEF IsRun, AnswersTo

-----------------------------------------------------------------------------
(* Answers. *)

\* An answer names its request; a command is answered by the main loop, any other
\* request by the server when it numbers it.
LEMMA AnswerValues ==
    ASSUME EventInv
    PROVE  /\ Received \in Nat
           /\ \A r \in Req : Answered[r] = Answers(r)
           /\ \A r \in Req : \A a \in Answers(r) : a \in Response /\ a.req = r
           /\ \A r \in Req : \A a, b \in Answers(r) : a = b
  <1>1. Received \in Nat
    BY LenProperties DEF EventInv, TypeOK, Received
  <1>2. \A r \in Req : Answered[r] = Answers(r)
    BY DEF Answered
  <1>3. ASSUME NEW r \in Req, NEW a \in Answers(r)
        PROVE  a \in Response /\ a.req = r
    <2>1. CASE Kind[r] # "command"
      BY <1>3, <2>1, ResponseValues DEF Answers
    <2>2. CASE Kind[r] = "command"
      <3>1. a = reply[r] /\ reply[r] # None
        BY <1>3, <2>2 DEF Answers
      <3> QED
        BY <3>1, EventConstants DEF EventInv, TypeOK, CommandsInv
    <2> QED
      BY <2>1, <2>2
  <1>4. \A r \in Req : \A a, b \in Answers(r) : a = b
    BY DEF Answers
  <1> QED
    BY <1>1, <1>2, <1>3, <1>4

\* What is answered stays answered, and what is numbered stays numbered.
LEMMA AnswersGrow ==
    ASSUME EventInv, Next
    PROVE  /\ Received <= Received' /\ Received' \in Nat
           /\ \A i \in Ids : reply[i] # None => reply'[i] = reply[i]
           /\ \A r \in Req : Answers(r) \subseteq Answers(r)'
           /\ \A r \in Req : Answered[r] \subseteq Answered'[r]
  <1>1. Received \in Nat /\ TypeOK
    BY AnswerValues DEF EventInv
  <1>2. Received <= Received' /\ Received' \in Nat
    <2>1. CASE recvd' = recvd
      BY <1>1, <2>1 DEF Received
    <2>2. CASE ServerReconcile /\ msgs[Server] # <<>>
      <3>1. recvd' = recvd \o msgs[Server]
        BY <2>2 DEF ServerReconcile, on_msg
      <3>2. recvd \in Seq(Req) /\ msgs[Server] \in Seq(Req)
        BY <2>2, NewRequests DEF EventInv, TypeOK
      <3>3. Joined(recvd', recvd, msgs[Server])
        BY <3>1, <3>2, JoinSeq
      <3> QED
        BY <1>1, <3>3 DEF Joined, Received
    <2>3. recvd' = recvd \/ (ServerReconcile /\ msgs[Server] # <<>>)
      BY DEF Next, queue, PollReady, GiveUp, ClientReconcile, ClientWake, ClientEnd, Flush, Receive,
         ServerReconcile, drain_next_response, ServerEnd, SleepIdle, SleepStart, SleepYield, pop,
         closeDrain, respond, serverVars
    <2> QED
      BY <2>1, <2>2, <2>3
  <1>3. ASSUME NEW i \in Ids, reply[i] # None
        PROVE  reply'[i] = reply[i]
    <2>1. CASE reply' = reply
      BY <2>1
    <2>2. CASE SleepYield
      <3> DEFINE id == Head(ready)
      <3>1. reply' = [reply EXCEPT ![id] = IF id \in started THEN reply[id] ELSE Gone(id)]
        BY <2>2 DEF SleepYield
      <3>2. i \in started
        BY <1>3 DEF EventInv, CommandsInv
      <3> HIDE DEF id
      <3> QED
        BY <1>1, <3>1, <3>2 DEF TypeOK
    <2>3. ASSUME NEW id \in Ids, respond(id)
          PROVE  reply'[i] = reply[i]
      <3>1. reply[id] = None
        BY <2>3 DEF respond, EventInv, CommandsInv
      <3> QED
        BY <1>1, <1>3, <2>3, <3>1 DEF respond, TypeOK
    <2>4. CASE closeDrain
      <3>1. \A j \in 1..Len(cmd_pending) : reply[cmd_pending[j]] = None
        BY DEF EventInv, CommandsInv
      <3> QED
        BY <1>3, <2>4, <3>1 DEF closeDrain
    <2>5. reply' = reply \/ SleepYield \/ closeDrain \/ \E id \in Ids : respond(id)
      BY DEF Next, queue, PollReady, GiveUp, ClientReconcile, ClientWake, ClientEnd, Flush, Receive,
         ServerReconcile, ServerEnd, SleepIdle, SleepStart, pop, commandVars
    <2> QED
      BY <2>1, <2>2, <2>3, <2>4, <2>5
  <1>4. ASSUME NEW r \in Req
        PROVE  Answers(r) \subseteq Answers(r)'
    <2>1. CASE Kind[r] # "command"
      BY <1>1, <1>2, <2>1, EventConstants DEF Answers
    <2>2. CASE Kind[r] = "command"
      BY <1>3, <2>2, EventConstants DEF Answers
    <2> QED
      BY <2>1, <2>2
  <1>5. \A r \in Req : Answered[r] \subseteq Answered'[r]
    BY <1>4 DEF Answered
  <1> QED
    BY <1>2, <1>3, <1>4, <1>5

-----------------------------------------------------------------------------
(* The requests on their way to the server. *)

\* One more request at the end of a run.
LEMMA RunAppend ==
    ASSUME NEW u, NEW s, NEW a \in Nat, Appended(u, s, a + Len(s)), IsRun(s, a)
    PROVE  IsRun(u, a)
  <1> SUFFICES ASSUME NEW k \in 1..Len(u) PROVE u[k] = a + k - 1
    BY DEF IsRun
  <1>1. CASE k \in 1..Len(s)
    BY <1>1 DEF Appended, IsRun
  <1>2. CASE k = Len(s) + 1
    BY <1>2 DEF Appended
  <1> QED
    BY <1>1, <1>2 DEF Appended

\* The lengths in RequestsInv.
LEMMA RequestLengths ==
    ASSUME EventInv
    PROVE  /\ Received \in Nat /\ next_cseq \in Nat
           /\ Len(msgs[Server]) \in Nat /\ Len(wire[Server]) \in Nat
           /\ Len(composites[Client]) \in Nat /\ Len(pending_send) \in Nat
           /\ recvd \in Seq(Req) /\ msgs[Server] \in Seq(Req) /\ wire[Server] \in Seq(Req)
           /\ composites[Client] \in Seq(Req) /\ pending_send \in Seq(Req)
  <1>1. /\ recvd \in Seq(Req) /\ msgs[Server] \in Seq(Req) /\ wire[Server] \in Seq(Req)
        /\ composites[Client] \in Seq(Req) /\ pending_send \in Seq(Req) /\ next_cseq \in 0..MaxReq
    BY FrameTypes DEF EventInv, TypeOK, FramesOK
  <1>2. next_cseq \in Nat
    BY <1>1, EventConstants
  <1>3. Received \in Nat
    BY <1>1, LenProperties DEF Received
  <1> QED
    BY <1>1, <1>2, <1>3, LenProperties

\* Steps that leave the requests where they are.
LEMMA RequestsStay ==
    ASSUME EventInv,
           UNCHANGED <<recvd, pending_send, next_cseq, closed>>,
           msgs'[Server] = msgs[Server], wire'[Server] = wire[Server],
           composites'[Client] = composites[Client],
           phase'[Server] # "eof" => phase[Server] # "eof"
    PROVE  RequestsInv'
  <1>1. RequestsInv
    BY DEF EventInv
  <1>2. /\ Received' = Received /\ WireStart' = WireStart
        /\ CompositesStart' = CompositesStart /\ PendingStart' = PendingStart
    BY DEF Received, WireStart, CompositesStart, PendingStart
  <1> QED
    BY <1>1, <1>2 DEF RequestsInv

\* Every step keeps the requests in runs.
LEMMA RequestsStep ==
    ASSUME EventInv, Next
    PROVE  RequestsInv'
  <1> USE Ends2, RequestLengths
  <1>1. RequestsInv /\ Domains
    BY DEF EventInv
  <1>2. ASSUME NEW r \in Req, queue(r)
        PROVE  RequestsInv'
    <2>1. /\ r = next_cseq /\ next_cseq' = next_cseq + 1
          /\ UNCHANGED <<closed, recvd, msgs, wire, composites, phase>>
      BY <1>2 DEF queue, taskVars, serverVars
    <2>2. /\ Received' = Received /\ WireStart' = WireStart
          /\ CompositesStart' = CompositesStart /\ PendingStart' = PendingStart
      BY ONLY <2>1 DEF Received, WireStart, CompositesStart, PendingStart
    <2>3. PendingStart \in Nat
      <3> PICK a \in Nat, b \in Nat, c \in Nat, d \in Nat :
             a = Received /\ b = Len(msgs[Server]) /\ c = Len(wire[Server]) /\ d = Len(composites[Client])
        OBVIOUS
      <3>1. PendingStart = ((a + b) + c) + d
        BY DEF WireStart, CompositesStart, PendingStart
      <3> QED
        BY ONLY <3>1, a \in Nat, b \in Nat, c \in Nat, d \in Nat
    <2>4. CASE closed
      BY <1>1, <2>1, <2>2, <2>3, <2>4 DEF RequestsInv
    <2>5. CASE ~closed
      <3>1. Appended(pending_send', pending_send, r)
        BY <1>2, <2>5, AppendSeq DEF queue
      <3>2. Len(pending_send') = Len(pending_send) + 1
        BY <3>1 DEF Appended
      <3>3. ASSUME phase[Server] # "eof"
            PROVE  /\ IsRun(pending_send', PendingStart)
                   /\ PendingStart + Len(pending_send') = next_cseq'
        <4>1. IsRun(pending_send, PendingStart) /\ PendingStart + Len(pending_send) = next_cseq
          BY <1>1, <2>5, <3>3 DEF RequestsInv
        <4>2. IsRun(pending_send', PendingStart)
          BY <2>1, <2>3, <3>1, <4>1, RunAppend
        <4> QED
          BY <2>1, <2>3, <3>2, <4>1, <4>2
      <3> QED
        BY <1>1, <2>1, <2>2, <2>3, <3>3 DEF RequestsInv
    <2> QED
      BY <2>4, <2>5
  <1>3. ASSUME NEW r \in Req, PollReady(r) \/ GiveUp(r)
        PROVE  RequestsInv'
    BY <1>3, RequestsStay DEF PollReady, GiveUp, taskVars, serverVars
  <1>4. CASE ClientReconcile
    <2> DEFINE c == composites[Client]
    <2>1. /\ composites'[Client] = c \o pending_send /\ pending_send' = <<>>
          /\ UNCHANGED <<next_cseq, closed, recvd, wire>>
          /\ msgs'[Server] = msgs[Server] /\ phase'[Server] = phase[Server]
          /\ ~closed
      BY <1>1, <1>4 DEF ClientReconcile, Domains, serverVars, EventInv, TypeOK
    <2>2. Joined(composites'[Client], c, pending_send)
      BY <2>1, JoinSeq
    <2>3. CompositesStart \in Nat /\ PendingStart = CompositesStart + Len(c)
      BY DEF WireStart, CompositesStart, PendingStart
    <2>4. /\ Received' = Received /\ WireStart' = WireStart /\ CompositesStart' = CompositesStart
          /\ PendingStart' = PendingStart + Len(pending_send)
      <3>1. Received' = Received
        BY <2>1 DEF Received
      <3>2. WireStart' = WireStart
        BY <2>1, <3>1 DEF WireStart
      <3>3. CompositesStart' = CompositesStart
        BY <2>1, <3>2 DEF CompositesStart
      <3>4. Len(composites'[Client]) = Len(c) + Len(pending_send)
        BY <2>2 DEF Joined
      <3>5. PendingStart' = CompositesStart + (Len(c) + Len(pending_send))
        BY <3>3, <3>4 DEF PendingStart
      <3> HIDE DEF c
      <3>6. Len(c) \in Nat
        BY RequestLengths DEF c
      <3> QED
        BY <2>3, <3>1, <3>2, <3>3, <3>5, <3>6
    <2>5. ASSUME phase[Server] # "eof"
          PROVE  /\ IsRun(composites'[Client], CompositesStart)
                 /\ PendingStart' = next_cseq
      BY <1>1, <2>1, <2>2, <2>4, <2>3, <2>5, RunJoin DEF RequestsInv
    <2>6. IsRun(pending_send', PendingStart') /\ Len(pending_send') = 0
      BY <2>1, NoElements
    <2> QED
      BY <1>1, <2>1, <2>4, <2>5, <2>6 DEF RequestsInv
  <1>5. CASE ClientWake
    BY <1>5, RequestsStay DEF ClientWake, serverVars
  <1>6. CASE Flush(Client) \/ ClientEnd
    <2> DEFINE w == wire[Server]
               c == composites[Client]
    <2>1. PICK n \in 0..Len(c) :
            /\ wire'[Server] = w \o SubSeq(c, 1, n)
            /\ ClientEnd => composites'[Client] = <<>> /\ closed'
            /\ ~ClientEnd => composites'[Client] = SubSeq(c, n + 1, Len(c)) /\ closed' = closed
      <3>1. CASE ClientEnd
        BY <1>1, <3>1 DEF ClientEnd, Finish, close, Domains
      <3>2. CASE Flush(Client) /\ ~ClientEnd
        <4>1. PICK n \in 1..Len(c) :
                /\ wire' = [wire EXCEPT ![Server] = @ \o SubSeq(c, 1, n)]
                /\ composites' = [composites EXCEPT ![Client] = Drop1(@, n)]
          BY <3>2 DEF Flush
        <4>2. n \in 0..Len(c) /\ closed' = closed
          BY <3>2 DEF Flush, queueVars
        <4>3. wire'[Server] = w \o SubSeq(c, 1, n) /\ composites'[Client] = SubSeq(c, n + 1, Len(c))
          BY <1>1, <4>1 DEF Drop1, Domains
        <4> QED
          BY <3>2, <4>2, <4>3
      <3> QED
        BY <1>6, <3>1, <3>2
    <2> DEFINE h == SubSeq(c, 1, n)
               t == SubSeq(c, n + 1, Len(c))
    <2>2. /\ UNCHANGED <<next_cseq, pending_send, recvd>>
          /\ msgs'[Server] = msgs[Server] /\ phase'[Server] = phase[Server]
      BY <1>1, <1>6 DEF Flush, ClientEnd, Finish, Domains, queueVars, serverVars, EventInv, TypeOK
    <2>3. /\ h \in Seq(Req) /\ Len(h) = n /\ Joined(c, h, t) /\ Joined(wire'[Server], w, h)
          /\ Len(t) \in Nat /\ n \in Nat
      <3>1. h \in Seq(Req) /\ t \in Seq(Req) /\ Len(h) = n /\ Joined(c, h, t)
        BY SplitSeq
      <3>2. Joined(w \o h, w, h)
        BY <3>1, JoinSeq
      <3>3. wire'[Server] = w \o h
        BY <2>1
      <3>4. Len(t) \in Nat
        BY ONLY <3>1, LenProperties
      <3>5. n \in Nat
        BY LenProperties
      <3> QED
        BY ONLY <3>1, <3>2, <3>3, <3>4, <3>5
    <2> HIDE DEF h, t, w, c
    <2>4. Len(c) = n + Len(t) /\ Len(wire'[Server]) = Len(w) + n
      BY <2>3 DEF Joined
    <2>5. /\ Received' = Received /\ WireStart' = WireStart /\ WireStart \in Nat
          /\ CompositesStart = WireStart + Len(w) /\ CompositesStart \in Nat
          /\ CompositesStart' = CompositesStart + n
      <3>1. Received' = Received
        BY <2>2 DEF Received
      <3>2. WireStart' = WireStart
        BY <2>2, <3>1 DEF WireStart
      <3>3. WireStart \in Nat /\ Len(w) \in Nat
        BY DEF WireStart, w
      <3>4. CompositesStart = WireStart + Len(w)
        BY DEF CompositesStart, w
      <3>5. CompositesStart' = WireStart + (Len(w) + n)
        BY <2>4, <3>2 DEF CompositesStart
      <3>6. n \in Nat
        BY <2>3
      <3> QED
        BY ONLY <3>1, <3>2, <3>3, <3>4, <3>5, <3>6
    <2>6. ASSUME phase[Server] # "eof"
          PROVE  /\ IsRun(wire'[Server], WireStart)
                 /\ IsRun(t, CompositesStart + n)
      <3>1. IsRun(w, WireStart) /\ IsRun(c, CompositesStart)
        BY <1>1, <2>6 DEF RequestsInv, w, c
      <3>2. IsRun(h, CompositesStart) /\ IsRun(t, CompositesStart + n)
        BY <2>3, <2>5, <3>1, RunJoin
      <3> QED
        BY <2>3, <2>5, <3>1, <3>2, RunJoin
    <2>7. CASE ClientEnd
      <3>1. PendingStart' = CompositesStart + n /\ PendingStart = CompositesStart + n + Len(t)
        <4>1. PendingStart = CompositesStart + Len(c)
          BY DEF PendingStart, c
        <4>2. Len(composites'[Client]) = 0
          BY <2>1, <2>7, NoElements
        <4>3. PendingStart' = CompositesStart' + 0
          BY <4>2 DEF PendingStart
        <4> QED
          BY <2>3, <2>4, <2>5, <4>1, <4>3
      <3>2. IsRun(composites'[Client], CompositesStart') /\ closed'
        BY <2>1, <2>7, NoElements
      <3>3. PendingStart <= next_cseq => PendingStart' <= next_cseq
        BY <2>3, <2>5, <3>1
      <3> QED
        BY <1>1, <2>2, <2>5, <2>6, <3>2, <3>3 DEF RequestsInv
    <2>8. CASE ~ClientEnd
      <3>1. composites'[Client] = t /\ closed' = closed
        BY <2>1, <2>8 DEF t
      <3>2. PendingStart' = PendingStart
        BY <2>3, <2>4, <2>5, <3>1 DEF PendingStart, c
      <3> QED
        BY <1>1, <2>2, <2>5, <2>6, <3>1, <3>2 DEF RequestsInv
    <2> QED
      BY <2>7, <2>8
  <1>7. CASE Flush(Server) \/ Receive(Client)
    <2>1. /\ UNCHANGED <<recvd, pending_send, next_cseq, closed>>
          /\ msgs'[Server] = msgs[Server] /\ wire'[Server] = wire[Server]
          /\ composites'[Client] = composites[Client]
          /\ phase[Server] # "eof" \/ phase' [Server] = phase[Server]
      <3>1. CASE Flush(Server)
        BY <1>1, <3>1 DEF Flush, Domains, queueVars, serverVars
      <3>2. CASE Receive(Client)
        BY <1>1, <3>2 DEF Receive, Domains, queueVars, serverVars, EventInv, TypeOK
      <3> QED
        BY <1>7, <3>1, <3>2
    <2> QED
      BY <2>1, RequestsStay
  <1>8. CASE Receive(Server)
    <2> DEFINE w == wire[Server]
    <2>1. PICK n \in 1..Len(w) :
            /\ msgs' = [msgs EXCEPT ![Server] = SubSeq(w, 1, n)]
            /\ wire' = [wire EXCEPT ![Server] = Drop1(@, n)]
      BY <1>8 DEF Receive
    <2> DEFINE h == SubSeq(w, 1, n)
               t == SubSeq(w, n + 1, Len(w))
    <2>2. /\ UNCHANGED <<next_cseq, pending_send, recvd, composites, closed>>
          /\ phase[Server] = "sleep" /\ msgs[Server] = <<>>
          /\ msgs'[Server] = h /\ wire'[Server] = t
      BY <1>1, <1>8, <2>1 DEF Receive, Domains, Drop1, queueVars, serverVars
    <2>3. Len(h) = n /\ Joined(w, h, t) /\ Len(t) \in Nat /\ n \in Nat
      BY SplitSeq, LenProperties
    <2> HIDE DEF h, t, w
    <2>4. /\ IsRun(w, Received) /\ Len(msgs[Server]) = 0
      BY <1>1, <2>2, NoElements DEF RequestsInv, WireStart, w
    <2>5. IsRun(h, Received) /\ IsRun(t, Received + n)
      BY <2>3, <2>4, RunJoin
    <2>6. Len(w) = n + Len(t)
      BY <2>3 DEF Joined
    <2>7. /\ Received' = Received /\ WireStart' = Received + n
          /\ CompositesStart' = CompositesStart /\ PendingStart' = PendingStart
      <3>1. Received' = Received
        BY <2>2 DEF Received
      <3>2. WireStart' = Received + n
        BY <2>2, <2>3, <3>1 DEF WireStart
      <3>3. CompositesStart' = (Received + n) + Len(t)
        BY <2>2, <3>2 DEF CompositesStart
      <3>4. CompositesStart = (Received + 0) + Len(w)
        BY <2>4 DEF CompositesStart, WireStart, w
      <3>5. CompositesStart' = CompositesStart
        BY <2>3, <2>6, <3>3, <3>4
      <3>6. PendingStart' = PendingStart
        BY <2>2, <3>5 DEF PendingStart
      <3> QED
        BY <3>1, <3>2, <3>5, <3>6
    <2> QED
      BY <1>1, <2>2, <2>5, <2>7 DEF RequestsInv
  <1>9. CASE ServerEnd
    BY <1>1, <1>9 DEF ServerEnd, Finish, RequestsInv, Received, EventInv, TypeOK, queueVars, serverVars
  <1>10. CASE ServerReconcile
    <2>1. /\ recvd' = recvd \o msgs[Server] /\ msgs'[Server] = <<>>
          /\ UNCHANGED <<pending_send, next_cseq, closed, wire>>
          /\ composites'[Client] = composites[Client] /\ phase[Server] # "eof"
      <3>1. CASE msgs[Server] = <<>>
        <4>1. recvd \o msgs[Server] = recvd
          BY <3>1, ConcatEmptySeq
        <4> QED
          BY <1>1, <1>10, <3>1, <4>1 DEF ServerReconcile, drain_next_response, Domains, queueVars
      <3>2. CASE msgs[Server] # <<>>
        BY <1>1, <1>10, <3>2 DEF ServerReconcile, on_msg, Domains, queueVars
      <3> QED
        BY <3>1, <3>2
    <2>2. Joined(recvd', recvd, msgs[Server])
      BY <2>1, JoinSeq
    <2>3. /\ Received' = Received + Len(msgs[Server]) /\ WireStart' = WireStart
          /\ CompositesStart' = CompositesStart /\ PendingStart' = PendingStart
      BY <2>1, <2>2, NoElements DEF Received, WireStart, CompositesStart, PendingStart, Joined
    <2>4. IsRun(recvd', 0)
      <3>1. IsRun(recvd, 0) /\ IsRun(msgs[Server], 0 + Len(recvd))
        BY <1>1, <2>1 DEF RequestsInv, Received
      <3> QED
        BY <2>2, <3>1, RunJoin
    <2>5. Received' <= next_cseq' /\ IsRun(msgs'[Server], Received')
      BY <1>10, <2>1, <2>3, NewRequests, NoElements
    <2> QED
      BY <1>1, <2>1, <2>3, <2>4, <2>5 DEF RequestsInv
  <1>11. CASE SleepIdle \/ SleepStart \/ SleepYield
    BY <1>11, RequestsStay DEF SleepIdle, SleepStart, SleepYield, ServerSleeping, queueVars, taskVars, serverVars
  <1>12. CASE pop \/ closeDrain \/ \E id \in Ids : respond(id)
    BY <1>12, RequestsStay DEF pop, closeDrain, respond, queueVars, taskVars, serverVars
  <1> QED
    BY <1>2, <1>3, <1>4, <1>5, <1>6, <1>7, <1>8, <1>9, <1>10, <1>11, <1>12 DEF Next

-----------------------------------------------------------------------------
(* The callers and their slots. *)

\* The numbers in CallsInv.
LEMMA SlotNumbers ==
    ASSUME EventInv
    PROVE  /\ next_cseq \in Nat /\ next_cseq <= MaxReq /\ Len(fifo) \in Nat
           /\ Fed \in Nat /\ Fed + Len(fifo) = next_cseq
           /\ \A i \in 1..Len(fifo) :
                /\ Fed + i - 1 \in Req /\ fifo[i].cseq = Fed + i - 1
                /\ fifo[i] \in [cseq : Req, sender : BOOLEAN]
  <1>1. next_cseq \in Nat /\ next_cseq <= MaxReq /\ Len(fifo) \in Nat
    BY EventConstants, LenProperties DEF EventInv, TypeOK
  <1>2. Fed \in Nat /\ Fed + Len(fifo) = next_cseq
    BY <1>1 DEF EventInv, CallsInv, Fed
  <1>3. \A i \in 1..Len(fifo) : Fed + i - 1 \in Nat /\ Fed + i - 1 < next_cseq
    BY <1>1, <1>2
  <1>4. \A i \in 1..Len(fifo) : Fed + i - 1 \in Req
    BY <1>1, <1>3, EventConstants DEF Req
  <1>5. \A i \in 1..Len(fifo) : fifo[i].cseq = Fed + i - 1 /\ fifo[i] \in [cseq : Req, sender : BOOLEAN]
    BY ElementOfSeq DEF EventInv, CallsInv, TypeOK
  <1> QED
    BY <1>1, <1>2, <1>4, <1>5

\* What feed() is given answers the first slots, and there are enough of them.
LEMMA FedInOrder ==
    ASSUME EventInv, ~closed
    PROVE  /\ Len(msgs[Client]) \in Nat /\ Len(wire[Client]) \in Nat
           /\ Len(composites[Server]) \in Nat
           /\ msgs[Client] \in Seq(Response) /\ wire[Client] \in Seq(Response)
           /\ composites[Server] \in Seq(Response)
           /\ UnflushedStart = Fed + Len(msgs[Client]) + Len(wire[Client])
           /\ Fed + Len(msgs[Client]) + Len(wire[Client]) <= next_cseq
           /\ Len(msgs[Client]) <= Len(fifo)
           /\ \A i \in 1..Len(msgs[Client]) : msgs[Client][i] \in Answers(Fed + i - 1)
  <1>1. /\ msgs[Client] \in Seq(Response) /\ wire[Client] \in Seq(Response)
        /\ composites[Server] \in Seq(Response)
    BY FrameTypes DEF EventInv, TypeOK, FramesOK
  <1>2. /\ Len(msgs[Client]) \in Nat /\ Len(wire[Client]) \in Nat /\ Len(composites[Server]) \in Nat
    BY <1>1, LenProperties
  <1>3. UnflushedStart = Fed + Len(msgs[Client]) + Len(wire[Client])
    BY DEF UnflushedStart, AnswersStart
  <1>4. /\ UnflushedStart <= next_send /\ next_send <= Received /\ Received <= next_cseq
        /\ AnswersTo(msgs[Client], Fed, Answered)
    BY DEF EventInv, ResponsesInv, RequestsInv
  <1>5. next_send \in Nat /\ Received \in Nat
    BY AnswerValues, EventConstants DEF EventInv, TypeOK
  <1> DEFINE a == Len(msgs[Client])
             b == Len(wire[Client])
  <1>6. a \in Nat /\ b \in Nat /\ UnflushedStart = Fed + a + b
    BY <1>2, <1>3
  <1> HIDE DEF a, b
  <1>7. Fed + a + b <= next_cseq
    BY <1>4, <1>5, <1>6, SlotNumbers
  <1>8. a <= Len(fifo)
    BY <1>6, <1>7, SlotNumbers
  <1>9. \A i \in 1..a : msgs[Client][i] \in Answers(Fed + i - 1)
    BY <1>4, AnswerValues DEF AnswersTo, a
  <1> QED
    BY <1>1, <1>2, <1>3, <1>7, <1>8, <1>9 DEF a, b

\* Steps that leave the callers where they are.
LEMMA CallsStay ==
    ASSUME EventInv, Next, UNCHANGED <<fifo, next_cseq, closed, call, oneshot>>
    PROVE  CallsInv'
  <1>1. CallsInv
    BY DEF EventInv
  <1>2. \A r \in Req : Answers(r) \subseteq Answers(r)'
    BY AnswersGrow
  <1>3. Fed' = Fed
    BY DEF Fed
  <1> QED
    BY <1>1, <1>2, <1>3 DEF CallsInv

\* A new request.
LEMMA QueueCalls ==
    ASSUME EventInv, Next, NEW r \in Req, queue(r)
    PROVE  CallsInv'
  <1> USE SlotNumbers
  <1>1. /\ CallsInv /\ call \in [Req -> CallState]
        /\ oneshot \in [Req -> Response \cup {None, Closed}]
    BY DEF EventInv, TypeOK
  <1>2. /\ r = next_cseq /\ next_cseq' = next_cseq + 1 /\ closed' = closed
        /\ call' = [call EXCEPT ![r] = "waiting"] /\ r \in Nat
    BY <1>1 DEF queue
  <1>3. \A q \in Req : q \in Nat /\ Answers(q) \subseteq Answers(q)'
    BY AnswersGrow, EventConstants
  <1>4. oneshot[r] = None
    BY <1>1, <1>2 DEF CallsInv
  <1>5. CASE closed
    <2>1. /\ fifo = <<>> /\ fifo' = fifo /\ Len(fifo) = 0 /\ Fed = next_cseq /\ Fed' = next_cseq + 1
          /\ oneshot' = [oneshot EXCEPT ![r] = Closed]
      BY <1>1, <1>2, <1>5 DEF queue, CallsInv, Fed
    <2>2. ASSUME NEW q \in Req
          PROVE  /\ call'[q] = "idle" <=> q >= next_cseq'
                 /\ q >= next_cseq' => oneshot'[q] = None
                 /\ call'[q] = "waiting" /\ q < Fed' => oneshot'[q] # None
                 /\ oneshot'[q] \in Answers(q)' \cup {None, Closed}
                 /\ call'[q] = "answered" => oneshot'[q] \in Answers(q)'
      <3>1. CASE q = r
        BY <1>1, <1>2, <2>1, <3>1, ResponseValues
      <3>2. CASE q # r
        <4>1. call'[q] = call[q] /\ oneshot'[q] = oneshot[q]
          BY <1>1, <1>2, <2>1, <3>2
        <4>2. q >= next_cseq' <=> q >= next_cseq
          BY <1>2, <1>3, <3>2
        <4>3. q < Fed' => q >= next_cseq \/ q < Fed
          BY <1>2, <1>3, <2>1
        <4> QED
          BY <1>1, <1>3, <4>1, <4>2, <4>3 DEF CallsInv
      <3> QED
        BY <3>1, <3>2
    <2> QED
      BY <1>2, <1>5, <2>1, <2>2 DEF CallsInv
  <1>6. CASE ~closed
    <2> DEFINE e == [cseq |-> r, sender |-> TRUE]
    <2>1. Appended(fifo', fifo, e) /\ oneshot' = oneshot
      <3>1. fifo \in Seq([cseq : Req, sender : BOOLEAN]) /\ e \in [cseq : Req, sender : BOOLEAN]
        BY DEF EventInv, TypeOK
      <3>2. Appended(Append(fifo, e), fifo, e)
        BY <3>1, AppendSeq
      <3> QED
        BY <1>6, <3>2 DEF queue
    <2>2. Len(fifo') = Len(fifo) + 1 /\ Fed' = Fed
      <3>1. Len(fifo') = Len(fifo) + 1
        BY <2>1 DEF Appended
      <3>2. Fed' = (next_cseq + 1) - (Len(fifo) + 1)
        BY <1>2, <3>1 DEF Fed
      <3> QED
        BY <3>1, <3>2
    <2>3. ASSUME NEW i \in 1..Len(fifo')
          PROVE  /\ fifo'[i].cseq = Fed + i - 1
                 /\ fifo'[i].sender <=> call'[Fed + i - 1] = "waiting"
                 /\ oneshot'[Fed + i - 1] = None
      <3>1. CASE i \in 1..Len(fifo)
        <4>1. fifo'[i] = fifo[i] /\ Fed + i - 1 # r /\ Fed + i - 1 \in Req
          BY <1>2, <2>1, <3>1 DEF Appended
        <4>2. call'[Fed + i - 1] = call[Fed + i - 1]
          BY <1>1, <1>2, <4>1
        <4> QED
          BY <1>1, <2>1, <3>1, <4>1, <4>2 DEF CallsInv
      <3>2. CASE i = Len(fifo) + 1
        <4>1. fifo'[i] = e /\ Fed + i - 1 = r
          BY <1>2, <2>1, <3>2 DEF Appended
        <4> QED
          BY <1>1, <1>2, <1>4, <2>1, <4>1
      <3> QED
        BY <2>1, <3>1, <3>2 DEF Appended
    <2>4. ASSUME NEW q \in Req
          PROVE  /\ call'[q] = "idle" <=> q >= next_cseq'
                 /\ q >= next_cseq' => oneshot'[q] = None
                 /\ call'[q] = "waiting" /\ q < Fed => oneshot'[q] # None
                 /\ oneshot'[q] \in Answers(q)' \cup {None, Closed}
                 /\ call'[q] = "answered" => oneshot'[q] \in Answers(q)'
      <3>1. CASE q = r
        <4>1. call'[q] = "waiting" /\ q < next_cseq' /\ ~(q < Fed) /\ ~(q >= next_cseq')
          BY <1>1, <1>2, <3>1
        <4> QED
          BY <1>4, <2>1, <3>1, <4>1
      <3>2. CASE q # r
        <4>1. call'[q] = call[q] /\ oneshot'[q] = oneshot[q]
          BY <1>1, <1>2, <2>1, <3>2
        <4>2. q >= next_cseq' <=> q >= next_cseq
          BY <1>2, <1>3, <3>2
        <4> QED
          BY <1>1, <1>3, <4>1, <4>2 DEF CallsInv
      <3> QED
        BY <3>1, <3>2
    <2>5. Len(fifo') <= next_cseq'
      BY <1>2, <2>2
    <2> QED
      BY <1>2, <1>6, <2>2, <2>3, <2>4, <2>5 DEF CallsInv
  <1> QED
    BY <1>5, <1>6

\* A future that is gone.
LEMMA DropCalls ==
    ASSUME EventInv, Next, NEW r \in Req, PollReady(r) \/ GiveUp(r)
    PROVE  CallsInv'
  <1> USE SlotNumbers
  <1>1. /\ CallsInv /\ call \in [Req -> CallState]
        /\ oneshot \in [Req -> Response \cup {None, Closed}]
    BY DEF EventInv, TypeOK
  <1>2. /\ UNCHANGED <<next_cseq, closed, oneshot>>
        /\ fifo' = DropFuture(fifo, r) /\ call[r] = "waiting"
    BY DEF PollReady, GiveUp
  <1>3. PICK s \in {"closed", "answered", "gaveup"} :
          /\ call' = [call EXCEPT ![r] = s]
          /\ s = "answered" => oneshot[r] # None /\ oneshot[r] # Closed
    BY DEF PollReady, GiveUp
  <1>4. Len(fifo') = Len(fifo) /\ Fed' = Fed
    <2>1. DOMAIN fifo' = 1..Len(fifo)
      BY <1>2 DEF DropFuture
    <2>2. fifo' \in Seq([cseq : Req, sender : BOOLEAN])
      BY QueueTypes DEF TypeOK
    <2>3. Len(fifo') = Len(fifo)
      BY <2>1, <2>2, LenProperties
    <2> QED
      BY <1>2, <2>3 DEF Fed
  <1>5. ASSUME NEW i \in 1..Len(fifo)
        PROVE  /\ fifo'[i].cseq = Fed + i - 1
               /\ fifo'[i].sender <=> call'[Fed + i - 1] = "waiting"
    <2>1. fifo'[i] = IF fifo[i].cseq = r THEN [fifo[i] EXCEPT !.sender = FALSE] ELSE fifo[i]
      BY <1>2 DEF DropFuture
    <2>2. CASE fifo[i].cseq = r
      BY <1>1, <1>3, <2>1, <2>2
    <2>3. CASE fifo[i].cseq # r
      BY <1>1, <1>3, <2>1, <2>3 DEF CallsInv
    <2> QED
      BY <2>2, <2>3
  <1>6. \A q \in Req : Answers(q) \subseteq Answers(q)'
    BY AnswersGrow
  <1>7. ASSUME NEW q \in Req
        PROVE  /\ call'[q] = "idle" <=> q >= next_cseq
               /\ call'[q] = "waiting" /\ q < Fed => oneshot[q] # None
               /\ oneshot[q] \in Answers(q)' \cup {None, Closed}
               /\ call'[q] = "answered" => oneshot[q] \in Answers(q)'
    <2>1. CASE q = r
      <3>1. call'[q] = s
        BY <1>1, <1>3, <2>1
      <3> QED
        BY <1>1, <1>2, <1>3, <1>6, <2>1, <3>1 DEF CallsInv
    <2>2. CASE q # r
      <3>1. call'[q] = call[q]
        BY <1>1, <1>3, <2>2
      <3> QED
        BY <1>1, <1>6, <3>1 DEF CallsInv
    <2> QED
      BY <2>1, <2>2
  <1>8. closed => fifo' = <<>>
    <2>1. closed => fifo = <<>>
      BY <1>1 DEF CallsInv
    <2>2. fifo' \in Seq([cseq : Req, sender : BOOLEAN])
      BY QueueTypes DEF TypeOK
    <2>3. Len(<<>>) = 0 /\ (fifo' # <<>> => Len(fifo') \in Nat \ {0})
      BY ONLY <2>2, EmptySeq
    <2>4. Len(fifo') = Len(fifo)
      BY <1>4
    <2> QED
      BY ONLY <2>1, <2>3, <2>4
  <1> QED
    BY <1>1, <1>2, <1>4, <1>5, <1>7, <1>8 DEF CallsInv

\* Answers for the first slots.
LEMMA FeedCalls ==
    ASSUME EventInv, Next, ClientReconcile
    PROVE  CallsInv'
  <1> USE SlotNumbers
  <1> DEFINE m == msgs[Client]
             n == Len(m)
             t == SubSeq(fifo, n + 1, Len(fifo))
  <1>1. /\ CallsInv /\ call \in [Req -> CallState] /\ ~closed
        /\ oneshot \in [Req -> Response \cup {None, Closed}]
        /\ fifo \in Seq([cseq : Req, sender : BOOLEAN])
    BY DEF EventInv, TypeOK, Domains, ClientReconcile
  <1>2. n \in Nat /\ n <= Len(fifo) /\ \A i \in 1..n : m[i] \in Answers(Fed + i - 1)
    BY <1>1, FedInOrder
  <1>3. /\ UNCHANGED <<next_cseq, closed, call>> /\ fifo' = t
        /\ oneshot' = [q \in Req |-> IF FedTo(m, q) = {} THEN oneshot[q]
                                     ELSE m[CHOOSE i \in FedTo(m, q) : TRUE]]
    <2>1. (IF Len(m) < Len(fifo) THEN Len(m) ELSE Len(fifo)) = n
      BY <1>2
    <2>2. feed(m) /\ UNCHANGED <<next_cseq, closed, call>>
      BY DEF ClientReconcile
    <2>3. fifo' = t
      BY <2>1, <2>2 DEF feed, Drop1
    <2> QED
      BY <2>2, <2>3 DEF feed
  <1>4. Len(t) = Len(fifo) - n /\ \A i \in 1..Len(t) : n + i \in 1..Len(fifo) /\ t[i] = fifo[n + i]
    <2>1. n \in 0..Len(fifo)
      BY <1>2
    <2> DEFINE h == SubSeq(fifo, 1, n)
    <2>2. Joined(fifo, h, t) /\ Len(h) = n
      BY <1>1, <2>1, SplitSeq
    <2> HIDE DEF h, n, t
    <2>3. Len(t) \in Nat /\ Len(fifo) = n + Len(t) /\ n \in Nat
      BY <2>2 DEF Joined
    <2>4. \A i \in 1..Len(t) : n + i \in 1..Len(fifo)
      BY <2>3
    <2>5. \A i \in 1..Len(t) : t[i] = fifo[n + i]
      BY <2>2 DEF Joined
    <2> QED
      BY <2>3, <2>4, <2>5
  <1> HIDE DEF m, n, t
  <1>5. Fed' = Fed + n /\ Fed + n \in Nat
    <2>1. Fed' = next_cseq - (Len(fifo) - n)
      BY <1>3, <1>4 DEF Fed
    <2> QED
      BY <1>2, <2>1
  <1>6. ASSUME NEW q \in Req
        PROVE  /\ Fed <= q /\ q < Fed + n /\ call[q] = "waiting" => oneshot'[q] \in Answers(q)
               /\ ~(Fed <= q /\ q < Fed + n /\ call[q] = "waiting") => oneshot'[q] = oneshot[q]
    <2>1. FedTo(m, q) = {i \in 1..n : i <= Len(fifo) /\ fifo[i].cseq = q /\ fifo[i].sender}
      BY DEF FedTo, n
    <2>2. \A i \in FedTo(m, q) : i \in 1..n /\ q = Fed + i - 1 /\ call[q] = "waiting"
      BY <1>1, <1>2, <2>1 DEF CallsInv
    <2>3. CASE Fed <= q /\ q < Fed + n /\ call[q] = "waiting"
      <3>1. q - Fed + 1 \in 1..n /\ q - Fed + 1 \in 1..Len(fifo) /\ Fed + (q - Fed + 1) - 1 = q
        BY <1>2, <2>3, EventConstants
      <3>2. q - Fed + 1 \in FedTo(m, q)
        BY <1>1, <1>2, <2>1, <2>3, <3>1 DEF CallsInv
      <3>3. PICK i : i = (CHOOSE j \in FedTo(m, q) : TRUE)
        OBVIOUS
      <3>4. i \in FedTo(m, q) /\ oneshot'[q] = m[i]
        BY <1>3, <3>2, <3>3
      <3> QED
        BY <1>2, <2>2, <2>3, <3>4
    <2>4. CASE ~(Fed <= q /\ q < Fed + n /\ call[q] = "waiting")
      <3>1. FedTo(m, q) = {}
        BY <1>2, <2>2, <2>4
      <3> QED
        BY <1>3, <2>4, <3>1
    <2> QED
      BY <2>3, <2>4
  <1>7. ASSUME NEW i \in 1..Len(t)
        PROVE  /\ t[i].cseq = Fed' + i - 1
               /\ t[i].sender <=> call[Fed' + i - 1] = "waiting"
               /\ oneshot'[Fed' + i - 1] = None
    <2>1. /\ t[i] = fifo[n + i] /\ n + i \in 1..Len(fifo) /\ Fed' + i - 1 = Fed + (n + i) - 1
          /\ Fed' + i - 1 \in Req /\ ~(Fed' + i - 1 < Fed + n)
      <3>1. t[i] = fifo[n + i] /\ n + i \in 1..Len(fifo) /\ i \in Nat /\ i >= 1
        BY <1>2, <1>4
      <3>2. Fed' + i - 1 = Fed + (n + i) - 1 /\ ~(Fed' + i - 1 < Fed + n)
        <4>1. \A a, b, c \in Nat : c >= 1 => /\ (a + b) + c - 1 = a + (b + c) - 1
                                             /\ ~((a + b) + c - 1 < a + b)
          OBVIOUS
        <4>2. Fed \in Nat
          OBVIOUS
        <4> HIDE SlotNumbers
        <4> QED
          BY <1>2, <1>5, <3>1, <4>1, <4>2
      <3> QED
        BY <3>1, <3>2
    <2>2. oneshot'[Fed' + i - 1] = oneshot[Fed' + i - 1]
      BY <1>6, <2>1
    <2> QED
      BY <1>1, <2>1, <2>2 DEF CallsInv
  <1>8. \A q \in Req : q \in Nat /\ Answers(q) \subseteq Answers(q)'
    BY AnswersGrow, EventConstants
  <1>9. ASSUME NEW q \in Req
        PROVE  /\ q >= next_cseq => oneshot'[q] = None
               /\ call[q] = "waiting" /\ q < Fed' => oneshot'[q] # None
               /\ oneshot'[q] \in Answers(q)' \cup {None, Closed}
               /\ call[q] = "answered" => oneshot'[q] \in Answers(q)'
    <2>1. CASE Fed <= q /\ q < Fed + n /\ call[q] = "waiting"
      <3>1. oneshot'[q] \in Answers(q) /\ oneshot'[q] # None /\ ~(q >= next_cseq)
        BY <1>2, <1>6, <1>8, <2>1, AnswerValues, ResponseValues
      <3> QED
        BY <1>8, <2>1, <3>1
    <2>2. CASE ~(Fed <= q /\ q < Fed + n /\ call[q] = "waiting")
      <3>1. oneshot'[q] = oneshot[q]
        BY <1>6, <2>2
      <3>2. call[q] = "waiting" /\ q < Fed' => q < Fed
        BY <1>2, <1>5, <1>8, <2>2
      <3> QED
        BY <1>1, <1>8, <3>1, <3>2 DEF CallsInv
    <2> QED
      BY <2>1, <2>2
  <1>10. Len(t) <= next_cseq
    BY <1>2, <1>4
  <1> QED
    BY <1>1, <1>3, <1>7, <1>9, <1>10 DEF CallsInv

\* The end of the client's task.
LEMMA CloseCalls ==
    ASSUME EventInv, Next, ClientEnd
    PROVE  CallsInv'
  <1> USE SlotNumbers
  <1>1. /\ CallsInv /\ call \in [Req -> CallState] /\ ~closed
        /\ oneshot \in [Req -> Response \cup {None, Closed}]
    BY DEF EventInv, TypeOK, Domains, ClientEnd, Finish, Ends
  <1>2. /\ UNCHANGED <<next_cseq, call>> /\ closed' = TRUE /\ fifo' = <<>>
        /\ oneshot' = [q \in Req |->
                         IF \E i \in 1..Len(fifo) : fifo[i].cseq = q /\ fifo[i].sender
                         THEN Closed ELSE oneshot[q]]
    BY <1>1 DEF ClientEnd, close
  <1>3. Len(fifo') = 0 /\ Fed' = next_cseq
    BY <1>2 DEF Fed
  <1>4. \A q \in Req : q \in Nat /\ Answers(q) \subseteq Answers(q)'
    BY AnswersGrow, EventConstants
  <1>5. ASSUME NEW q \in Req
        PROVE  /\ q >= next_cseq => oneshot'[q] = None
               /\ call[q] = "waiting" /\ q < next_cseq => oneshot'[q] # None
               /\ oneshot'[q] \in Answers(q)' \cup {None, Closed}
               /\ call[q] = "answered" => oneshot'[q] \in Answers(q)'
    <2>1. CASE \E i \in 1..Len(fifo) : fifo[i].cseq = q /\ fifo[i].sender
      <3>1. oneshot'[q] = Closed
        BY <1>2, <2>1
      <3>2. q < next_cseq /\ call[q] = "waiting"
        <4>1. PICK i \in 1..Len(fifo) : fifo[i].cseq = q /\ fifo[i].sender
          BY <2>1
        <4> QED
          BY <1>1, <4>1 DEF CallsInv
      <3> QED
        BY <1>4, <3>1, <3>2, ResponseValues
    <2>2. CASE ~ \E i \in 1..Len(fifo) : fifo[i].cseq = q /\ fifo[i].sender
      <3>1. oneshot'[q] = oneshot[q]
        BY <1>2, <2>2
      <3>2. call[q] = "waiting" /\ q < next_cseq => q < Fed
        <4>1. CASE q >= Fed /\ q < next_cseq /\ call[q] = "waiting"
          <5>1. q - Fed + 1 \in 1..Len(fifo) /\ Fed + (q - Fed + 1) - 1 = q
            BY <1>4, <4>1
          <5>2. fifo[q - Fed + 1].sender /\ fifo[q - Fed + 1].cseq = q
            BY <1>1, <4>1, <5>1 DEF CallsInv
          <5> QED
            BY <2>2, <5>1, <5>2
        <4> QED
          BY <1>4, <4>1
      <3> QED
        BY <1>1, <1>4, <3>1, <3>2 DEF CallsInv
    <2> QED
      BY <2>1, <2>2
  <1> QED
    BY <1>1, <1>2, <1>3, <1>5 DEF CallsInv

\* Every step keeps a slot for every request that is not answered.
LEMMA CallsStep ==
    ASSUME EventInv, Next
    PROVE  CallsInv'
  <1>1. CASE UNCHANGED <<fifo, next_cseq, closed, call, oneshot>>
    BY <1>1, CallsStay
  <1>2. CASE (\E r \in Req : queue(r) \/ PollReady(r) \/ GiveUp(r)) \/ ClientReconcile \/ ClientEnd
    BY <1>2, QueueCalls, DropCalls, FeedCalls, CloseCalls
  <1> QED
    BY <1>1, <1>2
    DEF Next, ClientWake, Flush, Receive, ServerReconcile, ServerEnd, SleepIdle, SleepStart, SleepYield,
        pop, closeDrain, respond, queueVars

-----------------------------------------------------------------------------
(* The answers on their way back. *)

\* A sequence of one answer, or of at most one.
LEMMA OneAnswer ==
    ASSUME NEW x \in Response \cup {None}, NEW a \in Nat, NEW ans,
           x # None => a \in Req /\ x \in ans[a]
    PROVE  AnswersTo(Opt(x), a, ans) /\ (x # None => AnswersTo(<<x>>, a, ans))
  <1>1. x # None => AnswersTo(<<x>>, a, ans)
    <2> SUFFICES ASSUME x # None, NEW i \in 1..1 PROVE a + i - 1 \in Req /\ <<x>>[i] \in ans[a + i - 1]
      BY DEF AnswersTo
    <2>1. i = 1 /\ a + i - 1 = a /\ <<x>>[i] = x
      OBVIOUS
    <2> QED
      BY <2>1
  <1> QED
    BY <1>1, NoElements DEF Opt

\* Only what was numbered is answered.
LEMMA AnsweredReceived ==
    ASSUME EventInv
    PROVE  \A r \in Req : Answers(r) # {} => r < Received
  BY EventConstants DEF EventInv, CommandsInv, Answers, CommandIds

\* Steps that leave the answers where they are.
LEMMA ResponsesStay ==
    ASSUME EventInv, Next,
           UNCHANGED <<completed, next_response, next_send, closed>>, ~closed => Fed' = Fed,
           msgs'[Client] = msgs[Client], wire'[Client] = wire[Client],
           composites'[Server] = composites[Server],
           phase'[Server] # "eof" => phase[Server] # "eof"
    PROVE  ResponsesInv'
  <1>1. /\ ResponsesInv /\ next_send \in Nat /\ Received \in Nat
        /\ completed \in [Ids -> Response \cup {None}] /\ next_response \in Response \cup {None}
    BY AnswerValues, EventConstants DEF EventInv, TypeOK
  <1>2. Received <= Received' /\ Received' \in Nat
    BY AnswersGrow
  <1>3. next_send' <= Received'
    BY <1>1, <1>2 DEF ResponsesInv
  <1>4. \A r \in Req : Answered[r] \subseteq Answered'[r]
    BY AnswersGrow
  <1>5. \A i \in Ids : completed'[i] \in Answered'[i] \cup {None}
    BY <1>1, <1>4, EventConstants DEF ResponsesInv
  <1>6. next_response' # None => next_send' > 0 /\ next_response' \in Answered'[next_send' - 1]
    <2>1. SUFFICES ASSUME next_response # None
                   PROVE  next_send > 0 /\ next_response \in Answered'[next_send - 1]
      OBVIOUS
    <2>2. next_send > 0 /\ next_response \in Answered[next_send - 1]
      BY <1>1, <2>1 DEF ResponsesInv
    <2>3. next_send - 1 \in Req
      <3>1. next_send \in 0..MaxReq
        BY DEF EventInv, TypeOK
      <3> QED
        BY <2>2, <3>1, EventConstants DEF Req
    <2> QED
      BY <1>4, <2>2, <2>3
  <1>7. ASSUME ~closed
        PROVE  Fed' = Fed /\ AnswersStart' = AnswersStart /\ UnflushedStart' = UnflushedStart
    BY <1>7 DEF AnswersStart, UnflushedStart
  <1>8. \A s, a : AnswersTo(s, a, Answered) => AnswersTo(s, a, Answered')
    BY <1>4, AnswersMore
  <1>9. ASSUME ~closed
        PROVE  /\ AnswersTo(msgs'[Client], Fed', Answered')
               /\ AnswersTo(wire'[Client], AnswersStart', Answered')
               /\ UnflushedStart' <= next_send'
               /\ phase'[Server] # "eof" =>
                    /\ AnswersTo(composites'[Server], UnflushedStart', Answered')
                    /\ UnflushedStart' + Len(composites'[Server]) + Len(Opt(next_response')) = next_send'
    BY <1>1, <1>7, <1>8, <1>9 DEF ResponsesInv
  <1> QED
    BY <1>3, <1>5, <1>6, <1>9 DEF ResponsesInv

\* The client consumes what it was given.
LEMMA FeedResponses ==
    ASSUME EventInv, Next, ClientReconcile
    PROVE  ResponsesInv'
  <1> DEFINE n == Len(msgs[Client])
  <1>1. /\ ResponsesInv /\ Domains /\ ~closed /\ next_send \in Nat /\ Received \in Nat
        /\ completed \in [Ids -> Response \cup {None}] /\ next_response \in Response \cup {None}
    BY AnswerValues, EventConstants DEF EventInv, TypeOK, Domains, ClientReconcile
  <1>2. /\ UNCHANGED <<completed, next_response, next_send, closed, wire, recvd, reply>>
        /\ msgs'[Client] = <<>> /\ composites'[Server] = composites[Server]
        /\ phase'[Server] = phase[Server]
    BY <1>1, Ends2 DEF ClientReconcile, Domains, serverVars, commandVars, EventInv, TypeOK
  <1>3. Fed' = Fed + n /\ n \in Nat /\ Fed \in Nat
    <2>1. n \in 0..Len(fifo) /\ Len(fifo) \in Nat /\ fifo \in Seq([cseq : Req, sender : BOOLEAN])
      BY <1>1, FedInOrder, SlotNumbers DEF EventInv, TypeOK
    <2>2. (IF Len(msgs[Client]) < Len(fifo) THEN Len(msgs[Client]) ELSE Len(fifo)) = n
      BY <2>1
    <2>3. fifo' = SubSeq(fifo, n + 1, Len(fifo)) /\ next_cseq' = next_cseq
      BY <2>2 DEF ClientReconcile, feed, Drop1
    <2> DEFINE h == SubSeq(fifo, 1, n)
               t == SubSeq(fifo, n + 1, Len(fifo))
    <2>4. Joined(fifo, h, t) /\ Len(h) = n
      BY <2>1, SplitSeq
    <2> HIDE DEF h, n
    <2>5. Len(fifo) = n + Len(t) /\ Len(t) \in Nat
      <3> HIDE DEF t
      <3> QED
        BY <2>4 DEF Joined
    <2>6. Fed' = next_cseq - Len(t)
      BY <2>3 DEF Fed
    <2>7. Fed = next_cseq - (n + Len(t)) /\ Fed \in Nat /\ next_cseq \in Nat
      BY <2>5, SlotNumbers DEF Fed
    <2> HIDE DEF t
    <2> QED
      BY <2>1, <2>5, <2>6, <2>7
  <1>4. AnswersStart' = AnswersStart /\ UnflushedStart' = UnflushedStart
    <2>1. AnswersStart' = (Fed + n) + 0 /\ AnswersStart = Fed + n
      BY <1>2, <1>3, NoElements DEF AnswersStart
    <2>2. AnswersStart' = AnswersStart
      BY <1>3, <2>1
    <2> QED
      BY <1>2, <2>2 DEF UnflushedStart
  <1>5. Answered' = Answered /\ Received' = Received /\ \A r : Answers(r)' = Answers(r)
    BY <1>2 DEF Answered, Answers, Received
  <1> QED
    BY <1>1, <1>2, <1>4, <1>5, NoElements DEF ResponsesInv

\* Answers between the ends.
LEMMA WireResponses ==
    ASSUME EventInv, Next, Flush(Server) \/ Receive(Client) \/ ServerEnd
    PROVE  ResponsesInv'
  <1> USE Ends2
  <1> DEFINE m == msgs[Client]
             w == wire[Client]
             c == composites[Server]
  <1>1. /\ ResponsesInv /\ Domains /\ next_send \in Nat
        /\ m \in Seq(Response) /\ w \in Seq(Response) /\ c \in Seq(Response)
    BY FrameTypes, EventConstants DEF EventInv, TypeOK, FramesOK
  <1>2. Len(m) \in Nat /\ Len(w) \in Nat /\ Len(c) \in Nat /\ Fed \in Nat
    BY <1>1, LenProperties, SlotNumbers
  <1>3. UNCHANGED <<completed, next_response, next_send, recvd, reply, closed, fifo, next_cseq>>
    BY DEF Flush, Receive, ServerEnd, queueVars, serverVars, commandVars
  <1>4. /\ Answered' = Answered /\ Received' = Received /\ Fed' = Fed
        /\ \A r : Answers(r)' = Answers(r)
    BY <1>3 DEF Answered, Answers, Received, Fed
  <1>5. AnswersStart = Fed + Len(m) /\ UnflushedStart = AnswersStart + Len(w) /\ AnswersStart \in Nat
    BY <1>2 DEF AnswersStart, UnflushedStart
  <1>6. CASE Flush(Server) \/ ServerEnd
    <2>1. PICK n \in 0..Len(c) :
            /\ wire'[Client] = w \o SubSeq(c, 1, n)
            /\ ServerEnd => phase'[Server] = "eof"
            /\ ~ServerEnd => composites'[Server] = SubSeq(c, n + 1, Len(c))
            /\ phase[Server] # "eof"
      <3>1. CASE ServerEnd
        BY <1>1, <3>1 DEF ServerEnd, Finish, Ends, Domains, EventInv, TypeOK
      <3>2. CASE Flush(Server) /\ ~ServerEnd
        <4>1. PICK n \in 1..Len(c) :
                /\ wire' = [wire EXCEPT ![Client] = @ \o SubSeq(c, 1, n)]
                /\ composites' = [composites EXCEPT ![Server] = Drop1(@, n)]
          BY <3>2 DEF Flush
        <4>2. wire'[Client] = w \o SubSeq(c, 1, n) /\ composites'[Server] = SubSeq(c, n + 1, Len(c))
          BY <1>1, <4>1 DEF Drop1, Domains
        <4>3. n \in 0..Len(c) /\ phase[Server] # "eof"
          BY <1>2, <3>2 DEF Flush
        <4> QED
          BY <3>2, <4>2, <4>3
      <3> QED
        BY <1>6, <3>1, <3>2
    <2>2. msgs'[Client] = m
      BY <1>1, <1>6 DEF Flush, ServerEnd, Finish, Domains
    <2> DEFINE h == SubSeq(c, 1, n)
               t == SubSeq(c, n + 1, Len(c))
    <2>3. Len(h) = n /\ Joined(c, h, t) /\ Joined(wire'[Client], w, h) /\ n \in Nat /\ Len(t) \in Nat
      <3>1. h \in Seq(Response) /\ t \in Seq(Response) /\ Len(h) = n /\ Joined(c, h, t)
        BY <1>1, SplitSeq
      <3> QED
        BY <1>1, <2>1, <3>1, JoinSeq, LenProperties
    <2> HIDE DEF h, t, m, w, c
    <2>4. Len(c) = n + Len(t) /\ Len(wire'[Client]) = Len(w) + n
      BY <2>3 DEF Joined
    <2>5. AnswersStart' = AnswersStart /\ UnflushedStart' = UnflushedStart + n /\ UnflushedStart \in Nat
      <3>1. AnswersStart' = AnswersStart
        BY <1>4, <2>2 DEF AnswersStart, m
      <3>2. UnflushedStart' = AnswersStart + (Len(w) + n)
        BY <2>4, <3>1 DEF UnflushedStart
      <3> QED
        BY <1>2, <1>5, <2>3, <3>1, <3>2
    <2>6. ASSUME ~closed
          PROVE  /\ AnswersTo(m, Fed, Answered)
                 /\ AnswersTo(wire'[Client], AnswersStart, Answered)
                 /\ AnswersTo(t, UnflushedStart + n, Answered)
                 /\ UnflushedStart + n + Len(t) + Len(Opt(next_response)) = next_send
                 /\ UnflushedStart + n <= next_send
      <3>1. /\ AnswersTo(m, Fed, Answered) /\ AnswersTo(w, AnswersStart, Answered)
            /\ AnswersTo(c, UnflushedStart, Answered)
            /\ UnflushedStart + Len(c) + Len(Opt(next_response)) = next_send
        BY <1>1, <2>1, <2>6 DEF ResponsesInv, m, w, c
      <3>2. AnswersTo(h, UnflushedStart, Answered) /\ AnswersTo(t, UnflushedStart + n, Answered)
        BY <2>3, <2>5, <3>1, AnswersJoin
      <3>3. AnswersTo(wire'[Client], AnswersStart, Answered)
        BY <1>5, <2>3, <3>1, <3>2, AnswersJoin
      <3>4. Len(Opt(next_response)) \in Nat
        BY OptType DEF EventInv, TypeOK
      <3>5. /\ UnflushedStart + n + Len(t) + Len(Opt(next_response)) = next_send
            /\ UnflushedStart + n <= next_send
        <4> DEFINE o == Len(Opt(next_response))
                   k == Len(t)
        <4>1. o \in Nat /\ k \in Nat /\ UnflushedStart + (n + k) + o = next_send
          BY <2>3, <2>4, <3>1, <3>4
        <4> HIDE DEF o, k
        <4>2. UnflushedStart + n + k + o = next_send /\ UnflushedStart + n <= next_send
          BY <2>3, <2>5, <4>1
        <4> QED
          BY <4>2 DEF o, k
      <3> QED
        BY <3>1, <3>2, <3>3, <3>5
    <2>7. phase'[Server] # "eof" => composites'[Server] = t
      BY <2>1 DEF t
    <2> QED
      BY <1>1, <1>3, <1>4, <2>2, <2>5, <2>6, <2>7 DEF ResponsesInv, m
  <1>7. CASE Receive(Client)
    <2>1. PICK n \in 1..Len(w) :
            /\ msgs' = [msgs EXCEPT ![Client] = SubSeq(w, 1, n)]
            /\ wire' = [wire EXCEPT ![Client] = Drop1(@, n)]
      BY <1>7 DEF Receive
    <2> DEFINE h == SubSeq(w, 1, n)
               t == SubSeq(w, n + 1, Len(w))
    <2>2. /\ composites' = composites /\ phase'[Server] = phase[Server] /\ m = <<>>
          /\ msgs'[Client] = h /\ wire'[Client] = t
      BY <1>1, <1>7, <2>1 DEF Receive, Domains, Drop1, EventInv, TypeOK
    <2>3. Len(h) = n /\ Joined(w, h, t) /\ Len(t) \in Nat /\ n \in Nat /\ Len(m) = 0
      BY <1>1, <1>2, <2>2, SplitSeq, LenProperties, NoElements
    <2> HIDE DEF h, t, m, w, c
    <2>4. Len(w) = n + Len(t)
      BY <2>3 DEF Joined
    <2>5. AnswersStart = Fed /\ AnswersStart' = Fed + n /\ UnflushedStart' = UnflushedStart
      <3>1. AnswersStart = Fed
        BY <1>2, <1>5, <2>3
      <3>2. AnswersStart' = Fed + n
        BY <1>4, <2>2, <2>3 DEF AnswersStart
      <3>3. UnflushedStart' = (Fed + n) + Len(t)
        BY <2>2, <3>2 DEF UnflushedStart
      <3> QED
        BY <1>2, <1>5, <2>3, <2>4, <3>1, <3>2, <3>3
    <2>6. ~closed => AnswersTo(h, Fed, Answered) /\ AnswersTo(t, Fed + n, Answered)
      <3>1. ~closed => AnswersTo(w, Fed, Answered)
        BY <1>1, <2>5 DEF ResponsesInv, w
      <3> QED
        BY <1>2, <2>3, <3>1, AnswersJoin
    <2> QED
      BY <1>1, <1>3, <1>4, <2>2, <2>5, <2>6 DEF ResponsesInv
  <1> QED
    BY <1>6, <1>7

\* The server's reconcile(): refusals are recorded, and what is ready goes out in order.
LEMMA ReconcileResponses ==
    ASSUME EventInv, Next, ServerReconcile
    PROVE  ResponsesInv'
  <1> USE Ends2
  <1> DEFINE m == msgs[Server]
             k == composites[Server]
             o == Opt(next_response)
  <1>1. /\ ResponsesInv /\ Domains /\ next_send \in Nat /\ next_send <= MaxReq
        /\ k \in Seq(Response) /\ next_response \in Response \cup {None}
        /\ completed \in [Ids -> Response \cup {None}]
    BY FrameTypes, EventConstants DEF EventInv, TypeOK, FramesOK
  <1>2. /\ UNCHANGED <<closed, wire, fifo, next_cseq, reply>> /\ msgs'[Client] = msgs[Client]
        /\ next_response' = None /\ phase[Server] # "eof"
    BY <1>1 DEF ServerReconcile, on_msg, drain_next_response, Domains, queueVars, commandVars
  <1>3. Fed' = Fed /\ AnswersStart' = AnswersStart /\ UnflushedStart' = UnflushedStart
    BY <1>2 DEF Fed, AnswersStart, UnflushedStart
  <1>4. /\ Received' \in Nat /\ Received \in Nat /\ Received <= Received'
        /\ \A r \in Req : Answered[r] \subseteq Answered'[r]
        /\ \A r \in Req : Answered[r] = Answers(r) /\ Answered'[r] = Answers(r)'
    BY AnswersGrow, AnswerValues DEF Answered
  <1>5. \A s, a : AnswersTo(s, a, Answered) => AnswersTo(s, a, Answered')
    BY <1>4, AnswersMore
  <1>6. o \in Seq(Response) /\ Len(o) \in Nat /\ k \o o \in Seq(Response) /\ Joined(k \o o, k, o) /\ Len(k) \in Nat
    BY <1>1, OptType, JoinSeq, LenProperties
  <1>7. ASSUME ~closed
        PROVE  /\ AnswersTo(msgs[Client], Fed, Answered) /\ AnswersTo(wire[Client], AnswersStart, Answered)
               /\ AnswersTo(k \o o, UnflushedStart, Answered)
               /\ UnflushedStart + Len(k \o o) = next_send
               /\ UnflushedStart <= next_send /\ UnflushedStart \in Nat
    <2>1. /\ AnswersTo(msgs[Client], Fed, Answered) /\ AnswersTo(wire[Client], AnswersStart, Answered)
          /\ AnswersTo(k, UnflushedStart, Answered) /\ UnflushedStart + Len(k) + Len(o) = next_send
          /\ UnflushedStart <= next_send
      BY <1>1, <1>2, <1>7 DEF ResponsesInv
    <2>2. UnflushedStart \in Nat
      BY <1>7, FedInOrder, SlotNumbers
    <2> HIDE DEF k, o
    <2>3. Len(k \o o) = Len(k) + Len(o)
      BY <1>6 DEF Joined
    <2>4. UnflushedStart + Len(k \o o) = next_send
      BY <1>6, <2>1, <2>2, <2>3
    <2>5. next_response # None => UnflushedStart + Len(k) = next_send - 1 /\ next_send > 0
                                  /\ next_response \in Answered[next_send - 1] /\ next_send - 1 \in Req
      <3>1. next_response # None => Len(o) = 1
        BY <1>1, OptType DEF o
      <3>2. next_response # None => next_send > 0 /\ next_response \in Answered[next_send - 1]
        BY <1>1 DEF ResponsesInv
      <3>3. next_send > 0 => next_send - 1 \in Req
        BY <1>1, EventConstants DEF Req
      <3>4. next_response # None => UnflushedStart + Len(k) = next_send - 1
        <4> SUFFICES ASSUME next_response # None PROVE UnflushedStart + Len(k) = next_send - 1
          OBVIOUS
        <4>1. UnflushedStart + Len(k) + 1 = next_send
          BY <2>1, <3>1
        <4> QED
          BY <1>6, <2>2, <4>1
      <3> QED
        BY <1>1, <3>2, <3>3, <3>4
    <2>6. AnswersTo(o, UnflushedStart + Len(k), Answered)
      <3>1. UnflushedStart + Len(k) \in Nat
        BY <1>6, <2>2
      <3> QED
        BY <1>1, <2>5, <3>1, OneAnswer DEF o
    <2>7. AnswersTo(k \o o, UnflushedStart, Answered)
      BY <1>6, <2>1, <2>2, <2>6, AnswersJoin
    <2> QED
      BY <2>1, <2>2, <2>4, <2>7
  <1> HIDE DEF k, o
  <1>8. CASE m = <<>>
    <2>1. UNCHANGED <<completed, next_send, recvd>> /\ composites'[Server] = k \o o
      BY <1>1, <1>8 DEF ServerReconcile, drain_next_response, Domains, k, o
    <2>2. Answered' = Answered /\ Received' = Received
      BY <1>2, <2>1 DEF Answered, Answers, Received
    <2>3. Len(Opt(None)) = 0 /\ Len(composites'[Server]) \in Nat
      BY <1>6, <2>1, NoElements, LenProperties DEF Opt
    <2>4. ~closed => UnflushedStart + Len(composites'[Server]) + Len(Opt(None)) = next_send
      BY <1>7, <2>1, <2>3
    <2> QED
      BY <1>1, <1>2, <1>3, <1>7, <2>1, <2>2, <2>4 DEF ResponsesInv
  <1>9. CASE m # <<>>
    <2> DEFINE c == [i \in Ids |-> IF i >= Len(recvd) /\ i < Len(recvd) + Len(m)
                                      /\ Kind[m[i - Len(recvd) + 1]] # "command"
                                   THEN Refusal(m[i - Len(recvd) + 1]) ELSE completed[i]]
               turn == next_send \in Ids /\ c[next_send] # None
               f == IF turn THEN <<c[next_send]>> ELSE <<>>
    <2>1. /\ recvd' = recvd \o m
          /\ next_send' = IF turn THEN next_send + 1 ELSE next_send
          /\ completed' = IF turn THEN [c EXCEPT ![next_send] = None] ELSE c
          /\ composites'[Server] = (k \o o) \o f
      BY <1>1, <1>9 DEF ServerReconcile, on_msg, Domains, k, o
    <2>2. /\ Len(m) \in Nat /\ Received + Len(m) <= MaxReq /\ m \in Seq(Req)
          /\ \A i \in 1..Len(m) : m[i] = Received + i - 1 /\ m[i] \in Req
      <3>1. next_cseq \in Nat /\ next_cseq <= MaxReq
        BY SlotNumbers
      <3> HIDE DEF m
      <3>2. Len(m) \in Nat /\ Received + Len(m) <= next_cseq /\ m \in Seq(Req)
            /\ \A i \in 1..Len(m) : m[i] = Received + i - 1 /\ m[i] \in Req
        BY NewRequests DEF m
      <3> QED
        BY <1>4, <3>1, <3>2, EventConstants
    <2>3. Received' = Received + Len(m)
      <3>1. recvd \in Seq(Req)
        BY DEF EventInv, TypeOK
      <3>2. Joined(recvd', recvd, m)
        BY <2>1, <2>2, <3>1, JoinSeq
      <3> QED
        BY <3>2 DEF Joined, Received
    <2>4. ASSUME NEW i \in Ids
          PROVE  c[i] \in (Response \cap Answered'[i]) \cup {None} /\ (c[i] # None => i < Received')
      <3>1. CASE i >= Len(recvd) /\ i < Len(recvd) + Len(m) /\ Kind[m[i - Len(recvd) + 1]] # "command"
        <4>1. i - Len(recvd) + 1 \in 1..Len(m) /\ i \in Nat /\ Received + (i - Len(recvd) + 1) - 1 = i
          BY <1>4, <2>2, <3>1, EventConstants DEF Received
        <4>2. m[i - Len(recvd) + 1] = i
          BY <2>2, <4>1
        <4>3. c[i] = Refusal(i) /\ Kind[i] # "command" /\ i < Received' /\ i \in Req
          BY <2>3, <3>1, <4>2, EventConstants DEF Received
        <4>4. Refusal(i) \in Answers(i)'
          BY <4>3 DEF Answers
        <4> QED
          BY <1>4, <4>3, <4>4, ResponseValues
      <3>2. CASE ~(i >= Len(recvd) /\ i < Len(recvd) + Len(m) /\ Kind[m[i - Len(recvd) + 1]] # "command")
        <4>1. c[i] = completed[i] /\ completed[i] \in Answered[i] \cup {None}
              /\ completed[i] \in Response \cup {None} /\ i \in Req /\ i \in Nat
          BY <1>1, <3>2, EventConstants DEF ResponsesInv
        <4>2. completed[i] # None => i < Received
          BY <1>4, <4>1, AnsweredReceived
        <4> QED
          BY <1>4, <4>1, <4>2
      <3> QED
        BY <3>1, <3>2
    <2>5. DOMAIN c = Ids
      OBVIOUS
    <2> HIDE DEF c, m
    <2>6. turn => c[next_send] \in Response /\ c[next_send] \in Answered'[next_send] /\ next_send < Received'
      BY <2>4
    <2>7. \A i \in Ids : completed'[i] \in Answered'[i] \cup {None}
      BY <2>1, <2>4, <2>5
    <2>8. next_send' <= Received'
      BY <1>1, <1>4, <2>1, <2>6 DEF ResponsesInv
    <2>9. f \in Seq(Response) /\ Len(f) = (IF turn THEN 1 ELSE 0)
      BY <2>6
    <2>10. Joined(composites'[Server], k \o o, f)
      BY <1>6, <2>1, <2>9, JoinSeq
    <2>11. ASSUME ~closed
           PROVE  /\ AnswersTo(composites'[Server], UnflushedStart, Answered')
                  /\ UnflushedStart + Len(composites'[Server]) + 0 = next_send'
                  /\ UnflushedStart <= next_send'
      <3>1. AnswersTo(f, next_send, Answered')
        <4>1. CASE turn
          <5>1. c[next_send] \in Response \cup {None} /\ c[next_send] # None /\ next_send \in Req
            BY <2>6, <4>1, EventConstants
          <5> QED
            BY <1>1, <2>6, <4>1, <5>1, OneAnswer
        <4>2. CASE ~turn
          BY <4>2, NoElements
        <4> QED
          BY <4>1, <4>2
      <3> HIDE DEF f, turn
      <3>2. AnswersTo(composites'[Server], UnflushedStart, Answered')
        <4>1. AnswersTo(k \o o, UnflushedStart, Answered') /\ UnflushedStart \in Nat
          BY <1>5, <1>7, <2>11
        <4>2. AnswersTo(f, UnflushedStart + Len(k \o o), Answered')
          BY <1>7, <2>11, <3>1
        <4> QED
          BY <2>10, <4>1, <4>2, AnswersJoin
      <3>3. Len(composites'[Server]) = Len(k \o o) + Len(f) /\ Len(k \o o) \in Nat /\ Len(f) \in Nat
        BY <2>10 DEF Joined
      <3>4. next_send' = next_send + Len(f)
        BY <1>1, <2>1, <2>9
      <3> DEFINE x == Len(k \o o)
                 y == Len(f)
      <3>5. UnflushedStart \in Nat /\ x \in Nat /\ y \in Nat /\ UnflushedStart + x = next_send
            /\ next_send' = next_send + y /\ Len(composites'[Server]) = x + y
        BY <1>7, <2>11, <3>3, <3>4
      <3> HIDE DEF x, y
      <3>6. UnflushedStart + Len(composites'[Server]) + 0 = next_send' /\ UnflushedStart <= next_send'
        BY <3>5
      <3> QED
        BY <3>2, <3>6
    <2>12. Len(Opt(None)) = 0
      BY NoElements DEF Opt
    <2>13. ~closed => AnswersTo(msgs[Client], Fed, Answered') /\ AnswersTo(wire[Client], AnswersStart, Answered')
      BY <1>5, <1>7
    <2> QED
      BY <1>2, <1>3, <2>7, <2>8, <2>11, <2>12, <2>13 DEF ResponsesInv
  <1> QED
    BY <1>8, <1>9

\* A finished command: its answer is recorded, and prepared if it is its turn.
LEMMA YieldResponses ==
    ASSUME EventInv, Next, SleepYield
    PROVE  ResponsesInv'
  <1> DEFINE id == Head(ready)
             resp == IF id \in started THEN reply[id] ELSE Gone(id)
             c == [completed EXCEPT ![id] = resp]
  <1>1. /\ ResponsesInv /\ next_send \in Nat /\ completed \in [Ids -> Response \cup {None}]
        /\ reply \in [Ids -> Response \cup {None}] /\ next_response \in Response \cup {None}
    BY EventConstants DEF EventInv, TypeOK
  <1>2. /\ UNCHANGED <<closed, wire, msgs, composites, fifo, next_cseq, recvd>>
        /\ reply' = [reply EXCEPT ![id] = resp] /\ phase[Server] # "eof"
        /\ try_prepare_next_response(c)
    BY DEF SleepYield, ServerSleeping, queueVars
  <1>3. /\ Fed' = Fed /\ AnswersStart' = AnswersStart /\ UnflushedStart' = UnflushedStart
        /\ Received' = Received
    BY <1>2 DEF Fed, AnswersStart, UnflushedStart, Received
  <1>4. /\ Received \in Nat /\ \A r \in Req : Answered[r] \subseteq Answered'[r]
        /\ \A r \in Req : Answered[r] = Answers(r) /\ Answered'[r] = Answers(r)'
    BY AnswersGrow, AnswerValues DEF Answered
  <1>5. \A s, a : AnswersTo(s, a, Answered) => AnswersTo(s, a, Answered')
    BY <1>4, AnswersMore
  <1>6. ready \in Seq(Ids) /\ ready # <<>>
    BY DEF EventInv, TypeOK, SleepYield
  <1>7. id \in Ids /\ id \in Req /\ id < Received /\ Kind[id] = "command" /\ (id \in started => reply[id] # None)
    <2>1. id \in Ids /\ id = ready[1] /\ 1 \in 1..Len(ready)
      BY <1>6, TailSeq
    <2>2. ready[1] \in CommandIds /\ (ready[1] \in started => reply[ready[1]] # None)
      BY <2>1 DEF EventInv, CommandsInv
    <2> QED
      BY <2>1, <2>2, EventConstants DEF CommandIds
  <1>8. resp # None /\ resp \in Answered'[id]
    <2>1. Gone(id) # None
      BY <1>7, EventConstants DEF Gone, None
    <2>2. resp # None
      BY <1>7, <2>1
    <2> HIDE DEF resp, id
    <2>3. reply'[id] = resp
      BY <1>1, <1>2, <1>7
    <2>4. \A r \in Req : Kind[r] = "command" /\ reply'[r] # None => reply'[r] \in Answers(r)'
      BY DEF Answers
    <2> QED
      BY <1>4, <1>7, <2>2, <2>3, <2>4
  <1> HIDE DEF resp, id
  <1>9. \A i \in Ids : c[i] \in Answered'[i] \cup {None} /\ (c[i] # None => i < Received)
    <2>1. \A i \in Ids : completed[i] \in Answered[i] \cup {None} /\ i \in Req
      BY <1>1, EventConstants DEF ResponsesInv
    <2>2. \A i \in Ids : completed[i] # None => i < Received
      BY <1>4, <2>1, AnsweredReceived
    <2>3. \A i \in Ids : c[i] = IF i = id THEN resp ELSE completed[i]
      BY <1>1
    <2> HIDE DEF c
    <2> QED
      BY <1>4, <1>7, <1>8, <2>1, <2>2, <2>3
  <1>10. DOMAIN c = Ids
    BY <1>1
  <1> HIDE DEF c
  <1>11. CASE next_response = None /\ next_send \in Ids /\ c[next_send] # None
    <2>1. /\ next_response' = c[next_send] /\ next_send' = next_send + 1
          /\ completed' = [c EXCEPT ![next_send] = None]
      BY <1>2, <1>11 DEF try_prepare_next_response
    <2>2. next_send' <= Received /\ next_send' > 0 /\ next_send' - 1 = next_send
      BY <1>1, <1>4, <1>9, <1>11, <2>1
    <2>3. next_response' # None /\ next_response' \in Answered'[next_send' - 1]
      BY <1>9, <1>11, <2>1, <2>2
    <2>4. \A i \in Ids : completed'[i] \in Answered'[i] \cup {None}
      BY <1>9, <1>10, <2>1
    <2>5. Len(Opt(next_response)) = 0 /\ Len(Opt(next_response')) = 1
      BY <1>11, <2>3, NoElements DEF Opt
    <2>6. ASSUME ~closed
          PROVE  /\ UnflushedStart + Len(composites[Server]) + Len(Opt(next_response')) = next_send'
                 /\ UnflushedStart <= next_send'
                 /\ AnswersTo(composites[Server], UnflushedStart, Answered)
      <3>1. /\ UnflushedStart + Len(composites[Server]) + Len(Opt(next_response)) = next_send
            /\ UnflushedStart <= next_send /\ AnswersTo(composites[Server], UnflushedStart, Answered)
        BY <1>1, <1>2, <2>6 DEF ResponsesInv
      <3>2. UnflushedStart \in Nat /\ Len(composites[Server]) \in Nat
        BY <2>6, FedInOrder, SlotNumbers
      <3> QED
        BY <1>1, <2>1, <2>5, <3>1, <3>2
    <2>7. ~closed => AnswersTo(msgs[Client], Fed, Answered) /\ AnswersTo(wire[Client], AnswersStart, Answered)
      BY <1>1 DEF ResponsesInv
    <2> QED
      BY <1>2, <1>3, <1>5, <2>2, <2>3, <2>4, <2>6, <2>7 DEF ResponsesInv
  <1>12. CASE ~(next_response = None /\ next_send \in Ids /\ c[next_send] # None)
    <2>1. UNCHANGED <<next_response, next_send>> /\ completed' = c
      BY <1>2, <1>12 DEF try_prepare_next_response
    <2>2. next_response # None => next_send > 0 /\ next_response \in Answered'[next_send - 1]
      <3>1. next_response # None => next_send > 0 /\ next_response \in Answered[next_send - 1]
        BY <1>1 DEF ResponsesInv
      <3>2. next_send > 0 => next_send - 1 \in Req
        BY <1>1, EventConstants DEF Req, EventInv, TypeOK
      <3> QED
        BY <1>4, <3>1, <3>2
    <2> QED
      BY <1>1, <1>2, <1>3, <1>5, <1>9, <2>1, <2>2 DEF ResponsesInv
  <1> QED
    BY <1>11, <1>12

\* Every step keeps the answers in the order of the requests.
LEMMA ResponsesStep ==
    ASSUME EventInv, Next
    PROVE  ResponsesInv'
  <1> USE Ends2
  <1>1. Domains /\ ResponsesInv
    BY DEF EventInv
  <1>2. CASE ClientReconcile
    BY <1>2, FeedResponses
  <1>3. CASE Flush(Server) \/ Receive(Client) \/ ServerEnd
    BY <1>3, WireResponses
  <1>4. CASE ServerReconcile
    BY <1>4, ReconcileResponses
  <1>5. CASE SleepYield
    BY <1>5, YieldResponses
  <1>6. ASSUME NEW r \in Req, queue(r)
        PROVE  ResponsesInv'
    <2>1. ~closed => Fed' = Fed
      <3>1. SUFFICES ASSUME ~closed PROVE Fed' = Fed
        OBVIOUS
      <3>2. fifo \in Seq([cseq : Req, sender : BOOLEAN])
        BY DEF EventInv, TypeOK
      <3> DEFINE e == [cseq |-> r, sender |-> TRUE]
      <3>3. e \in [cseq : Req, sender : BOOLEAN] /\ fifo' = Append(fifo, e) /\ next_cseq' = next_cseq + 1
        BY <1>6, <3>1 DEF queue
      <3>4. Len(fifo') = Len(fifo) + 1
        BY <3>2, <3>3, AppendProperties
      <3>5. Fed' = (next_cseq + 1) - (Len(fifo) + 1)
        BY <3>3, <3>4 DEF Fed
      <3> QED
        BY <3>5, SlotNumbers DEF Fed
    <2> QED
      BY <1>6, <2>1, ResponsesStay DEF queue, taskVars, serverVars
  <1>7. ASSUME NEW r \in Req, PollReady(r) \/ GiveUp(r)
        PROVE  ResponsesInv'
    <2>1. Len(fifo') = Len(fifo)
      <3>1. DOMAIN fifo' = 1..Len(fifo)
        BY <1>7 DEF PollReady, GiveUp, DropFuture
      <3>2. fifo' \in Seq([cseq : Req, sender : BOOLEAN])
        BY <1>7, QueueTypes DEF TypeOK
      <3> QED
        BY <3>1, <3>2, LenProperties, SlotNumbers
    <2>2. Fed' = Fed
      BY <1>7, <2>1 DEF PollReady, GiveUp, Fed
    <2> QED
      BY <1>7, <2>2, ResponsesStay DEF PollReady, GiveUp, taskVars, serverVars
  <1>8. CASE ClientEnd
    <2>1. /\ UNCHANGED <<completed, next_response, next_send, recvd, reply>> /\ closed' = TRUE
      BY <1>8 DEF ClientEnd, close, serverVars, commandVars
    <2>2. Answered' = Answered /\ Received' = Received
      BY <2>1 DEF Answered, Answers, Received
    <2> QED
      BY <1>1, <2>1, <2>2 DEF ResponsesInv
  <1>9. CASE ClientWake \/ Flush(Client) \/ Receive(Server)
    <2>1. /\ UNCHANGED <<completed, next_response, next_send, closed>> /\ fifo' = fifo /\ next_cseq' = next_cseq
          /\ msgs'[Client] = msgs[Client] /\ wire'[Client] = wire[Client]
          /\ composites'[Server] = composites[Server]
          /\ phase'[Server] # "eof" => phase[Server] # "eof"
      <3>1. CASE ClientWake
        BY <1>1, <3>1 DEF ClientWake, serverVars
      <3>2. CASE Flush(Client)
        BY <1>1, <3>2 DEF Flush, Domains, queueVars, serverVars, EventInv, TypeOK
      <3>3. CASE Receive(Server)
        BY <1>1, <3>3 DEF Receive, Domains, queueVars, serverVars, EventInv, TypeOK
      <3> QED
        BY <1>9, <3>1, <3>2, <3>3
    <2>2. Fed' = Fed
      BY <2>1 DEF Fed
    <2> QED
      BY <2>1, <2>2, ResponsesStay
  <1>10. CASE SleepIdle \/ SleepStart \/ pop \/ closeDrain \/ \E id \in Ids : respond(id)
    <2>1. /\ UNCHANGED <<completed, next_response, next_send, closed, fifo, next_cseq, msgs, wire, composites>>
          /\ phase' = phase
      BY <1>10 DEF SleepIdle, SleepStart, pop, closeDrain, respond, queueVars, taskVars, serverVars
    <2>2. Fed' = Fed
      BY <2>1 DEF Fed
    <2> QED
      BY <2>1, <2>2, ResponsesStay
  <1> QED
    BY <1>2, <1>3, <1>4, <1>5, <1>6, <1>7, <1>8, <1>9, <1>10 DEF Next, Task

-----------------------------------------------------------------------------
(* The commands in the server and in the main loop. *)

\* pump_inflight keeps the order and adds no ids.
LEMMA PumpCommands ==
    ASSUME NEW p \in Seq(Ids), NEW f \in SUBSET Ids, NEW q \in Seq(Ids), NEW st \in SUBSET Ids,
           pump_inflight(p, f, q), InOrder(q, p, st)
    PROVE  /\ InOrder(ready', pending', st)
           /\ \A j \in 1..Len(ready') : \/ \E k \in 1..Len(q) : ready'[j] = q[k]
                                        \/ \E k \in 1..Len(p) : ready'[j] = p[k]
           /\ \A j \in 1..Len(pending') : \E k \in 1..Len(p) : pending'[j] = p[k]
  <1>1. PICK n \in 0..Len(p) :
          /\ pending' = SubSeq(p, n + 1, Len(p))
          /\ ready' = q \o SubSeq(p, 1, n)
    <2>1. \E n \in 0..Len(p) :
             /\ pending' = SubSeq(p, n + 1, Len(p))
             /\ ready' = q \o SubSeq(p, 1, n)
             /\ inflight' = f \cup {p[i] : i \in 1..n}
      BY PumpProps
    <2> QED
      BY ONLY <2>1
  <1> DEFINE h == SubSeq(p, 1, n)
             t == SubSeq(p, n + 1, Len(p))
  <1>2. h \in Seq(Ids) /\ Joined(p, h, t)
    BY SplitSeq
  <1>3. Joined(ready', q, h)
    BY <1>1, <1>2, JoinSeq
  <1>4. InOrder(ready', pending', st)
    BY <1>1, PumpInOrder
  <1>5. pending' = t
    BY <1>1
  <1> HIDE DEF h, t
  <1>6. \A i \in 1..Len(h) : i \in 1..Len(p) /\ h[i] = p[i]
    BY <1>2 DEF Joined
  <1>7. \A i \in 1..Len(t) : Len(h) + i \in 1..Len(p) /\ t[i] = p[Len(h) + i]
    BY <1>2 DEF Joined
  <1>8. ASSUME NEW j \in 1..Len(ready')
        PROVE  \/ \E k \in 1..Len(q) : ready'[j] = q[k]
               \/ \E k \in 1..Len(p) : ready'[j] = p[k]
    BY <1>3, <1>6 DEF Joined
  <1> QED
    BY <1>4, <1>5, <1>7, <1>8

\* Facts about the ids in CommandsInv.
LEMMA CommandFacts ==
    ASSUME EventInv
    PROVE  /\ ready \in Seq(Ids) /\ pending \in Seq(Ids) /\ cmd_pending \in Seq(Ids) /\ popped \in Seq(Ids)
           /\ started \subseteq Ids /\ inflight \subseteq Ids /\ held \subseteq Ids
           /\ reply \in [Ids -> Response \cup {None}]
           /\ \A i \in Ids : i \in Nat /\ i \in Req
           /\ \A j \in 1..Len(ready) : ready[j] \in Ids
           /\ \A j \in 1..Len(pending) : pending[j] \in Ids /\ pending[j] \notin started
           /\ \A j \in 1..Len(cmd_pending) : cmd_pending[j] \in Ids
           /\ \A j \in 1..Len(popped) : popped[j] \in Ids
           /\ \A i \in Ids : i \in CommandIds => ReqOf(i) = i
  <1>1. /\ ready \in Seq(Ids) /\ pending \in Seq(Ids) /\ cmd_pending \in Seq(Ids) /\ popped \in Seq(Ids)
        /\ started \subseteq Ids /\ inflight \subseteq Ids /\ held \subseteq Ids
        /\ reply \in [Ids -> Response \cup {None}]
    BY DEF EventInv, TypeOK
  <1>2. /\ \A j \in 1..Len(ready) : ready[j] \in Ids
        /\ \A j \in 1..Len(pending) : pending[j] \in Ids
        /\ \A j \in 1..Len(cmd_pending) : cmd_pending[j] \in Ids
        /\ \A j \in 1..Len(popped) : popped[j] \in Ids
    BY <1>1, ElementOfSeq
  <1>3. \A i \in Ids : i \in Nat /\ i \in Req
    BY EventConstants
  <1>4. \A j \in 1..Len(pending) : pending[j] \notin started
    <2>1. \A j \in 1..Len(pending) : \A i \in started : i < pending[j]
      BY DEF EventInv, CommandsInv, InOrder
    <2> QED
      BY <1>2, <1>3, <2>1
  <1>5. \A i \in Ids : i \in CommandIds => ReqOf(i) = i
    <2>1. ASSUME NEW i \in Ids, i \in CommandIds
          PROVE  ReqOf(i) = i
      <3>1. Received \in Nat /\ i + 1 \in 1..Received
        BY <1>3, <2>1, AnswerValues DEF CommandIds
      <3>2. recvd[i + 1] = 0 + (i + 1) - 1
        BY <3>1 DEF EventInv, RequestsInv, IsRun, Received
      <3> QED
        BY <1>3, <3>2 DEF ReqOf
    <2> QED
      BY <2>1
  <1> QED
    BY <1>1, <1>2, <1>3, <1>4, <1>5

\* Steps that leave the commands where they are.
LEMMA CommandsStay ==
    ASSUME EventInv, UNCHANGED <<ready, pending, started, reply, cmd_pending, popped, held, recvd>>
    PROVE  CommandsInv'
  <1>1. CommandsInv /\ Received' = Received /\ CommandIds' = CommandIds
    BY DEF EventInv, Received, CommandIds
  <1> QED
    BY <1>1 DEF CommandsInv

\* New commands go behind all the others.
LEMMA ReconcileCommands ==
    ASSUME EventInv, Next, ServerReconcile
    PROVE  CommandsInv'
  <1> USE CommandFacts
  <1> DEFINE m == msgs[Server]
             w == Commands(m, Received)
             p == pending \o w
  <1>1. CommandsInv /\ UNCHANGED <<started, reply, cmd_pending, popped, held>>
    BY DEF EventInv, ServerReconcile, commandVars
  <1>2. CASE m = <<>>
    BY <1>1, <1>2, CommandsStay DEF ServerReconcile, drain_next_response
  <1>3. CASE m # <<>>
    <2>1. recvd' = recvd \o m /\ pump_inflight(p, inflight, ready)
      BY <1>3 DEF ServerReconcile, on_msg, Received
    <2>2. /\ w \in Seq(Ids) /\ Increasing(w) /\ Received \in Nat /\ Len(m) \in Nat
          /\ \A i \in 1..Len(w) : w[i] >= Received /\ w[i] < Received + Len(m) /\ Kind[w[i]] = "command"
      BY NewRequests
    <2>3. Received' = Received + Len(m)
      <3>1. recvd \in Seq(Req) /\ m \in Seq(Req)
        BY NewRequests DEF EventInv, TypeOK
      <3>2. Joined(recvd', recvd, m)
        BY <2>1, <3>1, JoinSeq
      <3> QED
        BY <3>2 DEF Joined, Received
    <2> HIDE DEF w, m
    <2>4. p \in Seq(Ids) /\ Joined(p, pending, w)
      BY <2>2, JoinSeq
    <2>5. InOrder(ready, p, started)
      <3>1. /\ InOrder(ready, pending, started) /\ \A i \in started : i < Received
            /\ \A i \in 1..Len(ready) : ready[i] < Received
            /\ \A i \in 1..Len(pending) : pending[i] < Received
        BY <1>1 DEF CommandsInv, CommandIds
      <3> QED
        BY <2>2, <3>1, NewInOrder
    <2> HIDE DEF p
    <2>6. /\ InOrder(ready', pending', started)
          /\ \A j \in 1..Len(ready') : \/ \E k \in 1..Len(ready) : ready'[j] = ready[k]
                                       \/ \E k \in 1..Len(p) : ready'[j] = p[k]
          /\ \A j \in 1..Len(pending') : \E k \in 1..Len(p) : pending'[j] = p[k]
      BY <2>1, <2>4, <2>5, PumpCommands
    <2>7. \A i \in Ids : i \in CommandIds => i \in CommandIds'
      BY <2>2, <2>3 DEF CommandIds
    <2>8. ASSUME NEW k \in 1..Len(p)
          PROVE  p[k] \in CommandIds' /\ p[k] \notin started
      <3>1. CASE k \in 1..Len(pending)
        <4>1. p[k] = pending[k]
          BY <2>4, <3>1 DEF Joined
        <4>2. pending[k] \in CommandIds /\ pending[k] \in Ids /\ pending[k] \notin started
          BY <1>1, <3>1 DEF CommandsInv
        <4> QED
          BY <2>7, <4>1, <4>2
      <3>2. ASSUME NEW i \in 1..Len(w), k = Len(pending) + i
            PROVE  p[k] \in CommandIds' /\ p[k] \notin started
        <4>1. p[k] = w[i]
          BY <2>4, <3>2 DEF Joined
        <4>2. w[i] < Received' /\ Kind[w[i]] = "command" /\ w[i] \in Ids
          BY <2>2, <2>3, ElementOfSeq
        <4>3. w[i] \notin started
          <5>1. w[i] >= Received /\ w[i] \in Nat
            BY <2>2, <4>2
          <5>2. \A x \in started : x < Received /\ x \in Nat
            BY <1>1 DEF CommandsInv, CommandIds
          <5> QED
            BY <2>2, <5>1, <5>2
        <4> QED
          BY <4>1, <4>2, <4>3 DEF CommandIds
      <3> QED
        BY <2>4, <3>1, <3>2 DEF Joined
    <2>9. ASSUME NEW j \in 1..Len(ready')
          PROVE  ready'[j] \in CommandIds' /\ (ready'[j] \in started => reply[ready'[j]] # None)
      <3>1. ASSUME NEW k \in 1..Len(ready), ready'[j] = ready[k]
            PROVE  ready'[j] \in CommandIds' /\ (ready'[j] \in started => reply[ready'[j]] # None)
        <4>1. ready[k] \in CommandIds' /\ (ready[k] \in started => reply[ready[k]] # None)
          BY <1>1, <2>7 DEF CommandsInv
        <4> QED
          BY <3>1, <4>1
      <3>2. ASSUME NEW k \in 1..Len(p), ready'[j] = p[k]
            PROVE  ready'[j] \in CommandIds' /\ (ready'[j] \in started => reply[ready'[j]] # None)
        BY <2>8, <3>2
      <3> QED
        BY <2>6, <3>1, <3>2
    <2>10. \A j \in 1..Len(pending') : pending'[j] \in CommandIds'
      BY <2>6, <2>8
    <2>11. started \subseteq CommandIds'
      BY <1>1, <2>7 DEF CommandsInv
    <2> QED
      BY <1>1, <2>6, <2>9, <2>10, <2>11 DEF CommandsInv
  <1> QED
    BY <1>2, <1>3

\* A command starts: it is behind all that started before.
LEMMA StartCommands ==
    ASSUME EventInv, Next, SleepStart
    PROVE  CommandsInv'
  <1> USE CommandFacts
  <1> DEFINE id == Head(ready)
             q == Tail(ready)
             st == started \cup {id}
  <1>1. /\ CommandsInv /\ UNCHANGED <<reply, popped, held, recvd>>
        /\ pump_inflight(pending, inflight, q) /\ started' = st
        /\ cmd_pending' = Append(cmd_pending, id) /\ id \notin started /\ ready # <<>>
    BY DEF EventInv, SleepStart
  <1>2. CommandIds' = CommandIds
    BY <1>1 DEF CommandIds, Received
  <1>3. /\ id \in Ids /\ id = ready[1] /\ 1 \in 1..Len(ready) /\ q \in Seq(Ids) /\ Shifted(q, ready)
        /\ Appended(cmd_pending', cmd_pending, id)
    BY <1>1, TailSeq, AppendSeq
  <1>4. InOrder(q, pending, st)
    BY <1>1, TailInOrder DEF CommandsInv
  <1>5. st \in SUBSET Ids
    BY <1>3
  <1> HIDE DEF id, q
  <1>6. id \in CommandIds /\ \A i \in started : i < id
    BY <1>1, <1>3 DEF CommandsInv, InOrder
  <1>7. /\ InOrder(ready', pending', st)
        /\ \A j \in 1..Len(ready') : \/ \E k \in 1..Len(q) : ready'[j] = q[k]
                                     \/ \E k \in 1..Len(pending) : ready'[j] = pending[k]
        /\ \A j \in 1..Len(pending') : \E k \in 1..Len(pending) : pending'[j] = pending[k]
    BY <1>1, <1>3, <1>4, <1>5, PumpCommands
  <1>8. \A k \in 1..Len(pending) : pending[k] \in CommandIds /\ pending[k] \notin st
    <2>1. \A k \in 1..Len(pending) : pending[k] \in CommandIds /\ \A x \in st : x < pending[k]
      BY <1>1, <1>4 DEF CommandsInv, InOrder
    <2> QED
      BY <1>5, <2>1
  <1>9. \A k \in 1..Len(q) : q[k] \in CommandIds /\ (q[k] \in started => reply[q[k]] # None)
    <2>1. \A k \in 1..Len(q) : k + 1 \in 1..Len(ready) /\ q[k] = ready[k + 1]
      BY <1>3 DEF Shifted
    <2>2. \A j \in 1..Len(ready) : ready[j] \in CommandIds /\ (ready[j] \in started => reply[ready[j]] # None)
      BY <1>1 DEF CommandsInv
    <2> QED
      BY <2>1, <2>2
  <1>10. reply[id] = None
    BY <1>1, <1>3 DEF CommandsInv
  <1>11. ASSUME NEW j \in 1..Len(ready')
         PROVE  ready'[j] \in CommandIds /\ (ready'[j] \in st => reply[ready'[j]] # None)
    <2>1. ASSUME NEW k \in 1..Len(pending), ready'[j] = pending[k]
          PROVE  ready'[j] \in CommandIds /\ (ready'[j] \in st => reply[ready'[j]] # None)
      BY <1>8, <2>1
    <2>2. ASSUME NEW k \in 1..Len(q), ready'[j] = q[k]
          PROVE  ready'[j] \in CommandIds /\ (ready'[j] \in st => reply[ready'[j]] # None)
      <3>1. q[k] # id
        <4>1. k + 1 \in 1..Len(ready) /\ q[k] = ready[k + 1] /\ 1 < k + 1
          BY <1>3 DEF Shifted
        <4>2. ready[k + 1] \notin started => ready[1] < ready[k + 1]
          BY <1>1, <1>3, <4>1 DEF CommandsInv, InOrder
        <4>3. id = ready[1] /\ id \notin started /\ id \in Ids
          BY <1>1, <1>3
        <4>4. id \in Nat
          BY <4>3
        <4> QED
          BY ONLY <4>1, <4>2, <4>3, <4>4
      <3> QED
        BY <1>9, <2>2, <3>1
    <2> QED
      BY <1>7, <2>1, <2>2
  <1>12. \A j \in 1..Len(pending') : pending'[j] \in CommandIds
    BY <1>7, <1>8
  <1>13. ASSUME NEW j \in 1..Len(cmd_pending')
         PROVE  cmd_pending'[j] \in st /\ reply[cmd_pending'[j]] = None
    BY <1>1, <1>3, <1>10 DEF CommandsInv, Appended
  <1>14. \A j \in 1..Len(cmd_pending) : cmd_pending[j] \in started
    BY <1>1 DEF CommandsInv
  <1>15. Increasing(cmd_pending')
    <2>1. SUFFICES ASSUME NEW i \in 1..Len(cmd_pending'), NEW j \in 1..Len(cmd_pending'), i < j
                   PROVE  cmd_pending'[i] < cmd_pending'[j]
      BY DEF Increasing
    <2>2. i \in 1..Len(cmd_pending) /\ cmd_pending'[i] = cmd_pending[i]
      BY <1>3, <2>1 DEF Appended
    <2>3. CASE j \in 1..Len(cmd_pending)
      BY <1>1, <1>3, <2>1, <2>2, <2>3 DEF CommandsInv, Increasing, Appended
    <2>4. CASE j = Len(cmd_pending) + 1
      BY <1>3, <1>6, <1>14, <2>2, <2>4 DEF Appended
    <2> QED
      BY <1>3, <2>3, <2>4 DEF Appended
  <1>16. ASSUME NEW j \in 1..Len(popped)
         PROVE  popped[j] \in st /\ \A k \in 1..Len(cmd_pending') : popped[j] < cmd_pending'[k]
    <2>1. popped[j] \in started /\ \A k \in 1..Len(cmd_pending) : popped[j] < cmd_pending[k]
      BY <1>1 DEF CommandsInv
    <2> QED
      BY <1>3, <1>6, <2>1 DEF Appended
  <1>17. st \subseteq CommandIds /\ \A i \in Ids : reply[i] # None => i \in st /\ reply[i].req = i
    BY <1>1, <1>6 DEF CommandsInv
  <1> HIDE DEF st
  <1> QED
    BY <1>1, <1>2, <1>7, <1>11, <1>12, <1>13, <1>15, <1>16, <1>17 DEF CommandsInv

\* A command finishes; it may have had its only poll, when the drain is closed.
LEMMA YieldCommands ==
    ASSUME EventInv, Next, SleepYield
    PROVE  CommandsInv'
  <1> USE CommandFacts
  <1> DEFINE id == Head(ready)
             q == Tail(ready)
             st == started \cup {id}
             resp == IF id \in started THEN reply[id] ELSE Gone(id)
             f == inflight \ {id}
  <1>1. /\ CommandsInv /\ UNCHANGED <<cmd_pending, popped, held, recvd>>
        /\ pump_inflight(pending, f, q) /\ started' = st
        /\ reply' = [reply EXCEPT ![id] = resp] /\ ready # <<>> /\ f \in SUBSET Ids
    BY DEF EventInv, SleepYield
  <1>2. CommandIds' = CommandIds
    BY <1>1 DEF CommandIds, Received
  <1>3. /\ id \in Ids /\ id = ready[1] /\ 1 \in 1..Len(ready) /\ q \in Seq(Ids) /\ Shifted(q, ready)
    BY <1>1, TailSeq
  <1>4. InOrder(q, pending, st)
    BY <1>1, TailInOrder DEF CommandsInv
  <1>5. st \in SUBSET Ids
    BY <1>3
  <1>6. id \in CommandIds /\ (id \in started => reply[id] # None)
    BY <1>1, <1>3 DEF CommandsInv
  <1>7. resp # None /\ resp.req = id
    <2>1. CASE id \in started
      BY <1>1, <1>3, <1>6, <2>1 DEF CommandsInv
    <2>2. CASE id \notin started
      <3>1. Gone(id) = [req |-> id, status |-> "Gone"]
        BY <1>3, <1>6 DEF Gone
      <3>2. Gone(id) # None /\ Gone(id).req = id
        BY <1>3, <3>1 DEF None
      <3> QED
        BY <2>2, <3>2
    <2> QED
      BY <2>1, <2>2
  <1> HIDE DEF id, q, f, resp
  <1>8. /\ InOrder(ready', pending', st)
        /\ \A j \in 1..Len(ready') : \/ \E k \in 1..Len(q) : ready'[j] = q[k]
                                     \/ \E k \in 1..Len(pending) : ready'[j] = pending[k]
        /\ \A j \in 1..Len(pending') : \E k \in 1..Len(pending) : pending'[j] = pending[k]
    BY <1>1, <1>3, <1>4, <1>5, PumpCommands
  <1>9. \A k \in 1..Len(pending) : pending[k] \in CommandIds /\ pending[k] \notin st
    <2>1. \A k \in 1..Len(pending) : pending[k] \in CommandIds /\ \A x \in st : x < pending[k]
      BY <1>1, <1>4 DEF CommandsInv, InOrder
    <2> QED
      BY <1>5, <2>1
  <1>10. \A k \in 1..Len(q) : q[k] \in CommandIds /\ (q[k] \in started => reply[q[k]] # None)
    <2>1. \A k \in 1..Len(q) : k + 1 \in 1..Len(ready) /\ q[k] = ready[k + 1]
      BY <1>3 DEF Shifted
    <2>2. \A j \in 1..Len(ready) : ready[j] \in CommandIds /\ (ready[j] \in started => reply[ready[j]] # None)
      BY <1>1 DEF CommandsInv
    <2> QED
      BY <2>1, <2>2
  <1>11. /\ reply'[id] = resp
         /\ \A i \in Ids : i # id => reply'[i] = reply[i]
    BY <1>1, <1>3
  <1>12. ASSUME NEW j \in 1..Len(ready')
         PROVE  ready'[j] \in CommandIds /\ (ready'[j] \in st => reply'[ready'[j]] # None)
    <2>1. ASSUME NEW k \in 1..Len(pending), ready'[j] = pending[k]
          PROVE  ready'[j] \in CommandIds /\ (ready'[j] \in st => reply'[ready'[j]] # None)
      BY <1>9, <2>1
    <2>2. ASSUME NEW k \in 1..Len(q), ready'[j] = q[k]
          PROVE  ready'[j] \in CommandIds /\ (ready'[j] \in st => reply'[ready'[j]] # None)
      <3>1. q[k] \in CommandIds /\ q[k] \in Ids /\ (q[k] \in started => reply[q[k]] # None)
        BY <1>10 DEF CommandIds
      <3> QED
        BY <1>7, <1>11, <2>2, <3>1
    <2> QED
      BY <1>8, <2>1, <2>2
  <1>13. \A j \in 1..Len(pending') : pending'[j] \in CommandIds
    BY <1>8, <1>9
  <1>14. \A i \in Ids : reply'[i] # None => i \in st /\ reply'[i].req = i
    BY <1>1, <1>7, <1>11 DEF CommandsInv
  <1>15. \A i \in started : reply[i] = None => i # id /\ reply'[i] = None
    BY <1>6, <1>11
  <1>16. ASSUME NEW j \in 1..Len(cmd_pending)
         PROVE  cmd_pending[j] \in st /\ reply'[cmd_pending[j]] = None
    BY <1>1, <1>15 DEF CommandsInv
  <1>17. ASSUME NEW i \in held
         PROVE  reply'[i] = None /\ \E j \in 1..Len(popped) : popped[j] = i
    <2>1. reply[i] = None /\ \E j \in 1..Len(popped) : popped[j] = i
      BY <1>1 DEF CommandsInv
    <2>2. i \in started
      BY <1>1, <2>1 DEF CommandsInv
    <2> QED
      BY <1>15, <2>1, <2>2
  <1>18. \A j \in 1..Len(popped) : popped[j] \in st /\ \A k \in 1..Len(cmd_pending) : popped[j] < cmd_pending[k]
    BY <1>1 DEF CommandsInv
  <1>19. st \subseteq CommandIds
    BY <1>1, <1>6 DEF CommandsInv
  <1> HIDE DEF st
  <1> QED
    BY <1>1, <1>2, <1>8, <1>12, <1>13, <1>14, <1>16, <1>17, <1>18, <1>19 DEF CommandsInv

\* The main loop takes commands, answers them or drops its drain.
LEMMA LoopCommands ==
    ASSUME EventInv, Next, pop \/ closeDrain \/ \E id \in Ids : respond(id)
    PROVE  CommandsInv'
  <1> USE CommandFacts
  <1>1. CommandsInv
    BY DEF EventInv
  <1>2. UNCHANGED <<pending, started, recvd>>
    BY DEF pop, closeDrain, respond, serverVars
  <1>3. CommandIds' = CommandIds
    BY <1>2 DEF CommandIds, Received
  <1>4. CASE pop
    <2> DEFINE id == Head(cmd_pending)
               t == Tail(cmd_pending)
    <2>1. /\ UNCHANGED <<ready, reply>> /\ cmd_pending # <<>> /\ cmd_pending' = t
          /\ held' = held \cup {id} /\ popped' = Append(popped, id)
      BY <1>4 DEF pop, serverVars
    <2>2. id \in Ids /\ id = cmd_pending[1] /\ 1 \in 1..Len(cmd_pending) /\ Shifted(t, cmd_pending)
      BY <2>1, TailSeq
    <2>3. Appended(popped', popped, id)
      BY <2>1, <2>2, AppendSeq
    <2> HIDE DEF id, t
    <2>4. /\ Increasing(cmd_pending) /\ Increasing(popped)
          /\ \A j \in 1..Len(cmd_pending) : cmd_pending[j] \in started /\ reply[cmd_pending[j]] = None
          /\ \A j \in 1..Len(popped) : popped[j] \in started
                                       /\ \A k \in 1..Len(cmd_pending) : popped[j] < cmd_pending[k]
      BY <1>1 DEF CommandsInv
    <2>5. \A j \in 1..Len(t) : j + 1 \in 1..Len(cmd_pending) /\ t[j] = cmd_pending[j + 1] /\ j \in Nat
      BY <2>2 DEF Shifted
    <2>6. Increasing(t)
      <3>1. \A i, j \in 1..Len(t) : i < j => i + 1 < j + 1
        OBVIOUS
      <3> QED
        BY <2>4, <2>5, <3>1 DEF Increasing
    <2>7. \A j \in 1..Len(t) : t[j] \in started /\ reply[t[j]] = None /\ id < t[j]
      <3>1. \A j \in 1..Len(t) : 1 < j + 1
        OBVIOUS
      <3>2. \A j \in 1..Len(t) : id < t[j]
        BY <2>2, <2>4, <2>5, <3>1 DEF Increasing
      <3>3. \A k \in 1..Len(cmd_pending) : cmd_pending[k] \in started /\ reply[cmd_pending[k]] = None
        BY <2>4
      <3> QED
        BY ONLY <2>5, <3>2, <3>3
    <2>8. Increasing(popped')
      <3>1. SUFFICES ASSUME NEW i \in 1..Len(popped'), NEW j \in 1..Len(popped'), i < j
                     PROVE  popped'[i] < popped'[j]
        BY DEF Increasing
      <3>2. i \in 1..Len(popped) /\ popped'[i] = popped[i]
        BY <2>3, <3>1 DEF Appended
      <3>3. CASE j \in 1..Len(popped)
        BY <2>3, <2>4, <3>1, <3>2, <3>3 DEF Increasing, Appended
      <3>4. CASE j = Len(popped) + 1
        BY <2>2, <2>3, <2>4, <3>2, <3>4 DEF Appended
      <3> QED
        BY <2>3, <3>3, <3>4 DEF Appended
    <2>9. ASSUME NEW j \in 1..Len(popped')
          PROVE  popped'[j] \in started /\ \A k \in 1..Len(t) : popped'[j] < t[k]
      <3>1. CASE j \in 1..Len(popped)
        BY <2>3, <2>4, <2>5, <3>1 DEF Appended
      <3>2. CASE j = Len(popped) + 1
        BY <2>2, <2>3, <2>4, <2>7, <3>2 DEF Appended
      <3> QED
        BY <2>3, <3>1, <3>2 DEF Appended
    <2>10. ASSUME NEW i \in held'
           PROVE  reply[i] = None /\ \E j \in 1..Len(popped') : popped'[j] = i
      <3>1. Len(popped) \in Nat /\ Len(popped') = Len(popped) + 1
        BY <2>3 DEF Appended
      <3>2. CASE i = id
        <4>1. Len(popped) + 1 \in 1..Len(popped') /\ popped'[Len(popped) + 1] = i
          BY <2>3, <3>1, <3>2 DEF Appended
        <4> QED
          BY <2>2, <2>4, <3>2, <4>1
      <3>3. CASE i \in held
        <4>1. reply[i] = None /\ \E j \in 1..Len(popped) : popped[j] = i
          BY <1>1, <3>3 DEF CommandsInv
        <4>2. PICK j \in 1..Len(popped) : popped[j] = i
          BY <4>1
        <4>3. j \in 1..Len(popped') /\ popped'[j] = i
          BY <2>3, <3>1, <4>2 DEF Appended
        <4> QED
          BY <4>1, <4>3
      <3> QED
        BY <2>1, <3>2, <3>3
    <2> QED
      BY <1>1, <1>2, <1>3, <2>1, <2>6, <2>7, <2>8, <2>9, <2>10 DEF CommandsInv
  <1>5. ASSUME NEW id \in Ids, respond(id)
        PROVE  CommandsInv'
    <2>1. /\ UNCHANGED <<cmd_pending, popped>> /\ held' = held \ {id} /\ ready' = Append(ready, id)
          /\ id \in held
      BY <1>5 DEF respond
    <2>2. reply[id] = None /\ id \in started /\ \A k \in 1..Len(cmd_pending) : cmd_pending[k] # id
      <3>1. PICK j \in 1..Len(popped) : popped[j] = id
        BY <1>1, <2>1 DEF CommandsInv
      <3>2. popped[j] \in started /\ \A k \in 1..Len(cmd_pending) : popped[j] < cmd_pending[k]
        BY <1>1 DEF CommandsInv
      <3> QED
        BY <1>1, <2>1, <3>1, <3>2 DEF CommandsInv
    <2>3. id \in CommandIds /\ ReqOf(id) = id
      BY <1>1, <2>2 DEF CommandsInv
    <2>4. PICK s \in Statuses \cup {"Gone"} : reply' = [reply EXCEPT ![id] = [req |-> id, status |-> s]]
      BY <1>5, <2>3 DEF respond
    <2>5. /\ reply'[id] # None /\ reply'[id].req = id
          /\ \A i \in Ids : i # id => reply'[i] = reply[i]
      BY <2>4 DEF None
    <2>6. Appended(ready', ready, id)
      BY <2>1, AppendSeq
    <2>7. InOrder(ready', pending, started)
      <3>1. <<id>> \in Seq(Ids) /\ \A i \in 1..Len(<<id>>) : <<id>>[i] \in started
        BY <2>2
      <3>2. ready' = ready \o <<id>>
        BY <2>1, AppendIsConcat
      <3> QED
        BY <1>1, <3>1, <3>2, WokenInOrder DEF CommandsInv
    <2>8. ASSUME NEW j \in 1..Len(ready')
          PROVE  ready'[j] \in CommandIds /\ (ready'[j] \in started => reply'[ready'[j]] # None)
      <3>1. CASE ready'[j] = id
        BY <2>3, <2>5, <3>1
      <3>2. ASSUME j \in 1..Len(ready), ready'[j] # id
            PROVE  ready'[j] \in CommandIds /\ (ready'[j] \in started => reply'[ready'[j]] # None)
        <4>1. ready'[j] = ready[j] /\ ready[j] \in Ids
          BY <2>6, <3>2 DEF Appended
        <4>2. ready[j] \in CommandIds /\ (ready[j] \in started => reply[ready[j]] # None)
          BY <1>1, <3>2 DEF CommandsInv
        <4> QED
          BY <2>5, <3>2, <4>1, <4>2
      <3> QED
        BY <2>6, <3>1, <3>2 DEF Appended
    <2>9. \A i \in Ids : reply'[i] # None => i \in started /\ reply'[i].req = i
      BY <1>1, <2>2, <2>5 DEF CommandsInv
    <2>10. \A j \in 1..Len(cmd_pending) : cmd_pending[j] \in started /\ reply'[cmd_pending[j]] = None
      BY <1>1, <2>2, <2>5 DEF CommandsInv
    <2>11. \A i \in held' : reply'[i] = None /\ \E j \in 1..Len(popped) : popped[j] = i
      BY <1>1, <2>1, <2>5 DEF CommandsInv
    <2> QED
      BY <1>1, <1>2, <1>3, <2>1, <2>7, <2>8, <2>9, <2>10, <2>11 DEF CommandsInv
  <1>6. CASE closeDrain
    <2> DEFINE W == {i \in Ids : \E j \in 1..Len(cmd_pending) : cmd_pending[j] = i}
    <2>1. /\ UNCHANGED <<popped, held>> /\ cmd_pending' = <<>> /\ ready' = ready \o cmd_pending
          /\ reply' = [i \in Ids |-> IF i \in W THEN Gone(i) ELSE reply[i]]
      BY <1>6 DEF closeDrain
    <2>2. \A i \in W : i \in started /\ i \in CommandIds /\ ReqOf(i) = i
      BY <1>1 DEF CommandsInv
    <2>3. \A i \in W : Gone(i) # None /\ Gone(i).req = i
      <3>1. \A i \in W : Gone(i) = [req |-> i, status |-> "Gone"]
        BY <2>2 DEF Gone
      <3>2. \A i \in Ids : [req |-> i, status |-> "Gone"] # None
        BY DEF None
      <3> QED
        BY <3>1, <3>2
    <2>4. Joined(ready', ready, cmd_pending)
      BY <2>1, JoinSeq
    <2>5. InOrder(ready', pending, started)
      BY <1>1, <2>1, WokenInOrder DEF CommandsInv
    <2>6. \A j \in 1..Len(cmd_pending) : cmd_pending[j] \in W
      OBVIOUS
    <2> HIDE DEF W
    <2>7. ASSUME NEW j \in 1..Len(ready')
          PROVE  ready'[j] \in CommandIds /\ (ready'[j] \in started => reply'[ready'[j]] # None)
      <3>1. CASE j \in 1..Len(ready)
        <4>1. ready'[j] = ready[j] /\ ready[j] \in Ids
          BY <2>4, <3>1 DEF Joined
        <4>2. ready[j] \in CommandIds /\ (ready[j] \in started => reply[ready[j]] # None)
          BY <1>1, <3>1 DEF CommandsInv
        <4> QED
          BY <2>1, <2>3, <4>1, <4>2
      <3>2. ASSUME NEW k \in 1..Len(cmd_pending), j = Len(ready) + k
            PROVE  ready'[j] \in CommandIds /\ (ready'[j] \in started => reply'[ready'[j]] # None)
        <4>1. ready'[j] = cmd_pending[k] /\ cmd_pending[k] \in W /\ cmd_pending[k] \in Ids
          BY <2>4, <2>6, <3>2 DEF Joined
        <4> QED
          BY <2>1, <2>2, <2>3, <4>1
      <3> QED
        BY <2>4, <3>1, <3>2 DEF Joined
    <2>8. \A i \in Ids : reply'[i] # None => i \in started /\ reply'[i].req = i
      BY <1>1, <2>1, <2>2, <2>3 DEF CommandsInv
    <2>9. ASSUME NEW i \in held
          PROVE  reply'[i] = None /\ \E j \in 1..Len(popped) : popped[j] = i
      <3>1. reply[i] = None /\ \E j \in 1..Len(popped) : popped[j] = i
        BY <1>1 DEF CommandsInv
      <3>2. \A k \in 1..Len(cmd_pending) : cmd_pending[k] # i
        <4>1. \A k \in 1..Len(cmd_pending) : i < cmd_pending[k]
          BY <1>1, <3>1 DEF CommandsInv
        <4>2. i \in Nat
          OBVIOUS
        <4> QED
          BY ONLY <4>1, <4>2
      <3>3. i \notin W
        BY <3>2 DEF W
      <3> QED
        BY <2>1, <3>1, <3>3
    <2>10. Increasing(cmd_pending') /\ \A j : j \notin 1..Len(cmd_pending')
      BY <2>1, NoElements DEF Increasing
    <2> QED
      BY <1>1, <1>2, <1>3, <2>1, <2>5, <2>7, <2>8, <2>9, <2>10 DEF CommandsInv
  <1> QED
    BY <1>4, <1>5, <1>6

\* Every step keeps the commands in order.
LEMMA CommandsStep ==
    ASSUME EventInv, Next
    PROVE  CommandsInv'
  <1>1. CASE UNCHANGED <<ready, pending, started, reply, cmd_pending, popped, held, recvd>>
    BY <1>1, CommandsStay
  <1>2. CASE ServerReconcile \/ SleepStart \/ SleepYield \/ pop \/ closeDrain \/ \E id \in Ids : respond(id)
    BY <1>2, ReconcileCommands, StartCommands, YieldCommands, LoopCommands
  <1> QED
    BY <1>1, <1>2
    DEF Next, queue, PollReady, GiveUp, ClientReconcile, ClientWake, ClientEnd, Flush, Receive,
        ServerEnd, SleepIdle, serverVars, commandVars

-----------------------------------------------------------------------------
(* The invariant. *)

\* The invariant holds before anything is sent.
LEMMA InitInv == Init => EventInv
  <1> SUFFICES ASSUME Init PROVE EventInv
    OBVIOUS
  <1> USE Ends2, NoElements
  <1>1. Len(recvd) = 0 /\ Len(fifo) = 0 /\ Len(ready) = 0 /\ Len(pending) = 0
        /\ Len(cmd_pending) = 0 /\ Len(popped) = 0 /\ Len(pending_send) = 0
    BY DEF Init
  <1>2. \A t \in Task : msgs[t] = <<>> /\ wire[t] = <<>> /\ composites[t] = <<>> /\ phase[t] = "reconcile"
    BY DEF Init
  <1>3. TypeOK
    <2>1. \A S : <<>> \in Seq(S)
      BY EmptySeq
    <2>2. \A t \in Task : /\ msgs[t] \in Seq(Frames(t)) /\ wire[t] \in Seq(Frames(t))
                          /\ composites[t] \in Seq(Frames(Other(t)))
      BY <1>2, <2>1
    <2>3. 0 \in 0..MaxReq
      BY EventConstants
    <2>4. /\ next_cseq \in 0..MaxReq /\ next_send \in 0..MaxReq
          /\ pending_send \in Seq(Req) /\ fifo \in Seq([cseq : Req, sender : BOOLEAN])
          /\ notify \in BOOLEAN /\ closed \in BOOLEAN /\ armed \in BOOLEAN /\ cmd_closed \in BOOLEAN
      BY <2>1, <2>3 DEF Init
    <2>5. /\ oneshot \in [Req -> Response \cup {None, Closed}] /\ call \in [Req -> CallState]
          /\ phase \in [Task -> {"reconcile", "sleep", "eof"}]
          /\ completed \in [Ids -> Response \cup {None}] /\ reply \in [Ids -> Response \cup {None}]
      BY DEF Init, CallState
    <2>6. /\ recvd \in Seq(Req) /\ pending \in Seq(Ids) /\ ready \in Seq(Ids)
          /\ cmd_pending \in Seq(Ids) /\ popped \in Seq(Ids)
          /\ inflight \subseteq Ids /\ started \subseteq Ids /\ held \subseteq Ids
          /\ next_response \in Response \cup {None}
      BY <2>1 DEF Init
    <2> QED
      BY <2>2, <2>4, <2>5, <2>6 DEF TypeOK
  <1>4. Domains
    BY <1>2 DEF Init, Domains
  <1>5. Fed = 0 /\ Received = 0 /\ \A r \in Req : r >= 0 /\ ~(r < 0)
    <2>1. \A r \in Req : r >= 0 /\ ~(r < 0)
      BY EventConstants
    <2>2. next_cseq = 0
      BY DEF Init
    <2>3. Fed = 0 - 0 /\ Received = 0
      BY <1>1, <2>2 DEF Fed, Received
    <2> QED
      BY <2>1, <2>3
  <1>6. CallsInv
    BY <1>1, <1>5 DEF Init, CallsInv
  <1>7. Client \in Task /\ Server \in Task
    OBVIOUS
  <1>8. WireStart = 0 /\ CompositesStart = 0 /\ PendingStart = 0
    <2>1. Len(msgs[Server]) = 0 /\ Len(wire[Server]) = 0 /\ Len(composites[Client]) = 0
      BY <1>2, <1>7
    <2> QED
      BY <1>5, <2>1 DEF WireStart, CompositesStart, PendingStart
  <1>9. RequestsInv
    BY <1>1, <1>2, <1>5, <1>7, <1>8 DEF Init, RequestsInv
  <1>10. AnswersStart = 0 /\ UnflushedStart = 0
    <2>1. Len(msgs[Client]) = 0 /\ Len(wire[Client]) = 0
      BY <1>2, <1>7
    <2> QED
      BY <1>5, <2>1 DEF AnswersStart, UnflushedStart
  <1>11. next_send = 0 /\ Len(Opt(next_response)) = 0 /\ next_response = None
    BY DEF Init, Opt
  <1>12. ResponsesInv
    BY <1>2, <1>5, <1>7, <1>10, <1>11 DEF Init, ResponsesInv
  <1>13. CommandsInv
    BY <1>1 DEF Init, CommandsInv, InOrder, Increasing
  <1> QED
    BY <1>3, <1>4, <1>6, <1>9, <1>12, <1>13 DEF EventInv

\* Every step keeps the invariant.
LEMMA NextInv == EventInv /\ [Next]_vars => EventInv'
  <1>1. ASSUME EventInv, Next PROVE EventInv'
    BY <1>1, NextTypes, CallsStep, RequestsStep, ResponsesStep, CommandsStep DEF EventInv
  <1>2. ASSUME EventInv, UNCHANGED vars PROVE EventInv'
    <2> USE <1>2 DEF vars, queueVars, taskVars, serverVars, commandVars
    <2>1. Received' = Received /\ Fed' = Fed /\ Answered' = Answered /\ \A r : Answers(r)' = Answers(r)
      BY DEF Received, Fed, Answered, Answers
    <2>2. TypeOK' /\ Domains'
      BY DEF EventInv, TypeOK, Domains
    <2>3. CallsInv'
      BY <2>1 DEF EventInv, CallsInv
    <2>4. RequestsInv'
      BY <2>1 DEF EventInv, RequestsInv, WireStart, CompositesStart, PendingStart
    <2>5. ResponsesInv'
      BY <2>1 DEF EventInv, ResponsesInv, AnswersStart, UnflushedStart
    <2>6. CommandsInv'
      BY <1>2, CommandsStay
    <2> QED
      BY <2>2, <2>3, <2>4, <2>5, <2>6 DEF EventInv
  <1> QED
    BY <1>1, <1>2

\* The invariant holds of every state.
LEMMA EventInvariance == Spec => []EventInv
  BY InitInv, NextInv, PTL DEF Spec

\* The types of both ends, of the connection and of the main loop.
THEOREM EventTypesCorrect == Spec => []TypeOK
  <1>1. EventInv => TypeOK
    BY DEF EventInv
  <1> QED
    BY <1>1, EventInvariance, PTL

\* A caller that waits has its result or a live slot in an open queue: no request that
\* races close(), at any point of its way, leaves its caller behind.
THEOREM NobodyEverForgotten == Spec => []NobodyForgotten
  <1>1. EventInv => NobodyForgotten
    <2> SUFFICES ASSUME EventInv, NEW r \in Req, call[r] = "waiting", oneshot[r] = None
                 PROVE  ~closed /\ \E i \in 1..Len(fifo) : fifo[i] = [cseq |-> r, sender |-> TRUE]
      BY DEF NobodyForgotten
    <2>1. r \in Nat /\ r < next_cseq /\ Fed <= r
      BY SlotNumbers, EventConstants DEF EventInv, CallsInv
    <2> DEFINE i == r - Fed + 1
    <2>2. i \in 1..Len(fifo) /\ Fed + i - 1 = r
      BY <2>1, SlotNumbers
    <2> HIDE DEF i
    <2>3. fifo[i].cseq = r /\ fifo[i].sender = TRUE /\ fifo[i] \in [cseq : Req, sender : BOOLEAN]
      <3>1. fifo[i].sender <=> call[r] = "waiting"
        BY <2>2 DEF EventInv, CallsInv
      <3> QED
        BY <2>2, <3>1, SlotNumbers
    <2>4. fifo[i] = [cseq |-> r, sender |-> TRUE]
      BY <2>3
    <2>5. ~closed
      BY <2>2, NoElements DEF EventInv, CallsInv
    <2> QED
      BY <2>2, <2>4, <2>5
  <1> QED
    BY <1>1, EventInvariance, PTL

\* A client that sleeps with requests to send has been notified, whichever branch of
\* sleep() ran between queue() and the sleep.
THEOREM SendAlwaysNotified == Spec => []SendNotified
  <1>1. Init => SendNotified
    BY DEF Init, SendNotified
  <1>2. EventInv /\ SendNotified /\ [Next]_vars => SendNotified'
    <2> SUFFICES ASSUME EventInv, SendNotified, [Next]_vars PROVE SendNotified'
      OBVIOUS
    <2> USE Ends2
    <2>1. Domains /\ phase \in [Task -> {"reconcile", "sleep", "eof"}]
      BY DEF EventInv, TypeOK
    <2>2. CASE UNCHANGED <<pending_send, notify>> /\ phase'[Client] = phase[Client]
      BY <2>2 DEF SendNotified
    <2>3. ASSUME NEW r \in Req, queue(r) PROVE SendNotified'
      BY <2>1, <2>3 DEF queue, SendNotified, Domains, taskVars
    <2>4. CASE ClientReconcile
      BY <2>4 DEF ClientReconcile, SendNotified
    <2>5. CASE ClientWake \/ Flush(Client) \/ Receive(Client) \/ ClientEnd
      BY <2>1, <2>5 DEF ClientWake, Flush, Receive, ClientEnd, Finish, SendNotified
    <2>6. CASE Flush(Server) \/ Receive(Server) \/ ServerEnd
      BY <2>1, <2>2, <2>6 DEF Flush, Receive, ServerEnd, Finish, queueVars
    <2>7. CASE ServerReconcile \/ SleepYield
      BY <2>1, <2>2, <2>7 DEF ServerReconcile, SleepYield, queueVars
    <2>8. CASE \/ \E r \in Req : PollReady(r) \/ GiveUp(r)
               \/ SleepIdle \/ SleepStart \/ pop \/ closeDrain \/ \E id \in Ids : respond(id)
      BY <2>2, <2>8 DEF PollReady, GiveUp, SleepIdle, SleepStart, pop, closeDrain, respond,
                        queueVars, taskVars
    <2>9. CASE UNCHANGED vars
      BY <2>2, <2>9 DEF vars, queueVars, taskVars
    <2> QED
      BY <2>3, <2>4, <2>5, <2>6, <2>7, <2>8, <2>9 DEF Next, Task
  <1> QED
    BY <1>1, <1>2, EventInvariance, PTL DEF Spec

-----------------------------------------------------------------------------
(* The positions of the slots. *)

\* A run that goes on where another ends makes a longer one.
LEMMA RunConcat ==
    ASSUME NEW s \in Seq(Req), NEW t \in Seq(Req), NEW a \in Nat, IsRun(s, a), IsRun(t, a + Len(s))
    PROVE  s \o t \in Seq(Req) /\ IsRun(s \o t, a) /\ Len(s \o t) = Len(s) + Len(t)
  <1> DEFINE u == s \o t
  <1>1. u \in Seq(Req) /\ Joined(u, s, t)
    BY JoinSeq
  <1> HIDE DEF u
  <1>2. IsRun(u, a)
    BY <1>1, RunJoin
  <1> QED
    BY <1>1, <1>2 DEF Joined, u

\* Where a run begins and its length say what it is.
LEMMA RunEqual ==
    ASSUME NEW s \in Seq(Req), NEW t \in Seq(Req), NEW a \in Nat, IsRun(s, a), IsRun(t, a), Len(s) = Len(t)
    PROVE  s = t
  <1>1. \A i \in 1..Len(s) : s[i] = t[i]
    BY DEF IsRun
  <1> QED
    BY <1>1, SeqEqual

\* The requests that answers are for.
LEMMA ReqsRun ==
    ASSUME EventInv, NEW s \in Seq(Response), NEW a \in Nat, AnswersTo(s, a, Answered)
    PROVE  Reqs(s) \in Seq(Req) /\ IsRun(Reqs(s), a) /\ Len(Reqs(s)) = Len(s)
  <1>1. Len(s) \in Nat
    BY LenProperties
  <1>2. \A i \in 1..Len(s) : s[i].req = a + i - 1 /\ a + i - 1 \in Req
    BY AnswerValues DEF AnswersTo
  <1>3. Reqs(s) \in [1..Len(s) -> Req] /\ \A i \in 1..Len(s) : Reqs(s)[i] = a + i - 1
    BY <1>2 DEF Reqs
  <1>4. Reqs(s) \in Seq(Req) /\ Len(Reqs(s)) = Len(s)
    BY <1>1, <1>3, FunctionSeq
  <1> QED
    BY <1>3, <1>4 DEF IsRun

\* The client has only positions to match answers with: its slots line up with the answers
\* that are on their way and those still to be made, in whatever order commands finish,
\* callers give up and frames are batched, flushed or cut off.
THEOREM SlotsAlwaysAligned == Spec => []SlotsAligned
  <1>1. EventInv => SlotsAligned
    <2> SUFFICES ASSUME EventInv, ~closed
                 PROVE  /\ Len(Returning) <= Len(Slots) /\ SubSeq(Slots, 1, Len(Returning)) = Returning
                        /\ phase[Server] # "eof" => Slots = Returning \o Outstanding
      BY DEF SlotsAligned
    <2>0. /\ Fed \in Nat /\ Len(fifo) \in Nat /\ next_cseq \in Nat /\ Fed + Len(fifo) = next_cseq
          /\ Received \in Nat
          /\ \A i \in 1..Len(fifo) : Fed + i - 1 \in Req /\ fifo[i].cseq = Fed + i - 1
      BY SlotNumbers, RequestLengths
    <2> DEFINE m == msgs[Client]
               w == wire[Client]
               c == composites[Server]
               o == Opt(next_response)
    <2>1. /\ m \in Seq(Response) /\ w \in Seq(Response) /\ c \in Seq(Response) /\ o \in Seq(Response)
          /\ Len(m) \in Nat /\ Len(w) \in Nat /\ Len(c) \in Nat /\ Len(o) \in Nat
          /\ next_response \in Response \cup {None} /\ next_send \in Nat
          /\ next_send \in 0..MaxReq
      <3>1. next_response \in Response \cup {None} /\ next_send \in 0..MaxReq
        BY DEF EventInv, TypeOK
      <3>2. next_send \in Nat
        BY <3>1, EventConstants
      <3>3. o \in Seq(Response) /\ Len(o) \in Nat
        BY <3>1, OptType
      <3>4. /\ m \in Seq(Response) /\ w \in Seq(Response) /\ c \in Seq(Response)
            /\ Len(m) \in Nat /\ Len(w) \in Nat /\ Len(c) \in Nat
        BY FedInOrder
      <3> QED
        BY <3>1, <3>2, <3>3, <3>4
    <2>2. /\ UnflushedStart \in Nat /\ AnswersStart \in Nat
          /\ AnswersStart = Fed + Len(m) /\ UnflushedStart = AnswersStart + Len(w)
      <3>1. AnswersStart = Fed + Len(m) /\ UnflushedStart = AnswersStart + Len(w)
        BY DEF AnswersStart, UnflushedStart
      <3>2. Fed \in Nat
        BY SlotNumbers
      <3> HIDE DEF m, w, c, o
      <3>3. AnswersStart \in Nat
        BY <2>1, <3>1, <3>2
      <3>4. UnflushedStart \in Nat
        BY <2>1, <3>1, <3>3
      <3> QED
        BY <3>1, <3>3, <3>4
    <2>3. /\ AnswersTo(m, Fed, Answered) /\ AnswersTo(w, AnswersStart, Answered)
          /\ phase[Server] # "eof" => /\ AnswersTo(c, UnflushedStart, Answered)
                                      /\ UnflushedStart + Len(c) + Len(o) = next_send
          /\ UnflushedStart <= next_send /\ next_send <= Received /\ Received <= next_cseq
      BY DEF EventInv, ResponsesInv, RequestsInv
    <2>4. /\ Slots \in Seq(Req) /\ IsRun(Slots, Fed) /\ Len(Slots) = Len(fifo)
      <3>1. Slots \in [1..Len(fifo) -> Req] /\ \A i \in 1..Len(fifo) : Slots[i] = Fed + i - 1
        BY <2>0 DEF Slots
      <3>2. Slots \in Seq(Req) /\ Len(Slots) = Len(fifo)
        BY <2>0, <3>1, FunctionSeq
      <3> QED
        BY <3>1, <3>2 DEF IsRun
    <2>5. /\ Returning \in Seq(Req) /\ IsRun(Returning, Fed)
          /\ Len(Returning) = Len(m) + Len(w) /\ Fed + Len(Returning) = UnflushedStart
      <3> DEFINE u == m \o w
      <3>1. u \in Seq(Response) /\ Joined(u, m, w)
        BY <2>1, JoinSeq
      <3> HIDE DEF u
      <3>2. AnswersTo(u, Fed, Answered)
        BY <2>0, <2>2, <2>3, <3>1, AnswersJoin
      <3>3. Returning \in Seq(Req) /\ IsRun(Returning, Fed) /\ Len(Returning) = Len(u)
        BY <2>0, <3>1, <3>2, ReqsRun DEF Returning, u
      <3>4. Len(u) = Len(m) + Len(w)
        BY <3>1 DEF Joined
      <3> HIDE DEF m, w
      <3>5. Fed + (Len(m) + Len(w)) = UnflushedStart
        BY <2>0, <2>1, <2>2
      <3> QED
        BY <3>3, <3>4, <3>5
    <2> HIDE DEF m, w, c, o
    <2>6. Len(Returning) \in Nat /\ Len(Returning) <= Len(Slots)
      <3>1. Len(Returning) \in Nat
        BY <2>1, <2>5
      <3>2. Fed + Len(Returning) <= Fed + Len(fifo)
        BY <2>0, <2>1, <2>2, <2>3, <2>5
      <3> QED
        BY <2>0, <2>4, <3>1, <3>2
    <2>7. SubSeq(Slots, 1, Len(Returning)) = Returning
      <3> DEFINE n == Len(Returning)
                 h == SubSeq(Slots, 1, n)
                 t == SubSeq(Slots, n + 1, Len(Slots))
      <3>1. n \in 0..Len(Slots)
        BY <2>0, <2>4, <2>6
      <3>2. h \in Seq(Req) /\ Len(h) = n /\ Joined(Slots, h, t)
        BY <2>4, <3>1, SplitSeq
      <3> HIDE DEF h, t, n
      <3>3. IsRun(h, Fed)
        BY <2>0, <2>4, <3>2, RunJoin
      <3>4. h = Returning
        BY <2>0, <2>5, <3>2, <3>3, RunEqual DEF n
      <3> QED
        BY <3>4 DEF h, n
    <2>8. ASSUME phase[Server] # "eof"
          PROVE  Slots = Returning \o Outstanding
      <3> DEFINE q1 == Reqs(c \o o)
                 q2 == Drop1(recvd, next_send)
                 q3 == msgs[Server]
                 q4 == wire[Server]
                 q5 == composites[Client]
                 q6 == pending_send
      <3>1. /\ IsRun(recvd, 0) /\ IsRun(q3, Received) /\ IsRun(q4, WireStart)
            /\ IsRun(q5, CompositesStart) /\ IsRun(q6, PendingStart)
            /\ PendingStart + Len(q6) = next_cseq
        BY <2>8 DEF EventInv, RequestsInv
      <3>2. q1 \in Seq(Req) /\ IsRun(q1, UnflushedStart) /\ UnflushedStart + Len(q1) = next_send
        <4> DEFINE u == c \o o
        <4>1. u \in Seq(Response) /\ Joined(u, c, o)
          BY <2>1, JoinSeq
        <4>2. next_response # None =>
                /\ next_send > 0 /\ next_response \in Answered[next_send - 1]
                /\ UnflushedStart + Len(c) = next_send - 1 /\ next_send - 1 \in Req
          <5> SUFFICES ASSUME next_response # None
                       PROVE  /\ next_send > 0 /\ next_response \in Answered[next_send - 1]
                              /\ UnflushedStart + Len(c) = next_send - 1 /\ next_send - 1 \in Req
            OBVIOUS
          <5>1. next_send > 0 /\ next_response \in Answered[next_send - 1]
            BY DEF EventInv, ResponsesInv
          <5>2. Len(o) = 1
            BY <2>1, OptType DEF o
          <5> DEFINE a == UnflushedStart
                     k == Len(c)
          <5>3. a \in Nat /\ k \in Nat /\ a + k + 1 = next_send
            BY <2>1, <2>2, <2>3, <2>8, <5>2
          <5> HIDE DEF a, k
          <5>4. a + k = next_send - 1
            BY <2>1, <5>3
          <5>5. next_send - 1 \in Req
            BY <2>1, <5>1, EventConstants DEF Req
          <5> QED
            BY <5>1, <5>4, <5>5 DEF a, k
        <4>3. AnswersTo(o, UnflushedStart + Len(c), Answered)
          <5> DEFINE a == UnflushedStart
                     k == Len(c)
          <5>1. a + k \in Nat
            <6>1. a \in Nat /\ k \in Nat
              BY <2>1, <2>2
            <6> HIDE DEF a, k
            <6> QED
              BY <6>1
          <5> QED
            BY <2>1, <4>2, <5>1, OneAnswer DEF o
        <4> HIDE DEF u
        <4>4. AnswersTo(u, UnflushedStart, Answered)
          BY <2>2, <2>3, <2>8, <4>1, <4>3, AnswersJoin
        <4>5. Len(u) = Len(c) + Len(o)
          BY <4>1 DEF Joined
        <4>6. UnflushedStart + Len(u) = next_send
          BY <2>1, <2>2, <2>3, <2>8, <4>5
        <4> QED
          BY <2>2, <4>1, <4>4, <4>6, ReqsRun DEF u
      <3>3. q2 \in Seq(Req) /\ IsRun(q2, next_send) /\ next_send + Len(q2) = Received
        <4> DEFINE h == SubSeq(recvd, 1, next_send)
        <4>1. next_send \in 0..Len(recvd)
          BY <2>0, <2>1, <2>3 DEF Received
        <4>2. q2 \in Seq(Req) /\ Len(h) = next_send /\ Joined(recvd, h, q2)
          BY <4>1, RequestLengths, SplitSeq DEF Drop1
        <4> HIDE DEF h, q2
        <4>3. IsRun(q2, 0 + Len(h)) /\ Len(recvd) = Len(h) + Len(q2)
          BY <3>1, <4>2, RunJoin DEF Joined
        <4> QED
          BY <2>1, <4>2, <4>3 DEF Received
      <3>4. /\ WireStart = Received + Len(q3) /\ CompositesStart = WireStart + Len(q4)
            /\ PendingStart = CompositesStart + Len(q5)
            /\ WireStart \in Nat /\ CompositesStart \in Nat /\ PendingStart \in Nat
        <4>1. /\ WireStart = Received + Len(q3) /\ CompositesStart = WireStart + Len(q4)
              /\ PendingStart = CompositesStart + Len(q5)
          BY DEF WireStart, CompositesStart, PendingStart
        <4>2. Len(q3) \in Nat /\ Len(q4) \in Nat /\ Len(q5) \in Nat
          BY RequestLengths
        <4> HIDE DEF q3, q4, q5
        <4>3. WireStart \in Nat
          BY <2>0, <4>1, <4>2
        <4>4. CompositesStart \in Nat
          BY <4>1, <4>2, <4>3
        <4>5. PendingStart \in Nat
          BY <4>1, <4>2, <4>4
        <4> QED
          BY <4>1, <4>3, <4>4, <4>5
      <3> HIDE DEF q1, q2, q3, q4, q5, q6
      <3>5. /\ q3 \in Seq(Req) /\ q4 \in Seq(Req) /\ q5 \in Seq(Req) /\ q6 \in Seq(Req)
            /\ Len(q1) \in Nat /\ Len(q2) \in Nat /\ Len(q3) \in Nat /\ Len(q4) \in Nat
            /\ Len(q5) \in Nat /\ Len(q6) \in Nat
        <4>1. q3 \in Seq(Req) /\ q4 \in Seq(Req) /\ q5 \in Seq(Req) /\ q6 \in Seq(Req)
          BY RequestLengths DEF q3, q4, q5, q6
        <4> QED
          BY <3>2, <3>3, <4>1, LenProperties
      <3> DEFINE a == UnflushedStart
                 u2 == q1 \o q2
                 u3 == u2 \o q3
                 u4 == u3 \o q4
                 u5 == u4 \o q5
                 u6 == u5 \o q6
      <3> HIDE DEF a
      <3>6. a \in Nat /\ a + Len(q1) = next_send
        BY <2>2, <3>2 DEF a
      <3>7. u2 \in Seq(Req) /\ IsRun(u2, a) /\ a + Len(u2) = Received
        <4>1. u2 \in Seq(Req) /\ IsRun(u2, a) /\ Len(u2) = Len(q1) + Len(q2)
          BY <3>2, <3>3, <3>6, RunConcat DEF a
        <4> QED
          BY <3>3, <3>5, <3>6, <4>1
      <3> HIDE DEF u2
      <3>8. u3 \in Seq(Req) /\ IsRun(u3, a) /\ a + Len(u3) = WireStart
        <4>1. u3 \in Seq(Req) /\ IsRun(u3, a) /\ Len(u3) = Len(u2) + Len(q3)
          BY <2>0, <3>1, <3>5, <3>6, <3>7, RunConcat
        <4>2. Len(u2) \in Nat
          BY <3>7, LenProperties
        <4> QED
          BY <3>4, <3>5, <3>6, <3>7, <4>1, <4>2
      <3> HIDE DEF u3
      <3>9. u4 \in Seq(Req) /\ IsRun(u4, a) /\ a + Len(u4) = CompositesStart
        <4>1. u4 \in Seq(Req) /\ IsRun(u4, a) /\ Len(u4) = Len(u3) + Len(q4)
          BY <3>1, <3>5, <3>6, <3>8, RunConcat
        <4>2. Len(u3) \in Nat
          BY <3>8, LenProperties
        <4> QED
          BY <3>4, <3>5, <3>6, <3>8, <4>1, <4>2
      <3> HIDE DEF u4
      <3>10. u5 \in Seq(Req) /\ IsRun(u5, a) /\ a + Len(u5) = PendingStart
        <4>1. u5 \in Seq(Req) /\ IsRun(u5, a) /\ Len(u5) = Len(u4) + Len(q5)
          BY <3>1, <3>5, <3>6, <3>9, RunConcat
        <4>2. Len(u4) \in Nat
          BY <3>9, LenProperties
        <4> QED
          BY <3>4, <3>5, <3>6, <3>9, <4>1, <4>2
      <3> HIDE DEF u5
      <3>11. u6 \in Seq(Req) /\ IsRun(u6, a) /\ a + Len(u6) = next_cseq
        <4>1. u6 \in Seq(Req) /\ IsRun(u6, a) /\ Len(u6) = Len(u5) + Len(q6)
          BY <3>1, <3>5, <3>6, <3>10, RunConcat
        <4>2. Len(u5) \in Nat
          BY <3>10, LenProperties
        <4> QED
          BY <3>1, <3>4, <3>5, <3>6, <3>10, <4>1, <4>2
      <3>12. u6 = Outstanding
        BY DEF Outstanding, c, o, q1, q2, q3, q4, q5, q6, u2, u3, u4, u5
      <3> HIDE DEF u6
      <3>13. /\ Returning \o u6 \in Seq(Req) /\ IsRun(Returning \o u6, Fed)
             /\ Len(Returning \o u6) = Len(Returning) + Len(u6)
        BY <2>0, <2>5, <3>11, RunConcat DEF a
      <3>14. Len(Returning) + Len(u6) = Len(fifo)
        <4>1. Len(u6) \in Nat /\ Fed + Len(Returning) + Len(u6) = next_cseq
          BY <2>5, <3>11, LenProperties DEF a
        <4> QED
          BY <2>0, <2>6, <4>1
      <3>15. Slots = Returning \o u6
        BY <2>0, <2>4, <3>13, <3>14, RunEqual
      <3> QED
        BY <3>12, <3>15
    <2> QED
      BY <2>6, <2>7, <2>8
  <1> QED
    BY <1>1, EventInvariance, PTL

-----------------------------------------------------------------------------
(* The refinement: what the channel does, as its callers and the handler see it. *)

ServiceGot == [r \in Req |-> IF call[r] = "answered" THEN {oneshot[r]} ELSE {}]
ServiceHanded == [i \in 1..Len(popped) |-> ReqOf(popped[i])]
ServiceGiven == [r \in Req |-> GivenTo(r)]

\* What the abstract variables are, by the invariant.
ServiceView ==
    /\ ServiceGiven = Answered
    /\ ServiceHanded = popped
    /\ \A r \in Req : /\ \A a \in Answered[r] : a \in Response /\ Answered[r] = {a}
                      /\ Answered[r] # {} => call[r] # "idle"

\* The replies and the refusals of a request are its answers, and the handler gets the
\* requests whose ids are popped.
LEMMA ServiceViewHolds == EventInv => ServiceView
  <1> SUFFICES ASSUME EventInv
               PROVE  ServiceView
    OBVIOUS
  <1>1. /\ \A i \in Ids : i \in Req /\ i \in Nat
        /\ reply \in [Ids -> Response \cup {None}]
        /\ \A i \in Ids : reply[i] # None => Kind[i] = "command" /\ reply[i].req = i
    BY CommandFacts DEF EventInv, CommandsInv, CommandIds
  <1>2. \A r \in Req : r \in Ids /\ r \in Nat
    BY EventConstants
  <1>3. \A r \in Req : (\E i \in 1..Len(recvd) : recvd[i] = r) <=> r < Received
    <2>1. /\ \A i \in 1..Len(recvd) : recvd[i] = i - 1
          /\ Received \in Nat /\ Received = Len(recvd)
      BY AnswerValues DEF EventInv, RequestsInv, IsRun, Received
    <2>2. ASSUME NEW r \in Req, r < Received
          PROVE  r + 1 \in 1..Len(recvd) /\ recvd[r + 1] = r
      BY <1>2, <2>1, <2>2
    <2>3. ASSUME NEW r \in Req, NEW i \in 1..Len(recvd), recvd[i] = r
          PROVE  r < Received
      BY <2>1, <2>3
    <2> QED
      BY <2>2, <2>3
  <1>4. ASSUME NEW r \in Req
        PROVE  GivenTo(r) = Answers(r)
    <2> DEFINE I == {j \in Ids : reply[j].req = r}
    <2>1. \A j \in I : j = r /\ reply[r] # None /\ Kind[r] = "command"
      BY <1>1, <1>2 DEF None
    <2>2. r \in I <=> reply[r] # None
      BY <1>1, <1>2, <2>1
    <2>3. {reply[i] : i \in I} = IF reply[r] = None THEN {} ELSE {reply[r]}
      BY <2>1, <2>2
    <2>4. Kind[r] # "command" => reply[r] = None
      BY <1>1, <1>2
    <2> QED
      BY <1>3, <2>3, <2>4 DEF GivenTo, Answers
  <1>5. ServiceGiven = Answered
    BY <1>4 DEF ServiceGiven, Answered
  <1>6. ServiceHanded = popped
    <2>1. popped \in Seq(Ids) /\ \A j \in 1..Len(popped) : ReqOf(popped[j]) = popped[j]
      BY CommandFacts DEF EventInv, CommandsInv
    <2> QED
      BY <2>1 DEF ServiceHanded
  <1>7. ASSUME NEW r \in Req
        PROVE  /\ \A a \in Answered[r] : a \in Response /\ Answered[r] = {a}
               /\ Answered[r] # {} => call[r] # "idle"
    <2>1. \A a \in Answered[r] : a \in Response /\ Answered[r] = {a}
      BY AnswerValues
    <2>2. Answered[r] # {} => r < Received
      BY AnswerValues, AnsweredReceived
    <2>3. Received <= next_cseq /\ (call[r] = "idle" <=> r >= next_cseq)
      BY DEF EventInv, RequestsInv, CallsInv
    <2> QED
      BY <1>2, <2>1, <2>2, <2>3, RequestLengths
  <1> QED
    BY <1>5, <1>6, <1>7 DEF ServiceView

\* Steps that neither number a request nor answer a command.
LEMMA SameAnswers ==
    ASSUME UNCHANGED <<reply, recvd>>
    PROVE  Answered' = Answered
  BY DEF Answered, Answers, Received

\* Steps that nobody sees.
LEMMA ServiceStutter ==
    ASSUME ServiceView, ServiceView', UNCHANGED <<reply, recvd, popped, call>>,
           ServiceGot' = ServiceGot
    PROVE  UNCHANGED Service!svars
  <1>1. ServiceGiven' = ServiceGiven /\ ServiceHanded' = ServiceHanded
    BY SameAnswers DEF ServiceView
  <1> QED
    BY <1>1 DEF Service!svars, ServiceGot, ServiceGiven, ServiceHanded

\* A caller sends a command.
LEMMA QueueIssues ==
    ASSUME EventInv, ServiceView, ServiceView', NEW r \in Req, queue(r)
    PROVE  Service!Issue(r)
  <1>1. /\ call[r] = "idle" /\ \A q \in Req : q < r => call[q] # "idle"
        /\ call \in [Req -> CallState] /\ oneshot \in [Req -> Response \cup {None, Closed}]
    BY RequestLengths, EventConstants DEF EventInv, CallsInv, TypeOK, queue
  <1>2. /\ call' = [call EXCEPT ![r] = "waiting"]
        /\ \A q \in Req : q # r => oneshot'[q] = oneshot[q]
        /\ UNCHANGED <<reply, recvd, popped>>
    BY <1>1 DEF queue, taskVars, serverVars, commandVars
  <1>3. ServiceGot' = ServiceGot
    BY <1>1, <1>2 DEF ServiceGot
  <1>4. ServiceGiven' = ServiceGiven /\ ServiceHanded' = ServiceHanded
    BY <1>2, SameAnswers DEF ServiceView
  <1> QED
    BY <1>1, <1>2, <1>3, <1>4 DEF Service!Issue, ServiceGot, ServiceGiven, ServiceHanded

\* A caller gets the answer to its own command, or learns that the queue was closed.
LEMMA PollReturns ==
    ASSUME EventInv, ServiceView, ServiceView', NEW r \in Req, PollReady(r)
    PROVE  Service!Return(r) \/ Service!GiveUp(r)
  <1>1. /\ call[r] = "waiting" /\ oneshot[r] # None /\ oneshot' = oneshot
        /\ call' = [call EXCEPT ![r] = IF oneshot[r] = Closed THEN "closed" ELSE "answered"]
        /\ UNCHANGED <<reply, recvd, popped>>
    BY DEF PollReady, serverVars, commandVars
  <1>2. call \in [Req -> CallState] /\ oneshot[r] \in Answers(r) \cup {None, Closed}
    BY DEF EventInv, CallsInv, TypeOK
  <1>3. ServiceGiven' = ServiceGiven /\ ServiceHanded' = ServiceHanded
    BY <1>1, SameAnswers DEF ServiceView
  <1>4. CASE oneshot[r] = Closed
    <2>1. call' = [call EXCEPT ![r] = "closed"]
      BY <1>1, <1>4
    <2>2. ServiceGot' = ServiceGot
      BY <1>1, <1>2, <2>1 DEF ServiceGot
    <2> QED
      BY <1>1, <1>3, <2>1, <2>2 DEF Service!GiveUp, ServiceGot, ServiceGiven, ServiceHanded
  <1>5. CASE oneshot[r] # Closed
    <2>1. oneshot[r] \in ServiceGiven[r]
      BY <1>1, <1>2, <1>5, AnswerValues DEF ServiceView
    <2>2. call' = [call EXCEPT ![r] = "answered"]
      BY <1>1, <1>5
    <2>3. ServiceGot' = [ServiceGot EXCEPT ![r] = {oneshot[r]}]
      BY <1>1, <1>2, <2>2 DEF ServiceGot
    <2> QED
      BY <1>1, <1>3, <2>1, <2>2, <2>3 DEF Service!Return, ServiceGot, ServiceGiven, ServiceHanded
  <1> QED
    BY <1>4, <1>5

\* A caller gives up.
LEMMA GiveUpGivesUp ==
    ASSUME EventInv, ServiceView, ServiceView', NEW r \in Req, GiveUp(r)
    PROVE  Service!GiveUp(r)
  <1>1. /\ call[r] = "waiting" /\ oneshot' = oneshot
        /\ call' = [call EXCEPT ![r] = "gaveup"]
        /\ UNCHANGED <<reply, recvd, popped>>
    BY DEF GiveUp, serverVars, commandVars
  <1>2. call \in [Req -> CallState]
    BY DEF EventInv, TypeOK
  <1>3. ServiceGiven' = ServiceGiven /\ ServiceHanded' = ServiceHanded
    BY <1>1, SameAnswers DEF ServiceView
  <1>4. ServiceGot' = ServiceGot
    BY <1>1, <1>2 DEF ServiceGot
  <1> QED
    BY <1>1, <1>3, <1>4 DEF Service!GiveUp, ServiceGot, ServiceGiven, ServiceHanded

\* The main loop pops a command: its caller has issued it, and every command popped
\* before was issued before.
LEMMA PopHands ==
    ASSUME EventInv, ServiceView, ServiceView', pop
    PROVE  \E r \in Req : Service!Hand(r)
  <1> DEFINE r == Head(cmd_pending)
  <1>1. /\ cmd_pending # <<>> /\ popped' = Append(popped, r)
        /\ UNCHANGED <<call, oneshot, reply, recvd>>
    BY DEF pop, queueVars, serverVars
  <1>2. r \in Ids /\ r = cmd_pending[1] /\ 1 \in 1..Len(cmd_pending)
    BY <1>1, TailSeq, CommandFacts
  <1>3. r \in Req /\ r \in CommandIds /\ \A j \in 1..Len(popped) : popped[j] < r
    BY <1>2, EventConstants DEF EventInv, CommandsInv
  <1>4. call[r] # "idle"
    <2>1. r < Received /\ Received <= next_cseq
      BY <1>3 DEF EventInv, RequestsInv, CommandIds
    <2>2. call[r] = "idle" <=> r >= next_cseq
      BY <1>3 DEF EventInv, CallsInv
    <2>3. r \in Nat /\ Received \in Nat /\ next_cseq \in Nat
      BY <1>3, RequestLengths, EventConstants
    <2> HIDE DEF r
    <2> QED
      BY <2>1, <2>2, <2>3
  <1>5. ServiceGot' = ServiceGot
    BY <1>1 DEF ServiceGot
  <1>6. ServiceGiven' = ServiceGiven /\ ServiceHanded = popped /\ ServiceHanded' = popped'
    BY <1>1, SameAnswers DEF ServiceView
  <1> HIDE DEF r
  <1>7. Service!Hand(r)
    <2>1. \A i \in 1..Len(ServiceHanded) : ServiceHanded[i] < r
      BY <1>3, <1>6
    <2>2. ServiceHanded' = Append(ServiceHanded, r)
      BY <1>1, <1>6
    <2> QED
      BY <1>1, <1>4, <1>5, <1>6, <2>1, <2>2 DEF Service!Hand, ServiceGot, ServiceGiven, ServiceHanded
  <1> QED
    BY <1>3, <1>7

Refusals == [req : Req, status : {"Gone", "NotFound", "NotImplemented", "BadRequest"}]

\* Steps that answer: a request is answered once, after it was sent, and by the handler
\* that got it unless it is refused.
LEMMA AnswersGive ==
    ASSUME EventInv, ServiceView, ServiceView', Next, UNCHANGED <<call, oneshot, popped>>,
           \A r \in Req : Answered'[r] # Answered[r] =>
             Answered'[r] \subseteq Refusals \/ \E i \in 1..Len(popped) : popped[i] = r
    PROVE  Service!Give \/ UNCHANGED Service!svars
  <1>1. ServiceGot' = ServiceGot /\ ServiceHanded' = ServiceHanded
    BY DEF ServiceGot, ServiceView
  <1>2. CASE Answered' = Answered
    <2>1. ServiceGiven' = ServiceGiven
      BY <1>2 DEF ServiceView
    <2> QED
      BY <1>1, <2>1 DEF Service!svars, ServiceGot, ServiceGiven, ServiceHanded
  <1>3. CASE Answered' # Answered
    <2>1. /\ ServiceGiven' # ServiceGiven
          /\ ServiceGiven = Answered /\ ServiceGiven' = Answered' /\ ServiceHanded = popped
      BY <1>3 DEF ServiceView
    <2>2. /\ DOMAIN Answered' = Req
          /\ \A r \in Req : \A a \in Answered'[r] : a \in Response /\ Answered'[r] = {a}
          /\ \A r \in Req : Answered'[r] # {} => call[r] # "idle"
      BY DEF ServiceView, Answered
    <2>3. Answered' \in [Req -> SUBSET Response]
      <3>1. Answered' = [r \in Req |-> Answered'[r]]
        BY DEF Answered
      <3>2. \A r \in Req : Answered'[r] \in SUBSET Response
        BY <2>2
      <3> HIDE DEF Answered
      <3> QED
        BY <3>1, <3>2
    <2>4. ASSUME NEW r \in Req, Answered'[r] # Answered[r]
          PROVE  /\ call[r] # "idle" /\ Answered[r] = {}
                 /\ \E a \in Response : Answered'[r] = {a}
                 /\ Answered'[r] \subseteq Refusals \/ \E i \in 1..Len(popped) : popped[i] = r
      <3>1. Answered[r] \subseteq Answered'[r]
        BY AnswersGrow
      <3>2. PICK a \in Answered'[r] : a \notin Answered[r]
        BY <2>4, <3>1
      <3>3. a \in Response /\ Answered'[r] = {a} /\ call[r] # "idle"
        BY <2>2, <3>2
      <3> QED
        BY <2>4, <3>1, <3>2, <3>3
    <2>5. Service!Give
      BY <1>1, <2>1, <2>3, <2>4 DEF Service!Give, ServiceGot, ServiceGiven, ServiceHanded, Refusals
    <2> QED
      BY <2>5
  <1> QED
    BY <1>2, <1>3

\* The answers a step changes.
LEMMA ChangedAnswers ==
    ASSUME NEW r \in Req, Answered'[r] # Answered[r]
    PROVE  \/ Kind[r] # "command" /\ Answered'[r] \subseteq Refusals
           \/ Kind[r] = "command" /\ reply'[r] # reply[r]
              /\ (reply'[r] \in Refusals => Answered'[r] \subseteq Refusals)
  <1>1. CASE Kind[r] # "command"
    <2>1. Refusal(r) \in Refusals
      BY DEF Refusal, Refusals
    <2>2. Answered'[r] \subseteq {Refusal(r)}
      BY <1>1 DEF Answered, Answers
    <2> QED
      BY <1>1, <2>1, <2>2
  <1>2. CASE Kind[r] = "command"
    BY <1>2 DEF Answered, Answers
  <1> QED
    BY <1>1, <1>2

\* What a command gets that never runs.
LEMMA GoneRefuses ==
    ASSUME EventInv, NEW id \in CommandIds
    PROVE  id \in Req /\ Gone(id) \in Refusals
  <1>1. id \in Req /\ ReqOf(id) = id
    BY CommandFacts DEF CommandIds
  <1> QED
    BY <1>1 DEF Gone, Refusals

\* The server numbers requests and refuses those that are no commands.
LEMMA ReconcileGives ==
    ASSUME EventInv, ServiceView, ServiceView', ServerReconcile
    PROVE  Service!Give \/ UNCHANGED Service!svars
  <1>1. UNCHANGED <<call, oneshot, popped, reply>> /\ Next
    BY DEF ServerReconcile, queueVars, commandVars, Next
  <1>2. \A r \in Req : Answered'[r] # Answered[r] => Answered'[r] \subseteq Refusals
    BY <1>1, ChangedAnswers
  <1> QED
    BY <1>1, <1>2, AnswersGive

\* A command that finds the drain closed is answered without the handler.
LEMMA YieldGives ==
    ASSUME EventInv, ServiceView, ServiceView', SleepYield
    PROVE  Service!Give \/ UNCHANGED Service!svars
  <1> DEFINE id == Head(ready)
  <1>1. /\ UNCHANGED <<call, oneshot, popped>> /\ ready # <<>>
        /\ reply' = [reply EXCEPT ![id] = IF id \in started THEN reply[id] ELSE Gone(id)]
    BY DEF SleepYield, queueVars
  <1>2. Next
    BY DEF Next
  <1>3. id \in CommandIds
    <2>1. id = ready[1] /\ 1 \in 1..Len(ready)
      BY <1>1, TailSeq, CommandFacts
    <2>2. \A j \in 1..Len(ready) : ready[j] \in CommandIds
      BY DEF EventInv, CommandsInv
    <2> HIDE DEF id
    <2> QED
      BY <2>1, <2>2
  <1>4. Gone(id) \in Refusals /\ reply \in [Ids -> Response \cup {None}]
    BY <1>3, GoneRefuses, CommandFacts
  <1> HIDE DEF id
  <1>5. \A r \in Req : reply'[r] # reply[r] => reply'[r] \in Refusals
    BY <1>1, <1>4, EventConstants
  <1>6. \A r \in Req : Answered'[r] # Answered[r] => Answered'[r] \subseteq Refusals
    BY <1>5, ChangedAnswers
  <1> QED
    BY <1>1, <1>2, <1>6, AnswersGive

\* The main loop answers a command that it holds.
LEMMA RespondGives ==
    ASSUME EventInv, ServiceView, ServiceView', NEW id \in Ids, respond(id)
    PROVE  Service!Give \/ UNCHANGED Service!svars
  <1>1. UNCHANGED <<call, oneshot, popped>> /\ id \in held
    BY DEF respond, queueVars
  <1>2. Next
    BY DEF Next
  <1>3. \E j \in 1..Len(popped) : popped[j] = id
    BY <1>1 DEF EventInv, CommandsInv
  <1>4. \A r \in Req : reply'[r] # reply[r] => r = id
    BY CommandFacts, EventConstants DEF respond
  <1>5. \A r \in Req : Answered'[r] # Answered[r] =>
          Answered'[r] \subseteq Refusals \/ \E i \in 1..Len(popped) : popped[i] = r
    BY <1>3, <1>4, ChangedAnswers
  <1> QED
    BY <1>1, <1>2, <1>5, AnswersGive

\* The commands that wait when the drain is closed.
LEMMA CloseGives ==
    ASSUME EventInv, ServiceView, ServiceView', closeDrain
    PROVE  Service!Give \/ UNCHANGED Service!svars
  <1>1. UNCHANGED <<call, oneshot, popped>>
    BY DEF closeDrain, queueVars
  <1>2. Next
    BY DEF Next
  <1>3. \A j \in 1..Len(cmd_pending) : cmd_pending[j] \in CommandIds
    BY DEF EventInv, CommandsInv
  <1>4. \A r \in Req : reply'[r] # reply[r] =>
          reply'[r] = Gone(r) /\ \E j \in 1..Len(cmd_pending) : cmd_pending[j] = r
    BY EventConstants DEF closeDrain
  <1>5. \A r \in Req : reply'[r] # reply[r] => reply'[r] \in Refusals
    BY <1>3, <1>4, GoneRefuses
  <1>6. \A r \in Req : Answered'[r] # Answered[r] => Answered'[r] \subseteq Refusals
    BY <1>5, ChangedAnswers
  <1> QED
    BY <1>1, <1>2, <1>6, AnswersGive

\* The client's tasks fulfil only promises of callers that still wait.
LEMMA PromisesUnseen ==
    ASSUME EventInv, ClientReconcile \/ ClientEnd
    PROVE  ServiceGot' = ServiceGot /\ UNCHANGED <<reply, recvd, popped, call>>
  <1>1. \A i \in 1..Len(fifo) : fifo[i].sender => call[fifo[i].cseq] = "waiting"
    BY SlotNumbers DEF EventInv, CallsInv
  <1>2. UNCHANGED <<reply, recvd, popped, call>>
    BY DEF ClientReconcile, ClientEnd, serverVars, commandVars
  <1>3. \A r \in Req : oneshot'[r] # oneshot[r] => call[r] = "waiting"
    <2>1. CASE ClientReconcile
      <3>1. \A r \in Req : oneshot'[r] # oneshot[r] => FedTo(msgs[Client], r) # {}
        BY <2>1 DEF ClientReconcile, feed
      <3>2. Len(msgs[Client]) \in Nat
        BY FrameTypes, LenProperties DEF EventInv, TypeOK, FramesOK
      <3>3. \A r \in Req : FedTo(msgs[Client], r) # {} => \E i \in 1..Len(fifo) : fifo[i].cseq = r /\ fifo[i].sender
        BY <3>2, SlotNumbers DEF FedTo
      <3> QED
        BY <1>1, <3>1, <3>3
    <2>2. CASE ClientEnd
      <3>1. \A r \in Req : oneshot'[r] # oneshot[r] => \E i \in 1..Len(fifo) : fifo[i].cseq = r /\ fifo[i].sender
        BY <2>2 DEF ClientEnd, close
      <3> QED
        BY <1>1, <3>1
    <2> QED
      BY <2>1, <2>2
  <1>4. ServiceGot' = ServiceGot
    BY <1>2, <1>3 DEF ServiceGot
  <1> QED
    BY <1>2, <1>4

\* Every step of the channel is one that the service allows.
LEMMA ServiceStep ==
    ASSUME EventInv, ServiceView, ServiceView', [Next]_vars
    PROVE  [Service!Next]_(Service!svars)
  <1>1. ASSUME NEW r \in Req, queue(r) \/ PollReady(r) \/ GiveUp(r)
        PROVE  Service!Next
    <2>1. Service!Issue(r) \/ Service!Return(r) \/ Service!GiveUp(r)
      BY <1>1, QueueIssues, PollReturns, GiveUpGivesUp
    <2> QED
      BY <2>1 DEF Service!Next
  <1>2. CASE ClientReconcile \/ ClientEnd
    BY <1>2, PromisesUnseen, ServiceStutter
  <1>3. CASE ServerReconcile
    BY <1>3, ReconcileGives DEF Service!Next
  <1>4. CASE SleepYield
    BY <1>4, YieldGives DEF Service!Next
  <1>5. CASE pop
    <2>1. PICK r \in Req : Service!Hand(r)
      BY <1>5, PopHands
    <2> QED
      BY <2>1 DEF Service!Next
  <1>6. CASE closeDrain
    BY <1>6, CloseGives DEF Service!Next
  <1>7. ASSUME NEW id \in Ids, respond(id)
        PROVE  [Service!Next]_(Service!svars)
    BY <1>7, RespondGives DEF Service!Next
  <1>8. CASE UNCHANGED vars
    <2>1. UNCHANGED <<call, oneshot, reply, recvd, popped>>
      BY <1>8 DEF vars, queueVars, serverVars, commandVars
    <2>2. ServiceGot' = ServiceGot
      BY <2>1 DEF ServiceGot
    <2> QED
      BY <2>1, <2>2, ServiceStutter
  <1>9. CASE \/ ClientWake \/ ServerEnd \/ SleepIdle \/ SleepStart
             \/ \E t \in Task : Flush(t) \/ Receive(t)
    <2>1. UNCHANGED <<call, oneshot, reply, recvd, popped>>
      BY <1>9 DEF ClientWake, ServerEnd, SleepIdle, SleepStart, Flush, Receive, queueVars, serverVars, commandVars
    <2>2. ServiceGot' = ServiceGot
      BY <2>1 DEF ServiceGot
    <2> QED
      BY <2>1, <2>2, ServiceStutter
  <1> QED
    BY <1>1, <1>2, <1>3, <1>4, <1>5, <1>6, <1>7, <1>8, <1>9 DEF Next

\* The channel implements CommandService: commands reach the main loop at most once and
\* in the order of send_command, and a caller gets the answer to its own command or none,
\* however commands overlap, callers give up, drains close or the connection ends.
THEOREM ChannelImplementsService == Spec => ImplementsService
  <1>1. Init => Service!Init
    <2> SUFFICES ASSUME Init
                 PROVE  Service!Init
      OBVIOUS
    <2>1. EventInv
      BY InitInv
    <2>2. ServiceView
      BY <2>1, ServiceViewHolds
    <2>3. Answered = [r \in Req |-> {}]
      BY EventConstants DEF Init, Answered, Answers, Received
    <2>4. ServiceGot = [r \in Req |-> {}]
      BY DEF Init, ServiceGot
    <2>5. ServiceGiven = [r \in Req |-> {}] /\ ServiceHanded = <<>>
      BY <2>2, <2>3 DEF ServiceView, Init
    <2>6. call = [r \in Req |-> "idle"]
      BY DEF Init
    <2> QED
      BY <2>4, <2>5, <2>6 DEF Service!Init, ServiceGot, ServiceGiven, ServiceHanded
  <1>2. EventInv /\ ServiceView /\ ServiceView' /\ [Next]_vars => [Service!Next]_(Service!svars)
    BY ServiceStep
  <1>3. Spec => Init /\ [][Next]_vars
    BY DEF Spec
  <1> QED
    BY <1>1, <1>2, <1>3, EventInvariance, ServiceViewHolds, PTL DEF ImplementsService, Service!Spec
=============================================================================
