----------------------- MODULE TransmitterStreamsProofs -----------------------
(***************************************************************************)
(* Proofs about TransmitterStreams, for every set of slots and every bound *)
(* on calls, timeouts and failures.                                        *)
(*                                                                         *)
(* Entries of the teardown queue name a slot and not a stream.  What keeps *)
(* a late entry away from the next stream of its slot is the order of the  *)
(* background task: the callback it runs left the queue before the last    *)
(* reconcile, which emptied the teardown queue, and its caller has held no *)
(* guard since.                                                            *)
(***************************************************************************)
EXTENDS TransmitterStreams, ProofBasics

Callback == [op : {"none", "setup", "drain"}, slot : Slots \cup {"none"}, call : 0..MaxCalls,
             phase : {"none", "own", "pop", "pass", "setup"}, at : Nat \ {0}, drained : BOOLEAN]
Sent == [op : {"SETUP", "TEARDOWN"}, slot : Slots, n : 0..MaxCalls, live : BOOLEAN]

\* A callback that some call has scheduled.
Scheduled(c) ==
    /\ c.call \in 1..calls
    /\ \/ c.op = "setup" /\ c.slot \in Slots
       \/ c.op = "drain" /\ c.slot = "none"

\* The callback that was taken out of the queue and has not ended.
InHand == IF pc = "run" THEN cb ELSE cached
-----------------------------------------------------------------------------
(* The inductive invariant. *)

Types ==
    /\ TypeOK
    /\ calls \in 0..MaxCalls
    /\ task_queue \in Seq(Callback) /\ cached \in Callback /\ cb \in Callback
    /\ wire \in Seq(Sent)

\* There is one callback in hand at most, a slot that is set up has no stream, and none has
\* one when the session has ended.
HandInv ==
    /\ pc # "run" => cb = NoCallback
    /\ pc = "closed" => \A s \in Slots : streams[s].state = "Unconnected"
    /\ pc \in {"run", "sleep", "closed"} => cached = NoCallback
    /\ cached # NoCallback => Scheduled(cached)
    /\ pc = "run" =>
         /\ Scheduled(cb) /\ cb.phase # "none"
         /\ cb.phase \in {"own", "setup"} => cb.op = "setup"
         /\ cb.phase = "setup" => streams[cb.slot].state = "Unconnected"

\* Callbacks run in the order of the calls.
QueueInv ==
    /\ \A i \in 1..Len(task_queue) :
         Scheduled(task_queue[i]) /\ InHand.call < task_queue[i].call
    /\ \A i, j \in 1..Len(task_queue) : i < j => task_queue[i].call < task_queue[j].call

\* Nobody has scheduled a callback for the slot of a caller since its own, and the
\* callback of a guard that is held has ended.
CallersInv ==
    \A s \in Slots :
      /\ app[s].does = "idle" => app[s].n = 0
      /\ app[s].does # "idle" => app[s].n \in 1..calls
      /\ app[s].does = "calling" =>
           /\ InHand.slot = s => InHand.call <= app[s].n
           /\ \A i \in 1..Len(task_queue) : task_queue[i].slot = s => task_queue[i].call <= app[s].n
      /\ app[s].does = "holds" =>
           /\ InHand.call # app[s].n
           /\ \A i \in 1..Len(task_queue) : task_queue[i].call # app[s].n

\* A stream has a guard or an entry in the teardown queue, and none is left in that queue
\* for the slot of a call that runs.
StreamsInv ==
    /\ \A s \in Slots :
         /\ streams[s].state = "Stream" => app[s].does = "holds" \/ s \in ToSet(teardown_queue)
         /\ app[s].does = "calling" /\ pc \in {"poll", "take", "run"} /\ InHand.slot = s
              /\ InHand.call = app[s].n => s \notin ToSet(teardown_queue)
    /\ ~conflict

TransmitterInv == Types /\ HandInv /\ QueueInv /\ CallersInv /\ StreamsInv

\* As long as nobody asks for a screen that is in use, and the session lasts: no entry and no
\* callback is on its way that would take down a stream with a guard.
GuardsInv ==
    pc # "closed" => \A s \in Slots :
      app[s].does = "holds" =>
        /\ streams[s] = [state |-> "Stream", n |-> app[s].n]
        /\ s \notin ToSet(teardown_queue)
        /\ s \in Screens =>
             /\ InHand.slot # s
             /\ \A i \in 1..Len(task_queue) : task_queue[i].slot # s

-----------------------------------------------------------------------------
(* Constants, callbacks and queues. *)

\* What the assumptions say of the slots and the bounds.
LEMMA SlotFacts ==
    /\ Audio \subseteq Slots /\ Screens \subseteq Slots /\ "none" \notin Slots
    /\ \A s \in Slots : s \in Audio \/ s \in Screens
    /\ \A s \in Screens : s \notin Audio
    /\ MaxCalls \in Nat
    /\ Rivals \subseteq Slots /\ Order \in Seq(Slots)
  BY StreamsAssumption DEF Slots

\* The order of the drain has only slots.
LEMMA OrderSlots ==
    ASSUME NEW i \in Nat \ {0}, i <= Len(Order)
    PROVE  Order[i] \in Slots
  <1>1. Len(Order) \in Nat /\ i \in 1..Len(Order)
    BY SlotFacts, LenProperties
  <1> QED
    BY <1>1, SlotFacts, ElementOfSeq

\* A teardown queue and the set of its entries.
LEMMA QueueSets ==
    ASSUME NEW q \in Seq(Slots), NEW s \in Slots
    PROVE  /\ ToSet(<<>>) = {} /\ <<>> \in Seq(Slots)
           /\ Append(q, s) \in Seq(Slots) /\ ToSet(Append(q, s)) = ToSet(q) \cup {s}
           /\ ToSet(<<s>>) = {s}
  <1>1. ToSet(<<>>) = {} /\ <<>> \in Seq(Slots)
    BY EmptySeq DEF ToSet
  <1>2. Append(q, s) \in Seq(Slots) /\ Appended(Append(q, s), q, s)
    BY AppendSeq
  <1>3. ToSet(Append(q, s)) = ToSet(q) \cup {s}
    <2> DEFINE u == Append(q, s)
    <2>1. /\ DOMAIN q = 1..Len(q) /\ DOMAIN u = 1..Len(u) /\ Len(q) \in Nat
      BY <1>2, LenProperties
    <2> HIDE DEF u
    <2>2. \A x : x \in ToSet(u) <=> x \in ToSet(q) \/ x = s
      BY <1>2, <2>1 DEF ToSet, Appended, u
    <2> QED
      BY <2>2 DEF u
  <1>4. ToSet(<<s>>) = {s}
    BY DEF ToSet
  <1> QED
    BY <1>1, <1>2, <1>3, <1>4

\* The callbacks there are.
LEMMA CallbackFacts ==
    ASSUME TransmitterInv
    PROVE  /\ NoCallback \in Callback
           /\ InHand \in Callback /\ InHand.call \in 0..calls /\ calls \in Nat
           /\ \A i \in 1..Len(task_queue) :
                task_queue[i] \in Callback /\ task_queue[i].call \in 1..calls
  <1>1. NoCallback \in Callback /\ NoCallback.call = 0
    BY SlotFacts DEF NoCallback, Callback
  <1>2. calls \in Nat
    BY SlotFacts DEF TransmitterInv, Types
  <1>3. InHand \in Callback
    BY DEF TransmitterInv, Types, InHand
  <1>4. InHand.call \in 0..calls
    BY <1>1, <1>2 DEF TransmitterInv, HandInv, Scheduled, InHand
  <1>5. \A i \in 1..Len(task_queue) : task_queue[i] \in Callback /\ task_queue[i].call \in 1..calls
    BY ElementOfSeq DEF TransmitterInv, Types, QueueInv, Scheduled
  <1> QED
    BY <1>1, <1>2, <1>3, <1>4, <1>5

\* Steps that leave the callbacks and their callers alone.
LEMMA CallersStay ==
    ASSUME TransmitterInv, UNCHANGED <<task_queue, app, calls>>,
           InHand'.call = InHand.call, InHand'.slot = InHand.slot
    PROVE  QueueInv' /\ CallersInv'
  BY DEF TransmitterInv, QueueInv, CallersInv, Scheduled

-----------------------------------------------------------------------------
(* The application. *)

\* A call is scheduled.
LEMMA Schedules ==
    ASSUME TransmitterInv, NEW c \in Callback, calls < MaxCalls, calls' = calls + 1,
           task_queue' = Append(task_queue, c), c.call = calls + 1,
           \/ c.op = "setup" /\ c.slot \in Slots
           \/ c.op = "drain" /\ c.slot = "none",
           UNCHANGED <<pc, cb, cached, streams, wire>>
    PROVE  /\ HandInv' /\ QueueInv' /\ InHand' = InHand
           /\ calls' \in 0..MaxCalls /\ task_queue' \in Seq(Callback)
           /\ cached' \in Callback /\ cb' \in Callback /\ wire' \in Seq(Sent)
           /\ Appended(task_queue', task_queue, c)
  <1>1. task_queue \in Seq(Callback) /\ cached \in Callback /\ cb \in Callback /\ wire \in Seq(Sent)
    BY DEF TransmitterInv, Types
  <1>2. task_queue' \in Seq(Callback) /\ Appended(task_queue', task_queue, c)
    BY <1>1, AppendSeq
  <1>3. InHand' = InHand
    BY DEF InHand
  <1>4. calls \in Nat /\ MaxCalls \in Nat
    BY SlotFacts, CallbackFacts
  <1>5. HandInv'
    BY <1>4 DEF TransmitterInv, HandInv, Scheduled
  <1>6. QueueInv'
    <2>1. \A i \in 1..Len(task_queue) : Scheduled(task_queue[i])' /\ InHand'.call < task_queue'[i].call
      BY <1>2, <1>3, <1>4 DEF TransmitterInv, QueueInv, Scheduled, Appended
    <2>2. Scheduled(c)' /\ InHand'.call < c.call
      BY <1>3, <1>4, CallbackFacts DEF Scheduled
    <2>3. \A i \in 1..Len(task_queue) : task_queue[i].call < c.call
      BY <1>4, CallbackFacts
    <2> QED
      BY <1>2, <2>1, <2>2, <2>3 DEF TransmitterInv, QueueInv, Appended, Scheduled
  <1> QED
    BY <1>1, <1>2, <1>3, <1>4, <1>5, <1>6

\* The callback of a call.
LEMMA NewCallback ==
    ASSUME TransmitterInv, calls < MaxCalls
    PROVE  /\ calls + 1 \in 1..MaxCalls
           /\ \A s \in Slots :
                [NoCallback EXCEPT !.op = "setup", !.slot = s, !.call = calls + 1] \in Callback
           /\ [NoCallback EXCEPT !.op = "drain", !.call = calls + 1] \in Callback
           /\ NoCallback.slot = "none"
  <1>1. calls + 1 \in 1..MaxCalls
    BY CallbackFacts, SlotFacts
  <1> DEFINE n == calls + 1
  <1> HIDE DEF n
  <1>2. n \in 0..MaxCalls
    BY <1>1 DEF n
  <1>3. NoCallback \in Callback
    BY CallbackFacts
  <1>4. \A s \in Slots : [NoCallback EXCEPT !.op = "setup", !.slot = s, !.call = n] \in Callback
    BY <1>2, <1>3 DEF Callback
  <1>5. [NoCallback EXCEPT !.op = "drain", !.call = n] \in Callback
    BY <1>2, <1>3 DEF Callback
  <1>6. NoCallback.slot = "none"
    BY DEF NoCallback
  <1> QED
    BY <1>1, <1>4, <1>5, <1>6 DEF n

\* A setup is scheduled, by an application without a guard or by a rival.
LEMMA SetupScheduled ==
    ASSUME TransmitterInv, NEW s \in Slots, AppSetup(s) \/ AppRival(s)
    PROVE  TransmitterInv' /\ (Rivals \subseteq Audio /\ GuardsInv => GuardsInv')
  <1> DEFINE c == [NoCallback EXCEPT !.op = "setup", !.slot = s, !.call = calls + 1]
             n == calls + 1
  <1>1. /\ calls < MaxCalls /\ calls' = n /\ task_queue' = Append(task_queue, c)
        /\ UNCHANGED <<streams, task, teardown_queue, pc, cb, cached, wire, answer, car, conflict>>
        /\ \/ app[s].does = "idle" /\ app' = [app EXCEPT ![s] = [does |-> "calling", n |-> n]]
           \/ app[s].does = "holds" /\ s \in Rivals /\ app' = app
    BY DEF AppSetup, AppRival, background, receiver, history
  <1>2. c \in Callback /\ c.op = "setup" /\ c.slot = s /\ c.call = n /\ n \in 1..MaxCalls
    BY <1>1, NewCallback DEF NoCallback
  <1> HIDE DEF c
  <1>3. /\ HandInv' /\ QueueInv' /\ InHand' = InHand
        /\ calls' \in 0..MaxCalls /\ task_queue' \in Seq(Callback)
        /\ cached' \in Callback /\ cb' \in Callback /\ wire' \in Seq(Sent)
        /\ Appended(task_queue', task_queue, c)
    BY <1>1, <1>2, Schedules
  <1>4. calls \in Nat /\ n > calls /\ n \in Nat
    BY CallbackFacts
  <1>5. app \in [Slots -> [does : {"idle", "calling", "holds"}, n : 0..MaxCalls]]
    BY DEF TransmitterInv, Types, TypeOK
  <1> HIDE DEF n
  <1>6. Types'
    <2>1. app' \in [Slots -> [does : {"idle", "calling", "holds"}, n : 0..MaxCalls]]
      BY <1>1, <1>2, <1>5
    <2> QED
      BY <1>1, <1>3, <2>1 DEF TransmitterInv, Types, TypeOK
  <1>7. CallersInv'
    <2> SUFFICES ASSUME NEW t \in Slots
                 PROVE  /\ app'[t].does = "idle" => app'[t].n = 0
                        /\ app'[t].does # "idle" => app'[t].n \in 1..calls'
                        /\ app'[t].does = "calling" =>
                             /\ InHand'.slot = t => InHand'.call <= app'[t].n
                             /\ \A i \in 1..Len(task_queue') :
                                  task_queue'[i].slot = t => task_queue'[i].call <= app'[t].n
                        /\ app'[t].does = "holds" =>
                             /\ InHand'.call # app'[t].n
                             /\ \A i \in 1..Len(task_queue') : task_queue'[i].call # app'[t].n
      BY DEF CallersInv
    <2>1. CASE app'[t] = app[t] /\ (t = s => app[t].does # "calling")
      <3>1. app[t].does # "idle" => app[t].n \in 1..calls'
        BY <1>1, <1>4 DEF TransmitterInv, CallersInv
      <3>2. app[t].does # "idle" => app[t].n # n
        BY <1>4 DEF TransmitterInv, CallersInv
      <3> QED
        BY <1>2, <1>3, <2>1, <3>1, <3>2 DEF TransmitterInv, CallersInv, Appended
    <2>2. CASE t = s /\ app'[t] = [does |-> "calling", n |-> n]
      <3>1. InHand.call <= n /\ \A i \in 1..Len(task_queue) : task_queue[i].call <= n
        BY <1>4, CallbackFacts
      <3>2. \A i \in 1..Len(task_queue') : task_queue'[i].call <= n
        BY <1>2, <1>3, <1>4, <3>1 DEF Appended
      <3> QED
        BY <1>1, <1>2, <1>3, <1>4, <2>2, <3>1, <3>2
    <2> QED
      BY <1>1, <1>5, <2>1, <2>2
  <1>8. StreamsInv'
    <2>1. ASSUME NEW t \in Slots, app'[t].does = "calling", InHand.call = app'[t].n
          PROVE  app'[t] = app[t]
      BY <1>1, <1>4, <1>5, <2>1, CallbackFacts
    <2>2. \A t \in Slots : app[t].does = "holds" => app'[t].does = "holds"
      BY <1>1, <1>5
    <2> QED
      BY <1>1, <1>3, <2>1, <2>2 DEF TransmitterInv, StreamsInv
  <1>9. ASSUME Rivals \subseteq Audio, GuardsInv
        PROVE  GuardsInv'
    <2>0. pc # "closed"
      BY DEF AppSetup, AppRival
    <2>1. \A t \in Slots : app'[t].does = "holds" => app'[t] = app[t]
      BY <1>1, <1>5
    <2>2. \A t \in Slots : t \in Screens /\ app'[t].does = "holds" => s # t
      BY <1>1, <1>5, <1>9, SlotFacts
    <2>3. ASSUME NEW t \in Screens, t \in Slots, app'[t].does = "holds"
          PROVE  /\ InHand'.slot # t
                 /\ \A i \in 1..Len(task_queue') : task_queue'[i].slot # t
      <3>1. /\ InHand.slot # t /\ c.slot # t
            /\ \A i \in 1..Len(task_queue) : task_queue[i].slot # t
        BY <1>2, <1>9, <2>0, <2>1, <2>2, <2>3 DEF GuardsInv
      <3> QED
        BY <1>3, <3>1 DEF Appended
    <2>4. \A t \in Slots : app'[t].does = "holds" =>
            streams'[t] = [state |-> "Stream", n |-> app'[t].n] /\ t \notin ToSet(teardown_queue')
      BY <1>1, <1>9, <2>0, <2>1 DEF GuardsInv
    <2> QED
      BY <2>3, <2>4 DEF GuardsInv
  <1> QED
    BY <1>3, <1>6, <1>7, <1>8, <1>9 DEF TransmitterInv

\* A drain is scheduled.
LEMMA DrainScheduled ==
    ASSUME TransmitterInv, AppDrain
    PROVE  TransmitterInv' /\ (GuardsInv => GuardsInv')
  <1> DEFINE c == [NoCallback EXCEPT !.op = "drain", !.call = calls + 1]
             n == calls + 1
  <1>1. /\ calls < MaxCalls /\ calls' = n /\ task_queue' = Append(task_queue, c)
        /\ UNCHANGED <<streams, task, teardown_queue, pc, cb, cached, wire, answer, car, conflict, app>>
    BY DEF AppDrain, background, receiver, history
  <1>2. c \in Callback /\ c.op = "drain" /\ c.slot = "none" /\ c.call = n /\ n \in 1..MaxCalls
    BY <1>1, NewCallback DEF NoCallback
  <1> HIDE DEF c
  <1>3. /\ HandInv' /\ QueueInv' /\ InHand' = InHand
        /\ calls' \in 0..MaxCalls /\ task_queue' \in Seq(Callback)
        /\ cached' \in Callback /\ cb' \in Callback /\ wire' \in Seq(Sent)
        /\ Appended(task_queue', task_queue, c)
    BY <1>1, <1>2, Schedules
  <1>4. calls \in Nat /\ n > calls /\ n \in Nat
    BY CallbackFacts
  <1> HIDE DEF n
  <1>5. Types'
    BY <1>1, <1>3 DEF TransmitterInv, Types, TypeOK
  <1>6. CallersInv'
    <2> SUFFICES ASSUME NEW t \in Slots
                 PROVE  /\ app[t].does = "idle" => app[t].n = 0
                        /\ app[t].does # "idle" => app[t].n \in 1..calls'
                        /\ app[t].does = "calling" =>
                             /\ InHand.slot = t => InHand.call <= app[t].n
                             /\ \A i \in 1..Len(task_queue') :
                                  task_queue'[i].slot = t => task_queue'[i].call <= app[t].n
                        /\ app[t].does = "holds" =>
                             /\ InHand.call # app[t].n
                             /\ \A i \in 1..Len(task_queue') : task_queue'[i].call # app[t].n
      BY <1>1, <1>3 DEF CallersInv
    <2>1. app[t].does # "idle" => app[t].n \in 1..calls' /\ app[t].n # n
      BY <1>1, <1>4 DEF TransmitterInv, CallersInv
    <2> QED
      BY <1>2, <1>3, <2>1, SlotFacts DEF TransmitterInv, CallersInv, Appended
  <1>7. StreamsInv'
    BY <1>1, <1>3 DEF TransmitterInv, StreamsInv
  <1>8. ASSUME GuardsInv
        PROVE  GuardsInv'
    BY <1>1, <1>2, <1>3, <1>8, SlotFacts DEF GuardsInv, Appended
  <1> QED
    BY <1>3, <1>5, <1>6, <1>7, <1>8 DEF TransmitterInv

\* A caller or a guard is dropped.
LEMMA CallerGone ==
    ASSUME TransmitterInv, NEW s \in Slots, AppCancel(s) \/ AppDrop(s)
    PROVE  TransmitterInv' /\ (GuardsInv => GuardsInv')
  <1>1. /\ app' = [app EXCEPT ![s] = Idle]
        /\ UNCHANGED <<streams, task, task_queue, pc, cb, cached, wire, answer, car, calls, conflict>>
        /\ \/ app[s].does = "calling" /\ teardown_queue' = teardown_queue
           \/ app[s].does = "holds" /\ pc = "closed" /\ teardown_queue' = teardown_queue
           \/ app[s].does = "holds" /\ teardown_queue' = Append(teardown_queue, s)
    BY DEF AppCancel, AppDrop, background, receiver, history, counters
  <1>2. /\ app \in [Slots -> [does : {"idle", "calling", "holds"}, n : 0..MaxCalls]]
        /\ teardown_queue \in Seq(Slots)
    BY DEF TransmitterInv, Types, TypeOK
  <1>3. /\ app'[s].does = "idle" /\ app'[s].n = 0
        /\ \A t \in Slots : t # s => app'[t] = app[t]
        /\ InHand' = InHand
    BY <1>1, <1>2 DEF Idle, InHand
  <1>4. /\ teardown_queue' \in Seq(Slots)
        /\ \/ /\ app[s].does = "calling" \/ pc = "closed"
              /\ ToSet(teardown_queue') = ToSet(teardown_queue)
           \/ app[s].does = "holds" /\ ToSet(teardown_queue') = ToSet(teardown_queue) \cup {s}
    <2>1. Append(teardown_queue, s) \in Seq(Slots)
      BY <1>2, QueueSets
    <2>2. ToSet(Append(teardown_queue, s)) = ToSet(teardown_queue) \cup {s}
      BY <1>2, QueueSets
    <2> QED
      BY <1>1, <1>2, <2>1, <2>2
  <1>5. Types'
    <2>1. app' \in [Slots -> [does : {"idle", "calling", "holds"}, n : 0..MaxCalls]]
      BY <1>1, <1>2, SlotFacts DEF Idle
    <2> QED
      BY <1>1, <1>4, <2>1 DEF TransmitterInv, Types, TypeOK
  <1>6. HandInv' /\ QueueInv'
    BY <1>1, <1>3 DEF TransmitterInv, HandInv, QueueInv, Scheduled
  <1>7. CallersInv'
    BY <1>1, <1>3 DEF TransmitterInv, CallersInv
  <1>8. StreamsInv'
    <2>1. pc = "closed" => \A t \in Slots : streams[t].state # "Stream"
      BY DEF TransmitterInv, HandInv
    <2> QED
      BY <1>1, <1>3, <1>4, <2>1 DEF TransmitterInv, StreamsInv
  <1>9. ASSUME GuardsInv
        PROVE  GuardsInv'
    <2>1. CASE pc = "closed"
      BY <1>1, <2>1 DEF GuardsInv
    <2>2. CASE pc # "closed"
      <3>1. \A t \in Slots : app'[t].does = "holds" =>
              app'[t] = app[t] /\ (t \in ToSet(teardown_queue') => t \in ToSet(teardown_queue))
        BY <1>3, <1>4
      <3>2. UNCHANGED <<streams, task_queue, pc>>
        BY <1>1
      <3> QED
        BY <1>3, <1>9, <2>2, <3>1, <3>2 DEF GuardsInv
    <2> QED
      BY <2>1, <2>2
  <1> QED
    BY <1>5, <1>6, <1>7, <1>8, <1>9 DEF TransmitterInv

-----------------------------------------------------------------------------
(* Requests and teardown tasks. *)

\* The types of the receiver's side.
RequestTypes ==
    /\ task \in [Slots -> {NoTask, "wait", "shutdown", "requested", "Ok", "Err"}]
    /\ answer \in [Slots -> {"none", "waiting", "Ok", "Err"}]
    /\ car \in [Slots -> 0..MaxCalls]
    /\ wire \in Seq(Sent)

\* Steps of the connection, the receiver and the teardown tasks.
LEMMA RequestsMove ==
    ASSUME TransmitterInv, RequestTypes',
           \A s \in Slots : task'[s] # NoTask <=> task[s] # NoTask,
           UNCHANGED <<streams, teardown_queue, task_queue, pc, cb, cached, app, calls, conflict>>
    PROVE  TransmitterInv' /\ (GuardsInv => GuardsInv')
  <1>1. InHand' = InHand
    BY DEF InHand
  <1>2. Types'
    BY DEF TransmitterInv, Types, TypeOK, RequestTypes
  <1>3. HandInv'
    BY DEF TransmitterInv, HandInv, Scheduled
  <1>4. QueueInv' /\ CallersInv'
    BY <1>1, CallersStay
  <1>5. StreamsInv'
    BY <1>1 DEF TransmitterInv, StreamsInv
  <1>6. GuardsInv => GuardsInv'
    BY <1>1 DEF GuardsInv
  <1> QED
    BY <1>2, <1>3, <1>4, <1>5, <1>6 DEF TransmitterInv

\* A request is sent.
LEMMA RequestSent ==
    ASSUME TransmitterInv, NEW op \in {"SETUP", "TEARDOWN"}, NEW s \in Slots, NEW n \in 0..MaxCalls,
           Request(op, s, n)
    PROVE  /\ answer' \in [Slots -> {"none", "waiting", "Ok", "Err"}]
           /\ car' \in [Slots -> 0..MaxCalls]
           /\ wire' \in Seq(Sent)
  <1>1. /\ answer \in [Slots -> {"none", "waiting", "Ok", "Err"}]
        /\ car \in [Slots -> 0..MaxCalls] /\ wire \in Seq(Sent)
    BY DEF TransmitterInv, Types, TypeOK
  <1>2. [op |-> op, slot |-> s, n |-> n, live |-> TRUE] \in Sent
    BY DEF Sent
  <1>3. wire' \in Seq(Sent)
    BY <1>1, <1>2, AppendSeq DEF Request
  <1> QED
    BY <1>1, <1>3 DEF Request

\* The receiver's answer.
LEMMA CarHandleKeeps ==
    ASSUME TransmitterInv, CarHandle
    PROVE  TransmitterInv' /\ (GuardsInv => GuardsInv')
  <1>1. /\ answer \in [Slots -> {"none", "waiting", "Ok", "Err"}]
        /\ car \in [Slots -> 0..MaxCalls] /\ wire \in Seq(Sent) /\ wire # <<>>
        /\ task \in [Slots -> {NoTask, "wait", "shutdown", "requested", "Ok", "Err"}]
    BY DEF TransmitterInv, Types, TypeOK, CarHandle
  <1> DEFINE r == Head(wire)
  <1>2. r \in Sent /\ Tail(wire) \in Seq(Sent)
    BY <1>1, TailSeq
  <1>3. r.slot \in Slots /\ r.n \in 0..MaxCalls /\ 0 \in 0..MaxCalls
    BY <1>2, SlotFacts DEF Sent
  <1>4. PICK ok \in BOOLEAN :
          /\ car' = [car EXCEPT ![r.slot] = IF r.op = "TEARDOWN" THEN 0 ELSE IF ok THEN r.n ELSE @]
          /\ answer' = [answer EXCEPT ![r.slot] = IF ~r.live THEN @ ELSE IF ok THEN "Ok" ELSE "Err"]
    BY DEF CarHandle
  <1>5. wire' = Tail(wire) /\ UNCHANGED <<streams, task, teardown_queue, task_queue, pc, cb, cached, app, calls, conflict>>
    BY DEF CarHandle, background, history
  <1> HIDE DEF r
  <1>6. RequestTypes'
    BY <1>1, <1>2, <1>3, <1>4, <1>5 DEF RequestTypes
  <1> QED
    BY <1>5, <1>6, RequestsMove

\* A request that times out.
LEMMA TimeoutKeeps ==
    ASSUME TransmitterInv, NEW s \in Slots, Timeout(s)
    PROVE  TransmitterInv' /\ (GuardsInv => GuardsInv')
  <1>1. /\ answer \in [Slots -> {"none", "waiting", "Ok", "Err"}]
        /\ car \in [Slots -> 0..MaxCalls] /\ wire \in Seq(Sent)
        /\ task \in [Slots -> {NoTask, "wait", "shutdown", "requested", "Ok", "Err"}]
    BY DEF TransmitterInv, Types, TypeOK
  <1>2. /\ UNCHANGED <<streams, task, teardown_queue, task_queue, pc, cb, cached, app, calls, conflict, car>>
        /\ answer' = [answer EXCEPT ![s] = "Err"]
        /\ wire' = [i \in 1..Len(wire) |-> IF wire[i].slot = s THEN [wire[i] EXCEPT !.live = FALSE]
                                           ELSE wire[i]]
    BY DEF Timeout, background
  <1>3. Len(wire) \in Nat /\ \A i \in 1..Len(wire) : wire[i] \in Sent
    BY <1>1, LenProperties, ElementOfSeq
  <1>4. \A m \in Sent : [m EXCEPT !.live = FALSE] \in Sent
    BY DEF Sent
  <1>5. wire' \in [1..Len(wire) -> Sent]
    BY <1>2, <1>3, <1>4
  <1>6. wire' \in Seq(Sent)
    BY <1>3, <1>5, FunctionSeq
  <1>7. RequestTypes'
    BY <1>1, <1>2, <1>6 DEF RequestTypes
  <1> QED
    BY <1>2, <1>7, RequestsMove

\* The connection is lost.
LEMMA BreakKeeps ==
    ASSUME TransmitterInv, Break
    PROVE  TransmitterInv' /\ (GuardsInv => GuardsInv')
  <1>1. UNCHANGED <<streams, task, teardown_queue, task_queue, pc, cb, cached, app, calls, conflict>>
    BY DEF Break, background, counters, history
  <1>2. RequestTypes'
    BY DEF TransmitterInv, Types, TypeOK, Break, RequestTypes
  <1> QED
    BY <1>1, <1>2, RequestsMove

\* A teardown task goes on.
LEMMA RunTaskKeeps ==
    ASSUME TransmitterInv, NEW s \in Slots, RunTask(s)
    PROVE  TransmitterInv' /\ (GuardsInv => GuardsInv')
  <1>1. /\ answer \in [Slots -> {"none", "waiting", "Ok", "Err"}]
        /\ car \in [Slots -> 0..MaxCalls] /\ wire \in Seq(Sent)
        /\ task \in [Slots -> {NoTask, "wait", "shutdown", "requested", "Ok", "Err"}]
        /\ streams[s].n \in 0..MaxCalls
    BY DEF TransmitterInv, Types, TypeOK
  <1>2. UNCHANGED <<streams, teardown_queue, task_queue, pc, cb, cached, app, calls, conflict>>
    BY DEF RunTask, background, counters, history
  <1>3. RequestTypes' /\ \A t \in Slots : task'[t] # NoTask <=> task[t] # NoTask
    <2>1. CASE task[s] = "wait" /\ task' = [task EXCEPT ![s] = "shutdown"] /\ UNCHANGED receiver
      BY <1>1, <2>1 DEF RequestTypes, receiver, NoTask
    <2>2. CASE task[s] = "shutdown" /\ task' = [task EXCEPT ![s] = "requested"]
               /\ Request("TEARDOWN", s, streams[s].n)
      <3>1. /\ answer' \in [Slots -> {"none", "waiting", "Ok", "Err"}]
            /\ car' \in [Slots -> 0..MaxCalls] /\ wire' \in Seq(Sent)
        BY <1>1, <2>2, RequestSent
      <3> QED
        BY <1>1, <2>2, <3>1 DEF RequestTypes, NoTask
    <2>3. CASE /\ task[s] = "requested" /\ answer[s] \in {"Ok", "Err"}
               /\ task' = [task EXCEPT ![s] = answer[s]]
               /\ answer' = [answer EXCEPT ![s] = "none"]
               /\ UNCHANGED <<wire, car>>
      BY <1>1, <2>3 DEF RequestTypes, NoTask
    <2> QED
      BY <2>1, <2>2, <2>3 DEF RunTask
  <1> QED
    BY <1>2, <1>3, RequestsMove

-----------------------------------------------------------------------------
(* The loop. *)

StreamStates == [state : {"Unconnected", "Stream", "Teardown"}, n : 0..MaxCalls]

\* The streams that entries of the queue take down.
LEMMA TornDown ==
    ASSUME NEW st \in [Slots -> StreamStates], NEW q
    PROVE  /\ torn_down(st, q) \in [Slots -> StreamStates]
           /\ \A s \in Slots :
                /\ torn_down(st, q)[s].state = "Stream" <=> st[s].state = "Stream" /\ s \notin ToSet(q)
                /\ s \notin ToSet(q) \/ st[s].state # "Stream" => torn_down(st, q)[s] = st[s]
                /\ s \in ToSet(q) /\ st[s].state = "Stream" => torn_down(st, q)[s].state = "Teardown"
  <1>1. \A s \in Slots : st[s] \in StreamStates /\ st[s].n \in 0..MaxCalls
    BY DEF StreamStates
  <1>2. \A s \in Slots : [state |-> "Teardown", n |-> st[s].n] \in StreamStates
    BY <1>1 DEF StreamStates
  <1> QED
    BY <1>1, <1>2 DEF torn_down

\* Every stream that is taken down gets a task.
LEMMA TasksStart ==
    ASSUME NEW old \in [Slots -> StreamStates], NEW new \in [Slots -> StreamStates],
           task \in [Slots -> {NoTask, "wait", "shutdown", "requested", "Ok", "Err"}]
    PROVE  /\ TasksOf(old, new) \in [Slots -> {NoTask, "wait", "shutdown", "requested", "Ok", "Err"}]
           /\ \A s \in Slots :
                IF new[s].state = "Teardown" /\ old[s].state # "Teardown"
                THEN TasksOf(old, new)[s] # NoTask ELSE TasksOf(old, new)[s] = task[s]
  BY DEF TasksOf, NoTask

\* What the state says of streams and tasks.
LEMMA StreamFacts ==
    ASSUME TransmitterInv
    PROVE  /\ streams \in [Slots -> StreamStates]
           /\ task \in [Slots -> {NoTask, "wait", "shutdown", "requested", "Ok", "Err"}]
           /\ \A s \in Slots : (task[s] # NoTask) <=> (streams[s].state = "Teardown")
           /\ app \in [Slots -> [does : {"idle", "calling", "holds"}, n : 0..MaxCalls]]
           /\ teardown_queue \in Seq(Slots)
           /\ Unconnected \in StreamStates /\ Unconnected.state = "Unconnected"
  BY SlotFacts DEF TransmitterInv, Types, TypeOK, StreamStates, Unconnected

\* The session ends.
LEMMA CloseKeeps ==
    ASSUME TransmitterInv, pc \in {"reconcile", "poll"}, Close
    PROVE  TransmitterInv' /\ GuardsInv'
  <1>1. /\ pc' = "closed" /\ cached' = NoCallback /\ task_queue' = <<>> /\ cb = NoCallback
        /\ teardown_queue' = <<>>
        /\ streams' = [s \in Slots |-> Unconnected] /\ task' = [s \in Slots |-> NoTask]
        /\ wire' = [i \in 1..Len(wire) |-> [wire[i] EXCEPT !.live = FALSE]]
        /\ answer' = [s \in Slots |-> "none"]
        /\ app' = [s \in Slots |-> IF app[s].does = "calling" THEN Idle ELSE app[s]]
        /\ UNCHANGED <<cb, car, calls, conflict>>
    BY DEF TransmitterInv, HandInv, Close, counters, history
  <1>2. /\ InHand' = NoCallback /\ Len(task_queue') = 0 /\ task_queue' \in Seq(Callback)
        /\ teardown_queue' \in Seq(Slots)
    BY <1>1, EmptySeq DEF InHand
  <1>3. \A s \in Slots :
          /\ streams'[s].state = "Unconnected" /\ task'[s] = NoTask
          /\ \/ app'[s] = app[s] /\ app[s].does # "calling"
             \/ app'[s] = Idle /\ app[s].does = "calling"
    BY <1>1 DEF Unconnected
  <1>4. /\ app' \in [Slots -> [does : {"idle", "calling", "holds"}, n : 0..MaxCalls]]
        /\ streams' \in [Slots -> StreamStates]
    BY <1>1, StreamFacts, SlotFacts DEF Idle
  <1>5. wire' \in Seq(Sent)
    <2>1. wire \in Seq(Sent)
      BY DEF TransmitterInv, Types
    <2>2. Len(wire) \in Nat /\ \A i \in 1..Len(wire) : wire[i] \in Sent
      BY <2>1, LenProperties, ElementOfSeq
    <2>3. \A m \in Sent : [m EXCEPT !.live = FALSE] \in Sent
      BY DEF Sent
    <2>4. wire' \in [1..Len(wire) -> Sent]
      BY <1>1, <2>2, <2>3
    <2> QED
      BY <2>2, <2>4, FunctionSeq
  <1>6. Types'
    <2>1. TypeOK'
      BY <1>1, <1>2, <1>3, <1>4 DEF TransmitterInv, Types, TypeOK, StreamStates, NoTask
    <2> QED
      BY <1>1, <1>2, <1>5, <2>1, CallbackFacts DEF TransmitterInv, Types
  <1>7. HandInv' /\ QueueInv'
    BY <1>1, <1>2, <1>3 DEF HandInv, QueueInv
  <1>8. CallersInv'
    BY <1>1, <1>2, <1>3 DEF TransmitterInv, CallersInv, Idle, NoCallback
  <1>9. StreamsInv'
    BY <1>1, <1>3 DEF TransmitterInv, StreamsInv
  <1>10. GuardsInv'
    BY <1>1 DEF GuardsInv
  <1> QED
    BY <1>6, <1>7, <1>8, <1>9, <1>10 DEF TransmitterInv

\* Finished slots are free again, and the teardown queue is emptied.
LEMMA CollectKeeps ==
    ASSUME TransmitterInv, pc \in {"reconcile", "poll"}, collect, pc' = "poll"
    PROVE  TransmitterInv' /\ (GuardsInv => GuardsInv')
  <1> DEFINE st == [s \in Slots |-> IF s \in Completed THEN Unconnected ELSE streams[s]]
             new == torn_down(st, teardown_queue)
  <1>1. /\ streams' = new /\ teardown_queue' = <<>>
        /\ task' = [s \in Slots |-> IF s \in Completed /\ new[s] = Unconnected THEN NoTask
                                    ELSE TasksOf(st, new)[s]]
        /\ UNCHANGED <<task_queue, cb, cached, wire, answer, car, app, calls, conflict>>
    BY DEF collect, receiver, counters, history
  <1>2. /\ st \in [Slots -> StreamStates]
        /\ \A s \in Slots : IF s \in Completed THEN st[s] = Unconnected ELSE st[s] = streams[s]
    BY StreamFacts
  <1> HIDE DEF st
  <1>3. /\ new \in [Slots -> StreamStates]
        /\ \A s \in Slots :
             /\ new[s].state = "Stream" <=> st[s].state = "Stream" /\ s \notin ToSet(teardown_queue)
             /\ s \notin ToSet(teardown_queue) \/ st[s].state # "Stream" => new[s] = st[s]
             /\ s \in ToSet(teardown_queue) /\ st[s].state = "Stream" => new[s].state = "Teardown"
    BY <1>2, TornDown
  <1> HIDE DEF new
  <1>4. /\ TasksOf(st, new) \in [Slots -> {NoTask, "wait", "shutdown", "requested", "Ok", "Err"}]
        /\ \A s \in Slots :
              IF new[s].state = "Teardown" /\ st[s].state # "Teardown"
              THEN TasksOf(st, new)[s] # NoTask ELSE TasksOf(st, new)[s] = task[s]
    <2>1. st \in [Slots -> StreamStates] /\ new \in [Slots -> StreamStates]
      BY <1>2, <1>3
    <2>2. task \in [Slots -> {NoTask, "wait", "shutdown", "requested", "Ok", "Err"}]
      BY StreamFacts
    <2> QED
      BY <2>1, <2>2, TasksStart
  <1>5. /\ task' \in [Slots -> {NoTask, "wait", "shutdown", "requested", "Ok", "Err"}]
        /\ \A s \in Slots : task'[s] # NoTask <=> new[s].state = "Teardown"
    <2>1. task' \in [Slots -> {NoTask, "wait", "shutdown", "requested", "Ok", "Err"}]
      BY <1>1, <1>4
    <2>2. ASSUME NEW s \in Slots, s \in Completed
          PROVE  task'[s] # NoTask <=> new[s].state = "Teardown"
      BY <1>1, <1>2, <1>3, <2>2, StreamFacts
    <2>3. ASSUME NEW s \in Slots, s \notin Completed
          PROVE  task'[s] # NoTask <=> new[s].state = "Teardown"
      <3>1. task'[s] = TasksOf(st, new)[s] /\ st[s] = streams[s]
        BY <1>1, <1>2, <2>3
      <3>2. task[s] # NoTask <=> streams[s].state = "Teardown"
        BY StreamFacts
      <3> QED
        BY <1>3, <1>4, <3>1, <3>2
    <2> QED
      BY <2>1, <2>2, <2>3
  <1>6. InHand' = InHand
    BY <1>1 DEF InHand
  <1>7. ToSet(teardown_queue') = {} /\ teardown_queue' \in Seq(Slots)
    BY <1>1, EmptySeq DEF ToSet
  <1>8. Types'
    BY <1>1, <1>3, <1>5, <1>7 DEF TransmitterInv, Types, TypeOK, StreamStates
  <1>9. HandInv'
    BY <1>1 DEF TransmitterInv, HandInv, Scheduled
  <1>10. QueueInv' /\ CallersInv'
    BY <1>1, <1>6, CallersStay
  <1>11. StreamsInv'
    <2>1. \A s \in Slots : new[s].state = "Stream" => app[s].does = "holds"
      BY <1>2, <1>3, StreamFacts DEF TransmitterInv, StreamsInv
    <2> QED
      BY <1>1, <1>7, <2>1 DEF TransmitterInv, StreamsInv
  <1>12. ASSUME GuardsInv
         PROVE  GuardsInv'
    <2>1. ASSUME NEW s \in Slots, app[s].does = "holds"
          PROVE  new[s] = [state |-> "Stream", n |-> app[s].n]
      <3>1. streams[s] = [state |-> "Stream", n |-> app[s].n] /\ s \notin ToSet(teardown_queue)
        BY <1>12, <2>1 DEF GuardsInv
      <3>2. s \notin Completed
        BY <3>1, StreamFacts DEF Completed, NoTask
      <3> QED
        BY <1>2, <1>3, <3>1, <3>2
    <2> QED
      BY <1>1, <1>6, <1>7, <1>12, <2>1 DEF GuardsInv
  <1> QED
    BY <1>8, <1>9, <1>10, <1>11, <1>12 DEF TransmitterInv

\* reconcile ends the session or empties the teardown queue.
LEMMA ReconcileKeeps ==
    ASSUME TransmitterInv, reconcile
    PROVE  TransmitterInv' /\ (GuardsInv => GuardsInv')
  BY CloseKeeps, CollectKeeps DEF reconcile

\* So does its poll of the teardown tasks, or it has done what it can.
LEMMA PollKeeps ==
    ASSUME TransmitterInv, Poll
    PROVE  TransmitterInv' /\ (GuardsInv => GuardsInv')
  <1>1. pc = "poll"
    BY DEF Poll
  <1>2. CASE TeardownFailed
    BY <1>1, <1>2, CloseKeeps DEF Poll
  <1>3. CASE ~TeardownFailed /\ Completed # {}
    BY <1>1, <1>3, CollectKeeps DEF Poll
  <1>4. CASE ~TeardownFailed /\ Completed = {}
    <2>1. /\ pc' = "take"
          /\ UNCHANGED <<streams, task, teardown_queue, task_queue, cb, cached, wire, answer, car, app,
                         calls, conflict>>
      BY <1>4 DEF Poll, receiver, counters, history
    <2>2. InHand' = InHand
      BY <1>1, <2>1 DEF InHand
    <2>3. Types' /\ HandInv'
      BY <1>1, <2>1 DEF TransmitterInv, Types, TypeOK, HandInv, Scheduled
    <2>4. QueueInv' /\ CallersInv'
      BY <2>1, <2>2, CallersStay
    <2>5. StreamsInv' /\ (GuardsInv => GuardsInv')
      BY <1>1, <2>1, <2>2 DEF TransmitterInv, StreamsInv, GuardsInv
    <2> QED
      BY <2>3, <2>4, <2>5 DEF TransmitterInv
  <1> QED
    BY <1>2, <1>3, <1>4

\* The callback that woke the loop runs.
LEMMA TakeKeeps ==
    ASSUME TransmitterInv, Take
    PROVE  TransmitterInv' /\ (GuardsInv => GuardsInv')
  <1>1. /\ pc = "take" /\ cached' = NoCallback
        /\ pc' = IF cached = NoCallback THEN "sleep" ELSE "run"
        /\ cb' = IF cached = NoCallback THEN NoCallback
                 ELSE [cached EXCEPT !.phase = IF cached.slot \in Audio THEN "own" ELSE "pop"]
        /\ UNCHANGED <<streams, task, teardown_queue, task_queue, wire, answer, car, app, calls, conflict>>
    BY DEF Take, receiver, counters, history
  <1>2. cached \in Callback /\ NoCallback \in Callback
    BY CallbackFacts DEF TransmitterInv, Types
  <1>3. /\ cb' \in Callback /\ cb'.call = cached.call /\ cb'.slot = cached.slot /\ cb'.op = cached.op
        /\ cached # NoCallback => cb'.phase = IF cached.slot \in Audio THEN "own" ELSE "pop"
    BY <1>1, <1>2 DEF Callback
  <1>4. InHand'.call = InHand.call /\ InHand'.slot = InHand.slot
    BY <1>1, <1>3 DEF InHand
  <1>5. Types'
    BY <1>1, <1>2, <1>3 DEF TransmitterInv, Types, TypeOK
  <1>6. HandInv'
    BY <1>1, <1>3, SlotFacts DEF TransmitterInv, HandInv, Scheduled
  <1>7. QueueInv' /\ CallersInv'
    BY <1>1, <1>4, CallersStay
  <1>8. StreamsInv'
    BY <1>1, <1>4 DEF TransmitterInv, StreamsInv
  <1>9. ASSUME GuardsInv
        PROVE  GuardsInv'
    BY <1>1, <1>4, <1>9 DEF GuardsInv
  <1> QED
    BY <1>5, <1>6, <1>7, <1>8, <1>9 DEF TransmitterInv

\* The loop wakes up, with the oldest callback if there is one.
LEMMA WakeKeeps ==
    ASSUME TransmitterInv, Wake
    PROVE  TransmitterInv' /\ (GuardsInv => GuardsInv')
  <1>1. /\ pc = "sleep" /\ pc' = "reconcile"
        /\ cached' = IF task_queue = <<>> THEN NoCallback ELSE Head(task_queue)
        /\ task_queue' = IF task_queue = <<>> THEN <<>> ELSE Tail(task_queue)
        /\ UNCHANGED <<streams, task, teardown_queue, cb, wire, answer, car, app, calls, conflict>>
    BY DEF Wake, receiver, counters, history
  <1>2. task_queue \in Seq(Callback) /\ cb = NoCallback /\ cached = NoCallback
    BY <1>1 DEF TransmitterInv, Types, HandInv
  <1>3. InHand' = cached' /\ InHand = NoCallback
    BY <1>1, <1>2 DEF InHand
  <1>4. CASE task_queue = <<>>
    <2>1. cached' = NoCallback /\ task_queue' = task_queue
      BY <1>1, <1>4
    <2>2. Types'
      BY <1>1, <2>1, CallbackFacts DEF TransmitterInv, Types, TypeOK
    <2>3. HandInv'
      BY <1>1, <1>2, <2>1 DEF HandInv
    <2>4. QueueInv' /\ CallersInv'
      BY <1>1, <1>3, <2>1, CallersStay
    <2>5. StreamsInv' /\ (GuardsInv => GuardsInv')
      BY <1>1, <1>3, <2>1 DEF TransmitterInv, StreamsInv, GuardsInv
    <2> QED
      BY <2>2, <2>3, <2>4, <2>5 DEF TransmitterInv
  <1>5. CASE task_queue # <<>>
    <2> DEFINE h == Head(task_queue)
    <2>1. /\ h \in Callback /\ h = task_queue[1] /\ 1 \in 1..Len(task_queue)
          /\ Tail(task_queue) \in Seq(Callback) /\ Shifted(Tail(task_queue), task_queue)
      BY <1>2, <1>5, TailSeq
    <2>2. cached' = h /\ task_queue' = Tail(task_queue) /\ Shifted(task_queue', task_queue)
      BY <1>1, <1>5, <2>1
    <2>3. Scheduled(h) /\ \A i \in 1..Len(task_queue') : h.call < task_queue'[i].call
      BY <2>1, <2>2 DEF TransmitterInv, QueueInv, Shifted
    <2> HIDE DEF h
    <2>4. Types'
      BY <1>1, <2>1, <2>2 DEF TransmitterInv, Types, TypeOK
    <2>5. HandInv'
      BY <1>1, <1>2, <2>2, <2>3 DEF HandInv, Scheduled
    <2>6. QueueInv'
      <3>1. \A i \in 1..Len(task_queue') : Scheduled(task_queue[i + 1]) /\ task_queue'[i] = task_queue[i + 1]
        BY <2>2 DEF TransmitterInv, QueueInv, Shifted
      <3>2. \A i, j \in 1..Len(task_queue') : i < j => task_queue'[i].call < task_queue'[j].call
        BY <2>2 DEF TransmitterInv, QueueInv, Shifted
      <3> QED
        BY <1>1, <1>3, <2>2, <2>3, <3>1, <3>2 DEF QueueInv, Scheduled
    <2>7. CallersInv'
      BY <1>1, <1>3, <2>1, <2>2 DEF TransmitterInv, CallersInv, Shifted
    <2>8. StreamsInv'
      BY <1>1 DEF TransmitterInv, StreamsInv
    <2>9. ASSUME GuardsInv
          PROVE  GuardsInv'
      BY <1>1, <1>3, <2>1, <2>2, <2>9 DEF GuardsInv, Shifted
    <2> QED
      BY <2>4, <2>5, <2>6, <2>7, <2>8, <2>9 DEF TransmitterInv
  <1> QED
    BY <1>4, <1>5

-----------------------------------------------------------------------------
(* The callback in hand. *)

\* Steps in which the callback goes on.  What they may do to streams: tear down those
\* in the teardown queue, or free slots whose teardown has ended.
LEMMA CallbackContinues ==
    ASSUME TransmitterInv, pc = "run", pc' = "run", cb' \in Callback,
           cb'.call = cb.call, cb'.slot = cb.slot, cb'.op = cb.op, cb'.phase # "none",
           cb'.phase \in {"own", "setup"} => cb.op = "setup",
           cb'.phase = "setup" => streams'[cb.slot].state = "Unconnected",
           streams' \in [Slots -> StreamStates], RequestTypes',
           \A s \in Slots : (task'[s] # NoTask) <=> (streams'[s].state = "Teardown"),
           \A s \in Slots : streams'[s].state = "Stream" =>
             streams[s].state = "Stream" /\ (s \in ToSet(teardown_queue) => s \in ToSet(teardown_queue')),
           \A s \in Slots : s \in ToSet(teardown_queue') => s \in ToSet(teardown_queue),
           teardown_queue' \in Seq(Slots),
           UNCHANGED <<task_queue, cached, app, calls, conflict>>
    PROVE  /\ TransmitterInv' /\ InHand'.slot = InHand.slot
           /\ (GuardsInv /\ (\A s \in Slots : app[s].does = "holds" => streams'[s] = streams[s])
                => GuardsInv')
  <1>1. InHand'.call = InHand.call /\ InHand'.slot = InHand.slot
    BY DEF InHand
  <1>2. Types'
    BY DEF TransmitterInv, Types, TypeOK, StreamStates, RequestTypes
  <1>3. HandInv'
    BY DEF TransmitterInv, HandInv, Scheduled
  <1>4. QueueInv' /\ CallersInv'
    BY <1>1, CallersStay
  <1>5. StreamsInv'
    BY <1>1 DEF TransmitterInv, StreamsInv
  <1>6. ASSUME GuardsInv, \A s \in Slots : app[s].does = "holds" => streams'[s] = streams[s]
        PROVE  GuardsInv'
    <2>1. ASSUME NEW s \in Slots, app[s].does = "holds"
          PROVE  /\ streams'[s] = [state |-> "Stream", n |-> app[s].n]
                 /\ s \notin ToSet(teardown_queue')
                 /\ s \in Screens =>
                      /\ InHand'.slot # s
                      /\ \A i \in 1..Len(task_queue) : task_queue[i].slot # s
      <3>1. /\ streams[s] = [state |-> "Stream", n |-> app[s].n]
            /\ s \notin ToSet(teardown_queue)
            /\ s \in Screens =>
                 /\ InHand.slot # s
                 /\ \A i \in 1..Len(task_queue) : task_queue[i].slot # s
        BY <1>6, <2>1 DEF GuardsInv
      <3> QED
        BY <1>1, <1>6, <2>1, <3>1
    <2> QED
      BY <2>1 DEF GuardsInv
  <1> QED
    BY <1>1, <1>2, <1>3, <1>4, <1>5, <1>6 DEF TransmitterInv

\* The drain takes down the streams in the queue.
LEMMA DrainPopKeeps ==
    ASSUME TransmitterInv, DrainPop
    PROVE  TransmitterInv' /\ (GuardsInv => GuardsInv')
  <1> DEFINE new == torn_down(streams, teardown_queue)
  <1>1. /\ pc = "run" /\ cb.phase = "pop" /\ pc' = "run" /\ streams' = new
        /\ task' = TasksOf(streams, new) /\ teardown_queue' = <<>>
        /\ cb' = [cb EXCEPT !.phase = "pass", !.at = 1, !.drained = FALSE]
        /\ UNCHANGED <<task_queue, cached, wire, answer, car, app, calls, conflict>>
    BY DEF DrainPop, receiver, counters, history
  <1>2. /\ cb' \in Callback /\ cb'.call = cb.call /\ cb'.slot = cb.slot /\ cb'.op = cb.op
        /\ cb'.phase = "pass"
    <2>1. cb \in Callback
      BY DEF TransmitterInv, Types
    <2>2. /\ cb.op \in {"none", "setup", "drain"} /\ cb.slot \in Slots \cup {"none"} /\ cb.call \in 0..MaxCalls
          /\ cb = [op |-> cb.op, slot |-> cb.slot, call |-> cb.call, phase |-> cb.phase, at |-> cb.at,
                   drained |-> cb.drained]
      BY <2>1 DEF Callback
    <2>3. cb' = [op |-> cb.op, slot |-> cb.slot, call |-> cb.call, phase |-> "pass", at |-> 1,
                 drained |-> FALSE]
      BY <1>1, <2>2
    <2>4. cb' \in Callback
      BY <2>2, <2>3 DEF Callback
    <2> QED
      BY <2>3, <2>4
  <1>3. /\ streams \in [Slots -> StreamStates]
        /\ task \in [Slots -> {NoTask, "wait", "shutdown", "requested", "Ok", "Err"}]
        /\ \A s \in Slots : (task[s] # NoTask) <=> (streams[s].state = "Teardown")
    BY StreamFacts
  <1>4. /\ new \in [Slots -> StreamStates]
        /\ \A s \in Slots :
               /\ new[s].state = "Stream" <=> streams[s].state = "Stream" /\ s \notin ToSet(teardown_queue)
               /\ s \notin ToSet(teardown_queue) \/ streams[s].state # "Stream" => new[s] = streams[s]
               /\ s \in ToSet(teardown_queue) /\ streams[s].state = "Stream" => new[s].state = "Teardown"
    BY <1>3, TornDown
  <1> HIDE DEF new
  <1>5. /\ task' \in [Slots -> {NoTask, "wait", "shutdown", "requested", "Ok", "Err"}]
        /\ \A s \in Slots : IF new[s].state = "Teardown" /\ streams[s].state # "Teardown"
                            THEN task'[s] # NoTask ELSE task'[s] = task[s]
    BY <1>1, <1>3, <1>4, TasksStart
  <1>6. \A s \in Slots : (task'[s] # NoTask) <=> (new[s].state = "Teardown")
    BY <1>3, <1>4, <1>5
  <1>7. ToSet(teardown_queue') = {} /\ teardown_queue' \in Seq(Slots)
    BY <1>1, EmptySeq DEF ToSet
  <1>8. RequestTypes'
    BY <1>1, <1>5 DEF RequestTypes, TransmitterInv, Types, TypeOK
  <1>9. \A s \in Slots : streams'[s].state = "Stream" =>
          streams[s].state = "Stream" /\ (s \in ToSet(teardown_queue) => s \in ToSet(teardown_queue'))
    BY <1>1, <1>4
  <1>10. /\ TransmitterInv'
         /\ (GuardsInv /\ (\A s \in Slots : app[s].does = "holds" => streams'[s] = streams[s])
              => GuardsInv')
    BY <1>1, <1>2, <1>4, <1>6, <1>7, <1>8, <1>9, CallbackContinues
  <1>11. GuardsInv => \A s \in Slots : app[s].does = "holds" => streams'[s] = streams[s]
    BY <1>1, <1>4 DEF GuardsInv
  <1> QED
    BY <1>10, <1>11

\* Steps in which the callback ends.
LEMMA CallbackEnds ==
    ASSUME TransmitterInv, pc = "run", pc' = "sleep", cb' = NoCallback,
           app' \in [Slots -> [does : {"idle", "calling", "holds"}, n : 0..MaxCalls]],
           \A s \in Slots : \/ app'[s] = app[s]
                            \/ app[s].does # "holds" /\ app'[s] = Idle
                            \/ app[s].does = "calling" /\ app'[s] = [does |-> "holds", n |-> cb.call],
           streams' \in [Slots -> StreamStates], RequestTypes',
           \A s \in Slots : (task'[s] # NoTask) <=> (streams'[s].state = "Teardown"),
           \A s \in Slots : streams'[s].state = "Stream" =>
             app'[s].does = "holds" \/ s \in ToSet(teardown_queue'),
           teardown_queue' \in Seq(Slots), ~conflict',
           UNCHANGED <<task_queue, cached, calls>>
    PROVE  TransmitterInv' /\ InHand' = NoCallback
  <1>1. /\ cached' = NoCallback /\ cb.call \in 1..calls /\ InHand = cb
    BY DEF TransmitterInv, HandInv, Scheduled, InHand
  <1>2. InHand' = NoCallback /\ NoCallback.call = 0 /\ NoCallback.slot \notin Slots
    BY <1>1, SlotFacts DEF InHand, NoCallback
  <1>3. Types'
    BY <1>1, CallbackFacts DEF TransmitterInv, Types, TypeOK, StreamStates, RequestTypes
  <1>4. HandInv'
    BY <1>1 DEF HandInv
  <1>5. QueueInv'
    BY <1>1, <1>2, CallbackFacts DEF TransmitterInv, QueueInv, Scheduled
  <1>6. CallersInv'
    <2>1. \A i \in 1..Len(task_queue) : cb.call < task_queue[i].call /\ task_queue[i].call \in 1..calls
      BY <1>1, CallbackFacts DEF TransmitterInv, QueueInv
    <2>2. calls \in Nat
      BY CallbackFacts
    <2> SUFFICES ASSUME NEW s \in Slots
                 PROVE  /\ app'[s].does = "idle" => app'[s].n = 0
                        /\ app'[s].does # "idle" => app'[s].n \in 1..calls
                        /\ app'[s].does = "calling" =>
                             \A i \in 1..Len(task_queue) : task_queue[i].slot = s => task_queue[i].call <= app'[s].n
                        /\ app'[s].does = "holds" =>
                             /\ 0 # app'[s].n
                             /\ \A i \in 1..Len(task_queue) : task_queue[i].call # app'[s].n
      BY <1>2 DEF CallersInv
    <2>3. CASE app'[s] = app[s]
      <3>1. app[s].does # "idle" => app[s].n \in 1..calls
        BY DEF TransmitterInv, CallersInv
      <3> QED
        BY <2>3, <3>1 DEF TransmitterInv, CallersInv
    <2>4. CASE app'[s] = Idle
      BY <2>4 DEF Idle
    <2>5. CASE app'[s] = [does |-> "holds", n |-> cb.call]
      BY <1>1, <2>1, <2>2, <2>5
    <2> QED
      BY <2>3, <2>4, <2>5
  <1>7. StreamsInv'
    BY <1>2 DEF StreamsInv
  <1> QED
    BY <1>2, <1>3, <1>4, <1>5, <1>6, <1>7 DEF TransmitterInv

\* Steps in which the callback ends with an error, or with nothing to do.
LEMMA CallbackFails ==
    ASSUME TransmitterInv, pc = "run", pc' = "sleep", cb' = NoCallback,
           \/ app' = [s \in Slots |-> IF app[s] = [does |-> "calling", n |-> cb.call] THEN Idle ELSE app[s]]
           \/ app' = app,
           streams' \in [Slots -> StreamStates], RequestTypes',
           \A s \in Slots : (task'[s] # NoTask) <=> (streams'[s].state = "Teardown"),
           \A s \in Slots : streams'[s].state = "Stream" =>
             streams[s].state = "Stream" /\ (s \in ToSet(teardown_queue) => s \in ToSet(teardown_queue')),
           teardown_queue' \in Seq(Slots), ~conflict',
           UNCHANGED <<task_queue, cached, calls>>
    PROVE  /\ TransmitterInv'
           /\ (GuardsInv
                 /\ (\A s \in Slots : app[s].does = "holds" =>
                       streams'[s] = streams[s] /\ s \notin ToSet(teardown_queue'))
                 => GuardsInv')
  <1>1. app \in [Slots -> [does : {"idle", "calling", "holds"}, n : 0..MaxCalls]]
    BY StreamFacts
  <1>2. /\ app' \in [Slots -> [does : {"idle", "calling", "holds"}, n : 0..MaxCalls]]
        /\ \A s \in Slots : \/ app'[s] = app[s]
                            \/ app[s].does # "holds" /\ app'[s] = Idle
    BY <1>1, SlotFacts DEF Idle
  <1>3. \A s \in Slots : app[s].does = "holds" => app'[s] = app[s]
    BY <1>2
  <1>4. \A s \in Slots : streams'[s].state = "Stream" =>
          app'[s].does = "holds" \/ s \in ToSet(teardown_queue')
    BY <1>3 DEF TransmitterInv, StreamsInv
  <1>5. TransmitterInv' /\ InHand' = NoCallback
    BY <1>2, <1>4, CallbackEnds
  <1>6. ASSUME GuardsInv,
               \A s \in Slots : app[s].does = "holds" =>
                 streams'[s] = streams[s] /\ s \notin ToSet(teardown_queue')
        PROVE  GuardsInv'
    <2>1. ASSUME NEW s \in Slots, app'[s].does = "holds"
          PROVE  /\ streams'[s] = [state |-> "Stream", n |-> app'[s].n]
                 /\ s \notin ToSet(teardown_queue')
                 /\ s \in Screens =>
                      /\ InHand'.slot # s
                      /\ \A i \in 1..Len(task_queue) : task_queue[i].slot # s
      <3>1. app'[s] = app[s]
        BY <1>2, <2>1 DEF Idle
      <3>2. /\ streams[s] = [state |-> "Stream", n |-> app[s].n]
            /\ s \in Screens => \A i \in 1..Len(task_queue) : task_queue[i].slot # s
        BY <1>6, <2>1, <3>1 DEF GuardsInv
      <3>3. InHand'.slot = "none" /\ s # "none"
        BY <1>5, SlotFacts DEF NoCallback
      <3> QED
        BY <1>6, <2>1, <3>1, <3>2, <3>3
    <2> QED
      BY <2>1 DEF GuardsInv
  <1> QED
    BY <1>5, <1>6

\* The slot of the callback that is set up.
LEMMA OwnSlot ==
    ASSUME TransmitterInv, pc = "run", cb.phase \in {"own", "setup"}
    PROVE  cb.slot \in Slots /\ cb.op = "setup" /\ cb.call \in 1..calls /\ InHand = cb /\ cb \in Callback
  BY SlotFacts DEF TransmitterInv, Types, HandInv, Scheduled, InHand

\* A slot whose teardown has ended is free.
LEMMA SlotFreed ==
    ASSUME TransmitterInv, pc # "closed", NEW s \in Slots, streams[s].state = "Teardown",
           streams' = [streams EXCEPT ![s] = Unconnected], task' = [task EXCEPT ![s] = NoTask],
           UNCHANGED <<teardown_queue, wire, answer, car>>
    PROVE  /\ streams' \in [Slots -> StreamStates] /\ RequestTypes'
           /\ \A t \in Slots : (task'[t] # NoTask) <=> (streams'[t].state = "Teardown")
           /\ \A t \in Slots : streams'[t].state = "Stream" =>
                streams[t].state = "Stream" /\ (t \in ToSet(teardown_queue) => t \in ToSet(teardown_queue'))
           /\ GuardsInv => \A t \in Slots : app[t].does = "holds" =>
                 streams'[t] = streams[t] /\ t \notin ToSet(teardown_queue')
           /\ streams'[s].state = "Unconnected" /\ teardown_queue' \in Seq(Slots)
  <1>1. /\ streams' \in [Slots -> StreamStates]
        /\ task' \in [Slots -> {NoTask, "wait", "shutdown", "requested", "Ok", "Err"}]
        /\ \A t \in Slots : t # s => streams'[t] = streams[t] /\ task'[t] = task[t]
        /\ streams'[s].state = "Unconnected" /\ task'[s] = NoTask
    BY StreamFacts
  <1>2. RequestTypes'
    BY <1>1 DEF RequestTypes, TransmitterInv, Types, TypeOK
  <1>3. GuardsInv => app[s].does # "holds"
    <2> SUFFICES ASSUME GuardsInv, app[s].does = "holds" PROVE FALSE
      OBVIOUS
    <2>1. streams[s] = [state |-> "Stream", n |-> app[s].n]
      BY DEF GuardsInv
    <2>2. streams[s].state = "Stream"
      BY <2>1
    <2> QED
      BY <2>2
  <1>4. GuardsInv => \A t \in Slots : app[t].does = "holds" =>
                 streams'[t] = streams[t] /\ t \notin ToSet(teardown_queue')
    BY <1>1, <1>3 DEF GuardsInv
  <1> QED
    BY <1>1, <1>2, <1>4, StreamFacts

\* The setup has waited for the teardown of its slot.
LEMMA AwaitOwnKeeps ==
    ASSUME TransmitterInv, AwaitOwn
    PROVE  TransmitterInv' /\ (GuardsInv => GuardsInv')
  <1> DEFINE s == cb.slot
  <1>1. /\ pc = "run" /\ cb.phase = "own" /\ streams[s].state = "Teardown"
        /\ streams' = [streams EXCEPT ![s] = Unconnected] /\ task' = [task EXCEPT ![s] = NoTask]
        /\ Fails \/ UNCHANGED <<pc, cb, cached, app>>
        /\ UNCHANGED <<teardown_queue, task_queue, wire, answer, car, calls, conflict>>
    BY DEF AwaitOwn, receiver, counters, history
  <1>2. s \in Slots /\ cb.op = "setup" /\ cb \in Callback /\ ~conflict
    BY <1>1, OwnSlot DEF TransmitterInv, StreamsInv
  <1> HIDE DEF s
  <1>3. /\ streams' \in [Slots -> StreamStates] /\ RequestTypes'
        /\ \A t \in Slots : (task'[t] # NoTask) <=> (streams'[t].state = "Teardown")
        /\ \A t \in Slots : streams'[t].state = "Stream" =>
                streams[t].state = "Stream" /\ (t \in ToSet(teardown_queue) => t \in ToSet(teardown_queue'))
        /\ GuardsInv => \A t \in Slots : app[t].does = "holds" =>
                 streams'[t] = streams[t] /\ t \notin ToSet(teardown_queue')
        /\ teardown_queue' \in Seq(Slots)
    BY <1>1, <1>2, SlotFreed
  <1>4. CASE Fails
    BY <1>1, <1>2, <1>3, <1>4, CallbackFails DEF Fails
  <1>5. CASE UNCHANGED <<pc, cb, cached, app>>
    BY <1>1, <1>2, <1>3, <1>5, CallbackContinues
  <1> QED
    BY <1>1, <1>4, <1>5

\* Steps of the callback that leave the streams alone.
LEMMA StreamsStay ==
    ASSUME TransmitterInv, pc # "closed",
           UNCHANGED <<streams, task, teardown_queue, wire, answer, car>>
    PROVE  /\ streams' \in [Slots -> StreamStates] /\ RequestTypes'
           /\ \A t \in Slots : (task'[t] # NoTask) <=> (streams'[t].state = "Teardown")
           /\ \A t \in Slots : streams'[t].state = "Stream" =>
                streams[t].state = "Stream" /\ (t \in ToSet(teardown_queue) => t \in ToSet(teardown_queue'))
           /\ GuardsInv => \A t \in Slots : app[t].does = "holds" =>
                 streams'[t] = streams[t] /\ t \notin ToSet(teardown_queue')
           /\ teardown_queue' \in Seq(Slots)
  <1>1. RequestTypes'
    BY DEF RequestTypes, TransmitterInv, Types, TypeOK
  <1> QED
    BY <1>1, StreamFacts DEF GuardsInv

\* A pass that goes on to the next slot.
LEMMA Advanced ==
    ASSUME NEW c \in Callback, NEW a \in Nat \ {0}, NEW d \in BOOLEAN
    PROVE  /\ [c EXCEPT !.at = a, !.drained = d] \in Callback
           /\ [c EXCEPT !.at = a, !.drained = d].call = c.call
           /\ [c EXCEPT !.at = a, !.drained = d].slot = c.slot
           /\ [c EXCEPT !.at = a, !.drained = d].op = c.op
           /\ [c EXCEPT !.at = a, !.drained = d].phase = c.phase
  BY DEF Callback

\* The drain waits for one slot after the other.
LEMMA DrainPassKeeps ==
    ASSUME TransmitterInv, DrainPass
    PROVE  TransmitterInv' /\ (GuardsInv => GuardsInv')
  <1> DEFINE s == Order[cb.at]
  <1>1. /\ pc = "run" /\ cb.phase = "pass" /\ cb.at <= Len(Order)
        /\ UNCHANGED <<teardown_queue, task_queue, wire, answer, car, calls, conflict>>
        /\ \/ /\ streams[s].state # "Teardown" /\ cb' = [cb EXCEPT !.at = @ + 1]
              /\ UNCHANGED <<streams, task, pc, cached, app>>
           \/ /\ streams[s].state = "Teardown" /\ streams' = [streams EXCEPT ![s] = Unconnected]
              /\ task' = [task EXCEPT ![s] = NoTask]
              /\ \/ Fails
                 \/ cb' = [cb EXCEPT !.at = @ + 1, !.drained = TRUE] /\ UNCHANGED <<pc, cached, app>>
    BY DEF DrainPass, receiver, counters, history
  <1>2. cb \in Callback /\ ~conflict
    BY DEF TransmitterInv, Types, StreamsInv
  <1>3. s \in Slots /\ cb.at \in Nat \ {0}
    BY <1>1, <1>2, OrderSlots DEF Callback
  <1> HIDE DEF s
  <1>4. ASSUME \/ cb' = [cb EXCEPT !.at = @ + 1]
               \/ cb' = [cb EXCEPT !.at = @ + 1, !.drained = TRUE]
        PROVE  /\ cb' \in Callback /\ cb'.call = cb.call /\ cb'.slot = cb.slot /\ cb'.op = cb.op
               /\ cb'.phase = "pass"
    <2> DEFINE a == cb.at + 1
    <2>1. /\ a \in Nat \ {0}
          /\ cb' = [cb EXCEPT !.at = a] \/ cb' = [cb EXCEPT !.at = a, !.drained = TRUE]
      BY <1>3, <1>4
    <2> HIDE DEF a
    <2>2. CASE cb' = [cb EXCEPT !.at = a]
      BY <1>1, <1>2, <2>1, <2>2 DEF Callback
    <2>3. CASE cb' = [cb EXCEPT !.at = a, !.drained = TRUE]
      <3>1. TRUE \in BOOLEAN
        OBVIOUS
      <3> QED
        BY <1>1, <1>2, <2>1, <2>3, <3>1, Advanced, Zenon
    <2> QED
      BY <2>1, <2>2, <2>3
  <1>5. CASE streams[s].state # "Teardown"
    <2>1. /\ streams' \in [Slots -> StreamStates] /\ RequestTypes'
          /\ \A t \in Slots : (task'[t] # NoTask) <=> (streams'[t].state = "Teardown")
          /\ \A t \in Slots : streams'[t].state = "Stream" =>
                streams[t].state = "Stream" /\ (t \in ToSet(teardown_queue) => t \in ToSet(teardown_queue'))
          /\ teardown_queue' \in Seq(Slots)
      BY <1>1, <1>5, StreamsStay
    <2> QED
      BY <1>1, <1>4, <1>5, <2>1, CallbackContinues
  <1>6. CASE streams[s].state = "Teardown"
    <2>1. /\ streams' \in [Slots -> StreamStates] /\ RequestTypes'
          /\ \A t \in Slots : (task'[t] # NoTask) <=> (streams'[t].state = "Teardown")
          /\ \A t \in Slots : streams'[t].state = "Stream" =>
                streams[t].state = "Stream" /\ (t \in ToSet(teardown_queue) => t \in ToSet(teardown_queue'))
          /\ GuardsInv => \A t \in Slots : app[t].does = "holds" =>
                 streams'[t] = streams[t] /\ t \notin ToSet(teardown_queue')
          /\ teardown_queue' \in Seq(Slots)
      BY <1>1, <1>3, <1>6, SlotFreed
    <2>2. CASE Fails
      BY <1>1, <1>2, <2>1, <2>2, CallbackFails DEF Fails
    <2>3. CASE cb' = [cb EXCEPT !.at = @ + 1, !.drained = TRUE] /\ UNCHANGED <<pc, cached, app>>
      BY <1>1, <1>4, <2>1, <2>3, CallbackContinues
    <2> QED
      BY <1>1, <1>6, <2>2, <2>3
  <1> QED
    BY <1>5, <1>6

\* A pass over the slots ends.
LEMMA DrainEndKeeps ==
    ASSUME TransmitterInv, DrainEnd
    PROVE  TransmitterInv' /\ (GuardsInv => GuardsInv')
  <1>1. /\ pc = "run" /\ cb.phase = "pass"
        /\ pc' = IF ~cb.drained /\ cb.op = "drain" THEN "sleep" ELSE pc
        /\ cb' = IF cb.drained THEN [cb EXCEPT !.phase = "pop"]
                 ELSE IF cb.op = "drain" THEN NoCallback ELSE [cb EXCEPT !.phase = "own"]
        /\ UNCHANGED <<streams, task, teardown_queue, task_queue, cached, wire, answer, car, app, calls, conflict>>
    BY DEF DrainEnd, receiver, counters, history
  <1>2. cb \in Callback /\ ~conflict /\ cb.op \in {"setup", "drain"}
    BY <1>1 DEF TransmitterInv, Types, StreamsInv, HandInv, Scheduled
  <1>3. /\ streams' \in [Slots -> StreamStates] /\ RequestTypes'
        /\ \A t \in Slots : (task'[t] # NoTask) <=> (streams'[t].state = "Teardown")
        /\ \A t \in Slots : streams'[t].state = "Stream" =>
              streams[t].state = "Stream" /\ (t \in ToSet(teardown_queue) => t \in ToSet(teardown_queue'))
        /\ GuardsInv => \A t \in Slots : app[t].does = "holds" =>
                 streams'[t] = streams[t] /\ t \notin ToSet(teardown_queue')
        /\ teardown_queue' \in Seq(Slots)
    BY <1>1, StreamsStay
  <1>4. CASE ~cb.drained /\ cb.op = "drain"
    BY <1>1, <1>2, <1>3, <1>4, CallbackFails
  <1>5. CASE cb.drained \/ cb.op # "drain"
    <2>1. /\ cb' \in Callback /\ cb'.call = cb.call /\ cb'.slot = cb.slot /\ cb'.op = cb.op
          /\ cb'.phase \in {"pop", "own"} /\ (cb'.phase = "own" => cb.op = "setup") /\ pc' = "run"
      BY <1>1, <1>2, <1>5 DEF Callback
    <2>2. cb'.phase # "none" /\ cb'.phase # "setup" /\ (cb'.phase \in {"own", "setup"} => cb.op = "setup")
      BY <2>1
    <2> QED
      BY <1>1, <1>3, <2>1, <2>2, CallbackContinues
  <1> QED
    BY <1>4, <1>5

\* The setup finds a stream: for audio that is an error, which its own caller never gets;
\* a screen is taken down.
LEMMA OwnLiveKeeps ==
    ASSUME TransmitterInv, OwnLive
    PROVE  TransmitterInv' /\ (GuardsInv => GuardsInv')
  <1> DEFINE s == cb.slot
             new == torn_down(streams, <<s>>)
  <1>1. /\ pc = "run" /\ cb.phase = "own" /\ streams[s].state = "Stream"
        /\ \/ /\ s \in Audio /\ Fails
              /\ conflict' = (conflict \/ app[s].n = cb.call)
              /\ UNCHANGED <<streams, task>>
           \/ /\ s \notin Audio /\ streams' = new /\ task' = TasksOf(streams, new)
              /\ UNCHANGED <<pc, cb, cached, app, conflict>>
        /\ UNCHANGED <<teardown_queue, task_queue, wire, answer, car, calls>>
    BY DEF OwnLive, receiver, counters, background
  <1>2. s \in Slots /\ cb.op = "setup" /\ cb.call \in 1..calls /\ InHand = cb /\ cb \in Callback
    BY <1>1, OwnSlot
  <1>3. CASE s \in Audio
    <2> HIDE DEF s, new
    <2>1. app[s].n # cb.call
      <3> SUFFICES ASSUME app[s].n = cb.call PROVE FALSE
        OBVIOUS
      <3>1. cb.call # 0 /\ app[s].does # "idle"
        <4>1. cb.call # 0
          BY <1>2, CallbackFacts
        <4> QED
          BY <1>2, <4>1 DEF TransmitterInv, CallersInv
      <3>2. app[s].does # "holds"
        BY <1>2 DEF TransmitterInv, CallersInv
      <3>3. app[s].does = "calling"
        BY <1>2, <3>1, <3>2, StreamFacts
      <3>4. s \notin ToSet(teardown_queue)
        BY <1>1, <1>2, <3>3 DEF TransmitterInv, StreamsInv, s
      <3>5. s \in ToSet(teardown_queue)
        BY <1>1, <1>2, <3>2 DEF TransmitterInv, StreamsInv
      <3> QED
        BY <3>4, <3>5
    <2>2. ~conflict' /\ Fails /\ UNCHANGED <<streams, task>>
      BY <1>1, <1>3, <2>1 DEF TransmitterInv, StreamsInv
    <2>3. /\ streams' \in [Slots -> StreamStates] /\ RequestTypes'
          /\ \A t \in Slots : (task'[t] # NoTask) <=> (streams'[t].state = "Teardown")
          /\ \A t \in Slots : streams'[t].state = "Stream" =>
                streams[t].state = "Stream" /\ (t \in ToSet(teardown_queue) => t \in ToSet(teardown_queue'))
          /\ GuardsInv => \A t \in Slots : app[t].does = "holds" =>
                   streams'[t] = streams[t] /\ t \notin ToSet(teardown_queue')
          /\ teardown_queue' \in Seq(Slots)
      BY <1>1, <2>2, StreamsStay
    <2> QED
      BY <1>1, <2>2, <2>3, CallbackFails DEF Fails
  <1>4. CASE s \notin Audio
    <2>1. streams' = new /\ task' = TasksOf(streams, new) /\ UNCHANGED <<pc, cb, cached, app, conflict>>
      BY <1>1, <1>4
    <2>2. ToSet(<<s>>) = {s} /\ s \in Screens
      BY <1>2, <1>4, SlotFacts, StreamFacts, QueueSets
    <2>3. /\ streams \in [Slots -> StreamStates]
          /\ task \in [Slots -> {NoTask, "wait", "shutdown", "requested", "Ok", "Err"}]
          /\ \A t \in Slots : (task[t] # NoTask) <=> (streams[t].state = "Teardown")
      BY StreamFacts
    <2>4. /\ new \in [Slots -> StreamStates]
          /\ \A t \in Slots :
                 /\ new[t].state = "Stream" <=> streams[t].state = "Stream" /\ t \notin ToSet(<<s>>)
                 /\ t \notin ToSet(<<s>>) \/ streams[t].state # "Stream" => new[t] = streams[t]
                 /\ t \in ToSet(<<s>>) /\ streams[t].state = "Stream" => new[t].state = "Teardown"
      BY <2>3, TornDown
    <2> HIDE DEF new
    <2>5. /\ task' \in [Slots -> {NoTask, "wait", "shutdown", "requested", "Ok", "Err"}]
          /\ \A t \in Slots : IF new[t].state = "Teardown" /\ streams[t].state # "Teardown"
                              THEN task'[t] # NoTask ELSE task'[t] = task[t]
      BY <2>1, <2>3, <2>4, TasksStart
    <2> HIDE DEF s
    <2>6. \A t \in Slots : (task'[t] # NoTask) <=> (streams'[t].state = "Teardown")
      BY <2>1, <2>3, <2>4, <2>5
    <2>7. RequestTypes'
      BY <1>1, <2>5 DEF RequestTypes, TransmitterInv, Types, TypeOK
    <2>8. /\ streams' \in [Slots -> StreamStates] /\ teardown_queue' \in Seq(Slots)
          /\ \A t \in Slots : streams'[t].state = "Stream" =>
               streams[t].state = "Stream" /\ (t \in ToSet(teardown_queue) => t \in ToSet(teardown_queue'))
      BY <1>1, <2>1, <2>4, StreamFacts
    <2>9. /\ TransmitterInv'
          /\ (GuardsInv /\ (\A t \in Slots : app[t].does = "holds" => streams'[t] = streams[t])
              => GuardsInv')
      BY <1>1, <1>2, <2>1, <2>6, <2>7, <2>8, CallbackContinues
    <2>10. GuardsInv => app[s].does # "holds"
      BY <1>1, <1>2, <2>2 DEF GuardsInv, s
    <2>11. GuardsInv => \A t \in Slots : app[t].does = "holds" => streams'[t] = streams[t]
      BY <2>1, <2>2, <2>4, <2>10
    <2> QED
      BY <2>9, <2>11
  <1> QED
    BY <1>3, <1>4

\* The SETUP is sent.
LEMMA SendSetupKeeps ==
    ASSUME TransmitterInv, SendSetup
    PROVE  TransmitterInv' /\ (GuardsInv => GuardsInv')
  <1> DEFINE s == cb.slot
  <1>1. /\ pc = "run" /\ pc' = "run" /\ cb.phase = "own" /\ streams[s].state = "Unconnected"
        /\ Request("SETUP", s, cb.call) /\ cb' = [cb EXCEPT !.phase = "setup"]
        /\ UNCHANGED <<streams, task, teardown_queue, task_queue, cached, app, calls, conflict>>
    BY DEF SendSetup, counters, history
  <1>2. s \in Slots /\ cb.op = "setup" /\ cb.call \in 0..MaxCalls /\ cb \in Callback
    BY <1>1, OwnSlot DEF Callback
  <1>3. /\ cb' \in Callback /\ cb'.call = cb.call /\ cb'.slot = cb.slot /\ cb'.op = cb.op
        /\ cb'.phase = "setup"
    BY <1>1, <1>2 DEF Callback
  <1>4. RequestTypes'
    <2>1. /\ answer' \in [Slots -> {"none", "waiting", "Ok", "Err"}]
          /\ car' \in [Slots -> 0..MaxCalls] /\ wire' \in Seq(Sent)
      BY <1>1, <1>2, RequestSent
    <2> QED
      BY <1>1, <2>1, StreamFacts DEF RequestTypes
  <1>5. /\ streams' \in [Slots -> StreamStates] /\ teardown_queue' \in Seq(Slots)
        /\ \A t \in Slots : (task'[t] # NoTask) <=> (streams'[t].state = "Teardown")
        /\ \A t \in Slots : streams'[t].state = "Stream" =>
             streams[t].state = "Stream" /\ (t \in ToSet(teardown_queue) => t \in ToSet(teardown_queue'))
    BY <1>1, StreamFacts
  <1>6. /\ cb'.phase # "none" /\ (cb'.phase \in {"own", "setup"} => cb.op = "setup")
        /\ (cb'.phase = "setup" => streams'[cb.slot].state = "Unconnected")
    BY <1>1, <1>2, <1>3
  <1> HIDE DEF s
  <1> QED
    BY <1>1, <1>3, <1>4, <1>5, <1>6, CallbackContinues

\* The slot that is being set up has no stream, so nobody holds its guard.
LEMMA SetupSlot ==
    ASSUME TransmitterInv, pc = "run", cb.phase = "setup"
    PROVE  /\ cb.slot \in Slots /\ cb.call \in 1..calls /\ InHand = cb
           /\ streams[cb.slot].state = "Unconnected"
           /\ GuardsInv => app[cb.slot].does # "holds"
  <1>1. /\ cb.slot \in Slots /\ cb.call \in 1..calls /\ InHand = cb
        /\ streams[cb.slot].state = "Unconnected"
    BY OwnSlot DEF TransmitterInv, HandInv
  <1>2. GuardsInv => app[cb.slot].does # "holds"
    <2> SUFFICES ASSUME GuardsInv, app[cb.slot].does = "holds" PROVE FALSE
      OBVIOUS
    <2>1. streams[cb.slot] = [state |-> "Stream", n |-> app[cb.slot].n]
      BY <1>1 DEF GuardsInv
    <2>2. streams[cb.slot].state = "Stream"
      BY <2>1
    <2> QED
      BY <1>1, <2>2
  <1> QED
    BY <1>1, <1>2

\* The SETUP has failed: the guard made for it is dropped.
LEMMA SetupFailsKeeps ==
    ASSUME TransmitterInv, SetupFails
    PROVE  TransmitterInv' /\ (GuardsInv => GuardsInv')
  <1> DEFINE s == cb.slot
  <1>1. /\ pc = "run" /\ cb.phase = "setup" /\ Fails
        /\ answer' = [answer EXCEPT ![s] = "none"] /\ teardown_queue' = Append(teardown_queue, s)
        /\ UNCHANGED <<streams, task, task_queue, wire, car, calls, conflict>>
    BY DEF SetupFails
  <1>2. /\ s \in Slots /\ streams[s].state = "Unconnected"
        /\ GuardsInv => app[s].does # "holds"
    BY <1>1, SetupSlot
  <1> HIDE DEF s
  <1>3. teardown_queue' \in Seq(Slots) /\ ToSet(teardown_queue') = ToSet(teardown_queue) \cup {s}
    BY <1>1, <1>2, StreamFacts, QueueSets
  <1>4. RequestTypes'
    BY <1>1 DEF RequestTypes, TransmitterInv, Types, TypeOK
  <1>5. /\ streams' \in [Slots -> StreamStates] /\ ~conflict'
        /\ \A t \in Slots : (task'[t] # NoTask) <=> (streams'[t].state = "Teardown")
        /\ \A t \in Slots : streams'[t].state = "Stream" =>
             streams[t].state = "Stream" /\ (t \in ToSet(teardown_queue) => t \in ToSet(teardown_queue'))
    BY <1>1, <1>3, StreamFacts DEF TransmitterInv, StreamsInv
  <1>6. GuardsInv => \A t \in Slots : app[t].does = "holds" =>
                   streams'[t] = streams[t] /\ t \notin ToSet(teardown_queue')
    BY <1>1, <1>2, <1>3 DEF GuardsInv
  <1> QED
    BY <1>1, <1>3, <1>4, <1>5, <1>6, CallbackFails DEF Fails

\* The stream is connected: its caller gets the guard, and no entry of the queue and no
\* later callback is there that would take it down.
LEMMA SetupDoneKeeps ==
    ASSUME TransmitterInv, SetupDone
    PROVE  TransmitterInv' /\ (GuardsInv => GuardsInv')
  <1> DEFINE s == cb.slot
             waiting == app[s] = [does |-> "calling", n |-> cb.call]
  <1>1. /\ pc = "run" /\ cb.phase = "setup"
        /\ answer' = [answer EXCEPT ![s] = "none"]
        /\ streams' = [streams EXCEPT ![s] = [state |-> "Stream", n |-> cb.call]]
        /\ app' = IF waiting THEN [app EXCEPT ![s].does = "holds"] ELSE app
        /\ teardown_queue' = IF waiting THEN teardown_queue ELSE Append(teardown_queue, s)
        /\ pc' = "sleep" /\ cb' = NoCallback
        /\ UNCHANGED <<task, task_queue, cached, wire, car, calls, conflict>>
    BY DEF SetupDone, counters, history
  <1>2. /\ s \in Slots /\ streams[s].state = "Unconnected" /\ cb.call \in 1..calls /\ InHand = cb
        /\ GuardsInv => app[s].does # "holds"
    BY <1>1, SetupSlot
  <1> HIDE DEF s
  <1>3. /\ teardown_queue' \in Seq(Slots)
        /\ ToSet(teardown_queue') = IF waiting THEN ToSet(teardown_queue) ELSE ToSet(teardown_queue) \cup {s}
    BY <1>1, <1>2, StreamFacts, QueueSets
  <1>4. RequestTypes'
    BY <1>1 DEF RequestTypes, TransmitterInv, Types, TypeOK
  <1>5. [state |-> "Stream", n |-> cb.call] \in StreamStates
    BY <1>2, CallbackFacts, SlotFacts DEF StreamStates, TransmitterInv, Types
  <1>6. /\ streams' \in [Slots -> StreamStates] /\ streams'[s] = [state |-> "Stream", n |-> cb.call]
        /\ \A t \in Slots : t # s => streams'[t] = streams[t]
        /\ \A t \in Slots : (task'[t] # NoTask) <=> (streams'[t].state = "Teardown")
    BY <1>1, <1>2, <1>5, StreamFacts
  <1>7. /\ \A t \in Slots : t # s => app'[t] = app[t]
        /\ waiting => app'[s] = [does |-> "holds", n |-> cb.call]
        /\ ~waiting => app' = app
        /\ app' \in [Slots -> [does : {"idle", "calling", "holds"}, n : 0..MaxCalls]]
    <2>1. app \in [Slots -> [does : {"idle", "calling", "holds"}, n : 0..MaxCalls]]
      BY StreamFacts
    <2>2. CASE waiting
      <3>1. [app[s] EXCEPT !.does = "holds"] = [does |-> "holds", n |-> cb.call]
        BY <2>2
      <3>2. app' = [app EXCEPT ![s] = [does |-> "holds", n |-> cb.call]]
        BY <1>1, <2>2, <3>1
      <3>3. cb.call \in 0..MaxCalls
        BY <1>2, <2>1, <2>2
      <3> QED
        <4> HIDE DEF waiting
        <4> QED
          BY <1>2, <2>1, <2>2, <3>2, <3>3
    <2>3. CASE ~waiting
      <3> HIDE DEF waiting
      <3> QED
        BY <1>1, <2>1, <2>3
    <2> QED
      BY <2>2, <2>3
  <1>8. \A t \in Slots : \/ app'[t] = app[t]
                         \/ app[t].does # "holds" /\ app'[t] = Idle
                         \/ app[t].does = "calling" /\ app'[t] = [does |-> "holds", n |-> cb.call]
    <2>1. waiting => app[s].does = "calling"
      OBVIOUS
    <2> HIDE DEF waiting
    <2> QED
      BY <1>7, <2>1
  <1>9. \A t \in Slots : streams'[t].state = "Stream" =>
          app'[t].does = "holds" \/ t \in ToSet(teardown_queue')
    <2>1. waiting => app'[s].does = "holds"
      BY <1>7
    <2> HIDE DEF waiting
    <2> QED
      BY <1>3, <1>6, <1>7, <2>1 DEF TransmitterInv, StreamsInv
  <1>10. TransmitterInv' /\ InHand' = NoCallback
    <2> HIDE DEF waiting
    <2>1. ~conflict'
      BY <1>1 DEF TransmitterInv, StreamsInv
    <2> QED
      BY <1>1, <1>3, <1>4, <1>6, <1>7, <1>8, <1>9, <2>1, CallbackEnds
  <1>11. ASSUME GuardsInv
         PROVE  GuardsInv'
    <2>1. ASSUME NEW t \in Slots, app'[t].does = "holds"
          PROVE  /\ streams'[t] = [state |-> "Stream", n |-> app'[t].n]
                 /\ t \notin ToSet(teardown_queue')
                 /\ t \in Screens =>
                      /\ InHand'.slot # t
                      /\ \A i \in 1..Len(task_queue) : task_queue[i].slot # t
      <3>1. InHand'.slot # t
        BY <1>10, SlotFacts DEF NoCallback
      <3>2. CASE t # s
        <4>1. app'[t] = app[t] /\ streams'[t] = streams[t]
          BY <1>6, <1>7, <3>2
        <4>2. t \notin ToSet(teardown_queue) => t \notin ToSet(teardown_queue')
          BY <1>3, <3>2
        <4> QED
          BY <1>1, <1>11, <2>1, <3>1, <4>1, <4>2 DEF GuardsInv
      <3>3. CASE t = s
        <4>1. waiting
          BY <1>2, <1>7, <1>11, <2>1, <3>3
        <4>2. app[s].does = "calling" /\ app[s].n = cb.call
          BY <4>1
        <4>3. s \notin ToSet(teardown_queue)
          BY <1>1, <1>2, <4>2 DEF TransmitterInv, StreamsInv, s
        <4>4. \A i \in 1..Len(task_queue) : cb.call < task_queue[i].call /\ task_queue[i].call \in 1..calls
          BY <1>2, CallbackFacts DEF TransmitterInv, QueueInv
        <4>5. \A i \in 1..Len(task_queue) : task_queue[i].slot = s => task_queue[i].call <= cb.call
          BY <1>2, <4>2 DEF TransmitterInv, CallersInv
        <4>6. \A i \in 1..Len(task_queue) : task_queue[i].slot # s
          BY <1>2, <4>4, <4>5, CallbackFacts
        <4> QED
          BY <1>3, <1>6, <1>7, <3>1, <3>3, <4>1, <4>3, <4>6
      <3> QED
        BY <3>2, <3>3
    <2> QED
      BY <1>1, <2>1 DEF GuardsInv
  <1> QED
    BY <1>10, <1>11
-----------------------------------------------------------------------------
(* The theorems. *)

\* The invariants hold at first.
LEMMA TransmitterInit == Init => TransmitterInv /\ GuardsInv
  <1> SUFFICES ASSUME Init
               PROVE  TransmitterInv /\ GuardsInv
    OBVIOUS
  <1>1. NoCallback \in Callback /\ NoCallback.call = 0 /\ NoCallback.slot \notin Slots
    BY SlotFacts DEF NoCallback, Callback
  <1>2. /\ <<>> \in Seq(Callback) /\ <<>> \in Seq(Sent) /\ <<>> \in Seq(Slots) /\ Len(<<>>) = 0
        /\ ToSet(<<>>) = {}
    BY EmptySeq DEF ToSet
  <1>3. /\ task_queue = <<>> /\ cached = NoCallback /\ cb = NoCallback /\ wire = <<>> /\ calls = 0
        /\ teardown_queue = <<>> /\ pc = "reconcile" /\ ~conflict
        /\ streams = [s \in Slots |-> Unconnected] /\ app = [s \in Slots |-> Idle]
        /\ task = [s \in Slots |-> NoTask] /\ car = [s \in Slots |-> 0]
        /\ answer = [s \in Slots |-> "none"]
    BY DEF Init
  <1>4. \A s \in Slots : streams[s].state = "Unconnected" /\ app[s].does = "idle" /\ app[s].n = 0
    BY <1>3 DEF Unconnected, Idle
  <1>5. Types
    <2>1. TypeOK
      BY <1>2, <1>3, SlotFacts DEF TypeOK, Unconnected, Idle, NoTask
    <2> QED
      BY <1>1, <1>2, <1>3, <2>1, SlotFacts DEF Types
  <1>6. HandInv
    BY <1>3 DEF HandInv
  <1>7. QueueInv
    BY <1>2, <1>3 DEF QueueInv
  <1>8. CallersInv
    BY <1>4 DEF CallersInv
  <1>9. StreamsInv
    BY <1>3, <1>4 DEF StreamsInv
  <1>10. GuardsInv
    BY <1>4 DEF GuardsInv
  <1> QED
    BY <1>5, <1>6, <1>7, <1>8, <1>9, <1>10 DEF TransmitterInv

\* Every step keeps them; the one about guards as long as nobody asks for a screen in use.
LEMMA TransmitterNext ==
    TransmitterInv /\ [Next]_vars => TransmitterInv' /\ (Rivals \subseteq Audio /\ GuardsInv => GuardsInv')
  <1> SUFFICES ASSUME TransmitterInv, [Next]_vars
               PROVE  TransmitterInv' /\ (Rivals \subseteq Audio /\ GuardsInv => GuardsInv')
    OBVIOUS
  <1>1. CASE Loop
    BY <1>1, ReconcileKeeps, PollKeeps, TakeKeeps, WakeKeeps, DrainPopKeeps, DrainPassKeeps, DrainEndKeeps,
       AwaitOwnKeeps, OwnLiveKeeps, SendSetupKeeps, SetupFailsKeeps, SetupDoneKeeps DEF Loop
  <1>2. CASE CarHandle \/ Break \/ AppDrain
    BY <1>2, CarHandleKeeps, BreakKeeps, DrainScheduled
  <1>3. ASSUME NEW s \in Slots,
               AppSetup(s) \/ AppCancel(s) \/ AppDrop(s) \/ AppRival(s) \/ Timeout(s) \/ RunTask(s)
        PROVE  TransmitterInv' /\ (Rivals \subseteq Audio /\ GuardsInv => GuardsInv')
    BY <1>3, SetupScheduled, CallerGone, TimeoutKeeps, RunTaskKeeps
  <1>4. CASE UNCHANGED vars
    <2>1. UNCHANGED <<streams, task, teardown_queue, task_queue, pc, cb, cached, app, calls, conflict,
                      answer, car, wire>>
      BY <1>4 DEF vars, background, receiver, counters, history
    <2>2. RequestTypes'
      BY <2>1 DEF RequestTypes, TransmitterInv, Types, TypeOK
    <2> QED
      BY <2>1, <2>2, RequestsMove
  <1> QED
    BY <1>1, <1>2, <1>3, <1>4 DEF Next

\* Types of the transmitter, for every set of slots and every bound; and a slot has a
\* TeardownTask exactly while it is in teardown, so no finished task is left behind and no
\* teardown is without one.
THEOREM StreamsTypeCorrect == Spec => []TypeOK
  <1>1. TransmitterInv => TypeOK
    BY DEF TransmitterInv, Types
  <1> QED
    BY <1>1, TransmitterInit, TransmitterNext, PTL DEF Spec

\* An application that has dropped its guard, or never got one, is not told StreamConflict,
\* whatever other calls, drains, time-outs and failed setups went before.
THEOREM NeverSpuriousConflict == Spec => []NoSpuriousConflict
  <1>1. TransmitterInv => NoSpuriousConflict
    BY DEF TransmitterInv, StreamsInv, NoSpuriousConflict
  <1> QED
    BY <1>1, TransmitterInit, TransmitterNext, PTL DEF Spec

\* A stream lives as long as its guard, as long as no second component asks for a screen
\* that is in use (setup_screen replaces it).
THEOREM GuardsKeepStreams ==
    ASSUME Rivals \subseteq Audio
    PROVE  Spec => []GuardKeepsStream
  <1>1. TransmitterInv /\ GuardsInv => GuardKeepsStream
    BY DEF GuardsInv, GuardKeepsStream
  <1>2. TransmitterInv /\ GuardsInv /\ [Next]_vars => TransmitterInv' /\ GuardsInv'
    BY TransmitterNext
  <1> QED
    BY <1>1, <1>2, TransmitterInit, PTL DEF Spec

\* No stream is left without an owner: each has a guard that is held or that was dropped
\* and waits to be seen.
THEOREM NoStreamLeaks ==
    Spec => [](\A s \in Slots : streams[s].state = "Stream" =>
                 app[s].does = "holds" \/ s \in ToSet(teardown_queue))
  <1>1. TransmitterInv => \A s \in Slots : streams[s].state = "Stream" =>
                 app[s].does = "holds" \/ s \in ToSet(teardown_queue)
    BY DEF TransmitterInv, StreamsInv
  <1> QED
    BY <1>1, TransmitterInit, TransmitterNext, PTL DEF Spec
=============================================================================
