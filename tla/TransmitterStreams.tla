------------------------- MODULE TransmitterStreams -------------------------
(***************************************************************************)
(* The media streams of the AirPlay transmitter (catplay_carplay,          *)
(* carplay_tx): AirPlayTransmitterProxy's background task, the             *)
(* AirPlayTransmitterImpl it drives, StreamState and TeardownTask, the     *)
(* guards that tear a stream down when the application drops them, and the *)
(* receiver's answers to SETUP and TEARDOWN.                               *)
(*                                                                         *)
(* The background task is one loop: reconcile, run one scheduled callback  *)
(* to its end, sleep.  The callback it runs was taken out of the queue     *)
(* while it slept, before that reconcile.  Guards are dropped and calls    *)
(* are scheduled by other threads at any time.  Requests of the RTSP       *)
(* client are answered in order or time out (EventChannel shows what the   *)
(* queue under them promises).                                             *)
(***************************************************************************)
EXTENDS Integers, Sequences, SequencesExt

CONSTANTS
    Audio, Screens,     \* slots of audio and of screen streams, as sets
    Rivals,             \* slots that a second component asks for while they are in use
    Order,              \* the slots in the order drain_teardown_queue visits them
    MaxCalls,           \* bound: setup and drain calls
    MaxTimeouts,        \* bound: requests that time out
    MaxFailures         \* bound: SETUPs that fail at the receiver or after its answer

ASSUME StreamsAssumption ==
    /\ Audio \cap Screens = {} /\ Rivals \subseteq Audio \cup Screens
    /\ "none" \notin Audio \cup Screens
    /\ Order \in Seq(Audio \cup Screens) /\ ToSet(Order) = Audio \cup Screens
    /\ {MaxCalls, MaxTimeouts, MaxFailures} \subseteq Nat

VARIABLES
    streams,         \* StreamState per slot: its state and the number of the stream
    task,            \* TeardownTask per slot: how far it is, and its result
    teardown_queue,  \* slots whose guard was dropped
    task_queue,      \* callbacks scheduled
    cached,          \* the callback taken while sleeping (PeekReceiver)
    pc,              \* where the background task is
    cb,              \* the callback it runs
    wire,            \* requests the receiver has not answered
    answer,          \* per slot: the answer its request waits for
    car,             \* receiver: the stream open in each slot, or 0
    app,             \* per slot: what the application does, and the stream it holds
    broken,          \* the connection is lost
    calls, timeouts, failures,   \* counters
    conflict,        \* history: a caller without a guard got StreamConflict
    orphans          \* history: slots with a SETUP given up while the receiver may accept it

background == <<pc, cb, cached>>
receiver == <<wire, answer, car>>
counters == <<calls, timeouts, failures>>
history == <<conflict, orphans>>
vars == <<streams, task, teardown_queue, task_queue, background, receiver, app, broken,
          counters, history>>

Slots == Audio \cup Screens
Unconnected == [state |-> "Unconnected", n |-> 0]
NoTask == "none"
Idle == [does |-> "idle", n |-> 0]
NoCallback == [op |-> "none", slot |-> "none", call |-> 0, phase |-> "none", at |-> 1,
               drained |-> FALSE]

Init ==
    /\ streams = [s \in Slots |-> Unconnected]
    /\ task = [s \in Slots |-> NoTask]
    /\ teardown_queue = <<>>
    /\ task_queue = <<>>
    /\ cached = NoCallback
    /\ pc = "reconcile"
    /\ cb = NoCallback
    /\ wire = <<>>
    /\ answer = [s \in Slots |-> "none"]
    /\ car = [s \in Slots |-> 0]
    /\ app = [s \in Slots |-> Idle]
    /\ broken = FALSE
    /\ calls = 0 /\ timeouts = 0 /\ failures = 0
    /\ conflict = FALSE
    /\ orphans = {}
-----------------------------------------------------------------------------
(* The application. *)

\* schedule: a setup for a slot it holds no guard of.  The number of the call is also
\* the number of the stream.
AppSetup(s) ==
    /\ calls < MaxCalls /\ app[s].does = "idle" /\ pc # "closed"
    /\ calls' = calls + 1
    /\ task_queue' = Append(task_queue, [NoCallback EXCEPT !.op = "setup", !.slot = s,
                                                           !.call = calls + 1])
    /\ app' = [app EXCEPT ![s] = [does |-> "calling", n |-> calls + 1]]
    /\ UNCHANGED <<streams, task, teardown_queue, background, receiver, broken, timeouts,
                   failures, history>>

\* The caller's future is dropped; the callback stays.
AppCancel(s) ==
    /\ app[s].does = "calling"
    /\ app' = [app EXCEPT ![s] = Idle]
    /\ UNCHANGED <<streams, task, teardown_queue, task_queue, background, receiver, broken,
                   counters, history>>

\* TeardownGuard::drop; once the session has ended nobody takes its entry.
AppDrop(s) ==
    /\ app[s].does = "holds"
    /\ app' = [app EXCEPT ![s] = Idle]
    /\ teardown_queue' = IF pc = "closed" THEN teardown_queue ELSE Append(teardown_queue, s)
    /\ UNCHANGED <<streams, task, task_queue, background, receiver, broken, counters, history>>

\* Another holder of the proxy asks for a slot that is in use, and gives up at once what
\* it gets.
AppRival(s) ==
    /\ calls < MaxCalls /\ app[s].does = "holds" /\ s \in Rivals /\ pc # "closed"
    /\ calls' = calls + 1
    /\ task_queue' = Append(task_queue, [NoCallback EXCEPT !.op = "setup", !.slot = s,
                                                           !.call = calls + 1])
    /\ UNCHANGED <<streams, task, teardown_queue, background, receiver, app, broken, timeouts,
                   failures, history>>

AppDrain ==
    /\ calls < MaxCalls /\ pc # "closed"
    /\ calls' = calls + 1
    /\ task_queue' = Append(task_queue, [NoCallback EXCEPT !.op = "drain", !.call = calls + 1])
    /\ UNCHANGED <<streams, task, teardown_queue, background, receiver, app, broken, timeouts,
                   failures, history>>
-----------------------------------------------------------------------------
(* Requests.  The receiver takes them in order; an answer nobody waits for is lost. *)

Request(op, s, n) ==
    /\ wire' = Append(wire, [op |-> op, slot |-> s, n |-> n, live |-> TRUE])
    /\ answer' = [answer EXCEPT ![s] = IF broken THEN "Err" ELSE "waiting"]
    /\ UNCHANGED car

\* respond_teardown, setup_audio, setup_screen of the receiver: it refuses a slot that is
\* open, and one whose codec or sink cannot be opened.
CarHandle ==
    LET r == Head(wire)
        free == r.op = "TEARDOWN" \/ car[r.slot] = 0
    IN  /\ wire # <<>> /\ ~broken
        /\ \E ok \in BOOLEAN :
             /\ ok => free
             /\ ~ok /\ free => r.op = "SETUP" /\ failures < MaxFailures
             /\ failures' = IF ~ok /\ free THEN failures + 1 ELSE failures
             /\ car' = [car EXCEPT ![r.slot] = IF r.op = "TEARDOWN" THEN 0
                                               ELSE IF ok THEN r.n ELSE @]
             /\ answer' = [answer EXCEPT ![r.slot] = IF ~r.live THEN @
                                                     ELSE IF ok THEN "Ok" ELSE "Err"]
        /\ wire' = Tail(wire)
        /\ UNCHANGED <<streams, task, teardown_queue, task_queue, background, app, broken,
                       calls, timeouts, history>>

\* request_timeout: the call ends, the request stays on its way.
Timeout(s) ==
    /\ answer[s] = "waiting" /\ timeouts < MaxTimeouts
    /\ timeouts' = timeouts + 1
    /\ answer' = [answer EXCEPT ![s] = "Err"]
    /\ wire' = [i \in 1..Len(wire) |-> IF wire[i].slot = s THEN [wire[i] EXCEPT !.live = FALSE]
                                       ELSE wire[i]]
    /\ orphans' = IF \E i \in 1..Len(wire) : wire[i].slot = s /\ wire[i].live /\ wire[i].op = "SETUP"
                  THEN orphans \cup {s} ELSE orphans
    /\ UNCHANGED <<streams, task, teardown_queue, task_queue, background, car, app, broken,
                   calls, failures, conflict>>

\* The RTSP connection ends: RtspDrain::close fails every call.
Break ==
    /\ ~broken
    /\ broken' = TRUE
    /\ answer' = [s \in Slots |-> IF answer[s] = "waiting" THEN "Err" ELSE answer[s]]
    /\ UNCHANGED <<streams, task, teardown_queue, task_queue, background, wire, car, app,
                   counters, history>>
-----------------------------------------------------------------------------
(* StreamState and TeardownTask. *)

\* teardown_audio and teardown_screen of every slot in the queue: take() leaves a slot
\* alone that has no stream.
torn_down(st, queue) ==
    [s \in Slots |-> IF s \in ToSet(queue) /\ st[s].state = "Stream"
                     THEN [state |-> "Teardown", n |-> st[s].n] ELSE st[s]]

\* Audio waits until what was sent has been played.
TasksOf(old, new) ==
    [s \in Slots |-> IF new[s].state = "Teardown" /\ old[s].state # "Teardown"
                     THEN IF s \in Audio THEN "wait" ELSE "shutdown" ELSE task[s]]

Waits(s) == streams[s].state = "Teardown" /\ task[s] \notin {"Ok", "Err"}

\* A task moves only while something polls it: the loop asleep, reconcile, which gets as
\* far as the first task that has not finished, or a callback that waits for this slot.
Polled(s) ==
    \/ pc = "sleep"
    \/ /\ pc = "poll"
       /\ \E i \in DOMAIN Order : Order[i] = s /\ \A j \in 1..(i - 1) : ~Waits(Order[j])
    \/ pc = "run" /\ cb.phase = "own" /\ cb.slot = s
    \/ pc = "run" /\ cb.phase = "pass" /\ cb.at <= Len(Order) /\ Order[cb.at] = s

RunTask(s) ==
    /\ Polled(s)
    /\ \/ /\ task[s] = "wait"
          /\ task' = [task EXCEPT ![s] = "shutdown"]
          /\ UNCHANGED receiver
       \/ /\ task[s] = "shutdown"
          /\ task' = [task EXCEPT ![s] = "requested"]
          /\ Request("TEARDOWN", s, streams[s].n)
       \/ /\ task[s] = "requested" /\ answer[s] \in {"Ok", "Err"}
          /\ task' = [task EXCEPT ![s] = answer[s]]
          /\ answer' = [answer EXCEPT ![s] = "none"]
          /\ UNCHANGED <<wire, car>>
    /\ UNCHANGED <<streams, teardown_queue, task_queue, background, app, broken, counters, history>>
-----------------------------------------------------------------------------
(* The background task. *)

Completed == {s \in Slots : task[s] \in {"Ok", "Err"}}

\* It returns.  The transmitter is dropped with its streams, tasks and requests, and the
\* callbacks with it: their callers get Closed.
Close ==
    /\ pc' = "closed"
    /\ cached' = NoCallback
    /\ task_queue' = <<>> /\ teardown_queue' = <<>>
    /\ streams' = [s \in Slots |-> Unconnected]
    /\ task' = [s \in Slots |-> NoTask]
    /\ wire' = [i \in 1..Len(wire) |-> [wire[i] EXCEPT !.live = FALSE]]
    /\ answer' = [s \in Slots |-> "none"]
    /\ app' = [s \in Slots |-> IF app[s].does = "calling" THEN Idle ELSE app[s]]
    /\ UNCHANGED <<cb, car, broken, counters, history>>

\* Mutant: the entry of a slot that has no stream is left in the queue.
collect_LeavesEntries ==
    LET st == [s \in Slots |-> IF s \in Completed THEN Unconnected ELSE streams[s]]
        new == torn_down(st, teardown_queue)
        idle(s) == st[s].state # "Stream"
    IN  /\ streams' = new
        /\ task' = [s \in Slots |-> IF s \in Completed /\ new[s] = Unconnected THEN NoTask
                                    ELSE TasksOf(st, new)[s]]
        /\ teardown_queue' = SelectSeq(teardown_queue, idle)
        /\ UNCHANGED <<task_queue, cb, cached, receiver, app, broken, counters, history>>

\* Finished slots are free again, and dropped guards start their teardown.
collect ==
    LET st == [s \in Slots |-> IF s \in Completed THEN Unconnected ELSE streams[s]]
        new == torn_down(st, teardown_queue)
    IN  /\ streams' = new
        /\ task' = [s \in Slots |-> IF s \in Completed /\ new[s] = Unconnected THEN NoTask
                                    ELSE TasksOf(st, new)[s]]
        /\ teardown_queue' = <<>>
        /\ UNCHANGED <<task_queue, cb, cached, receiver, app, broken, counters, history>>

TeardownFailed == \E s \in Slots : task[s] = "Err"

\* reconcile: a lost connection or a failed teardown ends the session; otherwise it polls
\* drain_teardown_queue once ...
reconcile ==
    /\ pc = "reconcile"
    /\ IF broken \/ TeardownFailed THEN Close ELSE collect /\ pc' = "poll"

\* ... which starts over whenever it finds a task finished, and is dropped where it waits.
Poll ==
    /\ pc = "poll"
    /\ IF TeardownFailed THEN Close
       ELSE IF Completed # {} THEN collect /\ UNCHANGED pc
       ELSE /\ pc' = "take"
            /\ UNCHANGED <<streams, task, teardown_queue, task_queue, cb, cached, receiver, app,
                           broken, counters, history>>

\* The loop runs the callback that woke it, if there was one.
Take ==
    /\ pc = "take"
    /\ pc' = IF cached = NoCallback THEN "sleep" ELSE "run"
    /\ cb' = IF cached = NoCallback THEN NoCallback
             ELSE [cached EXCEPT !.phase = IF cached.slot \in Audio THEN "own" ELSE "pop"]
    /\ cached' = NoCallback
    /\ UNCHANGED <<streams, task, teardown_queue, task_queue, receiver, app, broken, counters, history>>

\* Mutant: the loop looks into the queue only after reconcile.
Wake_Late ==
    /\ pc = "sleep" \/ (pc = "take" /\ cached = NoCallback /\ task_queue # <<>>)
    /\ pc' = IF pc = "sleep" THEN "reconcile" ELSE "take"
    /\ cached' = IF pc = "sleep" THEN NoCallback ELSE Head(task_queue)
    /\ task_queue' = IF pc = "sleep" THEN task_queue ELSE Tail(task_queue)
    /\ UNCHANGED <<streams, task, teardown_queue, cb, receiver, app, broken, counters, history>>

\* event_select: a callback, a dropped guard, a task, or the next /feedback (at least
\* once a second) wakes the loop; the queue of callbacks is asked first.
Wake ==
    /\ pc = "sleep"
    /\ pc' = "reconcile"
    /\ cached' = IF task_queue = <<>> THEN NoCallback ELSE Head(task_queue)
    /\ task_queue' = IF task_queue = <<>> THEN <<>> ELSE Tail(task_queue)
    /\ UNCHANGED <<streams, task, teardown_queue, cb, receiver, app, broken, counters, history>>

\* The callback ends with an answer to its caller.
Fails ==
    /\ pc' = "sleep"
    /\ cb' = NoCallback
    /\ app' = [s \in Slots |-> IF app[s] = [does |-> "calling", n |-> cb.call] THEN Idle ELSE app[s]]
    /\ UNCHANGED cached
-----------------------------------------------------------------------------
(* drain_teardown_queue, of a drain call or at the start of a screen setup. *)

DrainPop ==
    LET new == torn_down(streams, teardown_queue)
    IN  /\ pc = "run" /\ cb.phase = "pop"
        /\ streams' = new
        /\ task' = TasksOf(streams, new)
        /\ teardown_queue' = <<>>
        /\ cb' = [cb EXCEPT !.phase = "pass", !.at = 1, !.drained = FALSE]
        /\ UNCHANGED <<task_queue, pc, cached, receiver, app, broken, counters, history>>

\* One pass over the slots: wait for each that is in teardown.
DrainPass ==
    LET s == Order[cb.at]
    IN  /\ pc = "run" /\ cb.phase = "pass" /\ cb.at <= Len(Order)
        /\ ~Waits(s)
        /\ IF streams[s].state # "Teardown"
           THEN /\ cb' = [cb EXCEPT !.at = @ + 1]
                /\ UNCHANGED <<streams, task, pc, cached, app>>
           ELSE /\ streams' = [streams EXCEPT ![s] = Unconnected]
                /\ task' = [task EXCEPT ![s] = NoTask]
                /\ IF task[s] = "Err" THEN Fails
                   ELSE /\ cb' = [cb EXCEPT !.at = @ + 1, !.drained = TRUE]
                        /\ UNCHANGED <<pc, cached, app>>
        /\ UNCHANGED <<teardown_queue, task_queue, receiver, broken, counters, history>>

DrainEnd ==
    /\ pc = "run" /\ cb.phase = "pass" /\ cb.at > Len(Order)
    /\ pc' = IF ~cb.drained /\ cb.op = "drain" THEN "sleep" ELSE pc
    /\ cb' = IF cb.drained THEN [cb EXCEPT !.phase = "pop"]
             ELSE IF cb.op = "drain" THEN NoCallback ELSE [cb EXCEPT !.phase = "own"]
    /\ UNCHANGED <<streams, task, teardown_queue, task_queue, cached, receiver, app, broken,
                   counters, history>>
-----------------------------------------------------------------------------
(* do_setup_audio and do_setup_video. *)

\* Mutant: the finished task is kept.
AwaitOwn_KeepsTask ==
    LET s == cb.slot
    IN  /\ pc = "run" /\ cb.phase = "own" /\ streams[s].state = "Teardown" /\ ~Waits(s)
        /\ streams' = [streams EXCEPT ![s] = Unconnected]
        /\ IF task[s] = "Err" THEN Fails ELSE UNCHANGED <<pc, cb, cached, app>>
        /\ UNCHANGED <<task, teardown_queue, task_queue, receiver, broken, counters, history>>

\* A slot in teardown is waited for; an error of the teardown ends the call.
AwaitOwn ==
    LET s == cb.slot
    IN  /\ pc = "run" /\ cb.phase = "own" /\ streams[s].state = "Teardown" /\ ~Waits(s)
        /\ streams' = [streams EXCEPT ![s] = Unconnected]
        /\ task' = [task EXCEPT ![s] = NoTask]
        /\ IF task[s] = "Err" THEN Fails ELSE UNCHANGED <<pc, cb, cached, app>>
        /\ UNCHANGED <<teardown_queue, task_queue, receiver, broken, counters, history>>

\* A live stream is a StreamConflict for audio; a screen is replaced.
OwnLive ==
    LET s == cb.slot
        new == torn_down(streams, <<s>>)
    IN  /\ pc = "run" /\ cb.phase = "own" /\ streams[s].state = "Stream"
        /\ IF s \in Audio
           THEN /\ Fails
                /\ conflict' = (conflict \/ app[s].n = cb.call)
                /\ UNCHANGED <<streams, task>>
           ELSE /\ streams' = new
                /\ task' = TasksOf(streams, new)
                /\ UNCHANGED <<background, app, conflict>>
        /\ UNCHANGED <<teardown_queue, task_queue, receiver, broken, counters, orphans>>

SendSetup ==
    LET s == cb.slot
    IN  /\ pc = "run" /\ cb.phase = "own" /\ streams[s].state = "Unconnected"
        /\ Request("SETUP", s, cb.call)
        /\ cb' = [cb EXCEPT !.phase = "setup"]
        /\ UNCHANGED <<streams, task, teardown_queue, task_queue, pc, cached, app, broken,
                       counters, history>>

\* The guard exists since before the request: an error drops it.
SetupFails ==
    LET s == cb.slot
    IN  /\ pc = "run" /\ cb.phase = "setup"
        /\ \/ answer[s] = "Err" /\ UNCHANGED <<failures, orphans>>
           \/ /\ answer[s] = "Ok" /\ failures < MaxFailures
              /\ failures' = failures + 1
              /\ orphans' = orphans \cup {s}
        /\ answer' = [answer EXCEPT ![s] = "none"]
        /\ teardown_queue' = Append(teardown_queue, s)
        /\ Fails
        /\ UNCHANGED <<streams, task, task_queue, wire, car, broken, calls, timeouts, conflict>>

\* Mutant: the guard of a caller that is gone is leaked.
SetupDone_LeaksGuard ==
    LET s == cb.slot
        waiting == app[s] = [does |-> "calling", n |-> cb.call]
    IN  /\ pc = "run" /\ cb.phase = "setup" /\ answer[s] = "Ok"
        /\ answer' = [answer EXCEPT ![s] = "none"]
        /\ streams' = [streams EXCEPT ![s] = [state |-> "Stream", n |-> cb.call]]
        /\ app' = IF waiting THEN [app EXCEPT ![s].does = "holds"] ELSE app
        /\ pc' = "sleep"
        /\ cb' = NoCallback
        /\ UNCHANGED <<task, teardown_queue, task_queue, cached, wire, car, broken, counters,
                       history>>

\* connect: the caller gets the guard; if it is gone, the guard is dropped.
SetupDone ==
    LET s == cb.slot
        waiting == app[s] = [does |-> "calling", n |-> cb.call]
    IN  /\ pc = "run" /\ cb.phase = "setup" /\ answer[s] = "Ok"
        /\ answer' = [answer EXCEPT ![s] = "none"]
        /\ streams' = [streams EXCEPT ![s] = [state |-> "Stream", n |-> cb.call]]
        /\ app' = IF waiting THEN [app EXCEPT ![s].does = "holds"] ELSE app
        /\ teardown_queue' = IF waiting THEN teardown_queue ELSE Append(teardown_queue, s)
        /\ pc' = "sleep"
        /\ cb' = NoCallback
        /\ UNCHANGED <<task, task_queue, cached, wire, car, broken, counters, history>>
-----------------------------------------------------------------------------
Loop ==
    \/ reconcile \/ Poll \/ Take \/ Wake
    \/ DrainPop \/ DrainPass \/ DrainEnd
    \/ AwaitOwn \/ OwnLive \/ SendSetup \/ SetupFails \/ SetupDone

Next ==
    \/ Loop \/ CarHandle \/ Break \/ AppDrain
    \/ \E s \in Slots : \/ AppSetup(s) \/ AppCancel(s) \/ AppDrop(s) \/ AppRival(s)
                        \/ Timeout(s) \/ RunTask(s)

Spec == Init /\ [][Next]_vars

\* The runtime polls the background task and what it waits for, and the receiver answers.
\* A teardown task is polled whenever the loop sleeps, which it does for up to a second
\* between two /feedback, so it is not passed over for ever.  Nobody has to make a call.
Fairness ==
    /\ WF_vars(Loop)
    /\ WF_vars(CarHandle)
    /\ \A s \in Slots : SF_vars(RunTask(s))

FairSpec == Spec /\ Fairness
-----------------------------------------------------------------------------
(* Properties. *)

\* Types; and a slot has a TeardownTask exactly while it is in teardown.
TypeOK ==
    /\ streams \in [Slots -> [state : {"Unconnected", "Stream", "Teardown"}, n : 0..MaxCalls]]
    /\ task \in [Slots -> {NoTask, "wait", "shutdown", "requested", "Ok", "Err"}]
    /\ \A s \in Slots : (task[s] # NoTask) <=> (streams[s].state = "Teardown")
    /\ teardown_queue \in Seq(Slots)
    /\ pc \in {"reconcile", "poll", "take", "run", "sleep", "closed"}
    /\ answer \in [Slots -> {"none", "waiting", "Ok", "Err"}]
    /\ car \in [Slots -> 0..MaxCalls]
    /\ app \in [Slots -> [does : {"idle", "calling", "holds"}, n : 0..MaxCalls]]

\* A stream lives as long as its guard: no entry of the teardown queue that an earlier
\* stream, a failed setup or an abandoned caller left there takes it down.  Only the end
\* of the session drops the stream of a guard that is held.
GuardKeepsStream ==
    \A s \in Slots :
      app[s].does = "holds" /\ pc # "closed" => streams[s] = [state |-> "Stream", n |-> app[s].n]

\* An application that has dropped its guard, or never got one, is not told that the
\* stream is still there.
NoSpuriousConflict == ~conflict

\* What the application no longer holds is taken down at the receiver too, and every
\* call gets an answer; unless the session ends, or a SETUP was given up on the way.
GivenUp(s) == app[s].does = "idle"
SessionSettles ==
    \A s \in Slots :
      /\ (GivenUp(s) /\ car[s] # 0) ~> (car[s] = 0 \/ ~GivenUp(s) \/ broken \/ pc = "closed"
                                         \/ s \in orphans)
      /\ (app[s].does = "calling") ~> (app[s].does # "calling")
=============================================================================
