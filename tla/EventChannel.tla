---------------------------- MODULE EventChannel ----------------------------
(***************************************************************************)
(* The event channel of an AirPlay session: callers put commands into a    *)
(* FIFO RtspQueue, EventsClient writes them to a TCP connection,           *)
(* EventsServer runs up to max_inflight of them at once through the        *)
(* CommandQueue, whose drain is emptied by the main loop, and writes the   *)
(* responses in the order of the requests.  Responses carry no CSeq, so    *)
(* the client matches them by position only.                               *)
(*                                                                         *)
(* Either end runs in a TcpHelperTask: a loop of reconcile() and sleep(),  *)
(* where sleep() selects between cancellation, room to write, received     *)
(* frames and the session's own sleep().                                   *)
(***************************************************************************)
EXTENDS Integers, Sequences, FiniteSets, FiniteSetsExt

CONSTANTS
    MaxReq,          \* bound: commands the callers send
    Kind,            \* Kind[r]: "command", or what the server makes of it
    max_inflight,    \* EventsServer::max_inflight
    Statuses,        \* statuses the main loop answers with
    Cancellers,      \* tasks whose cancellation token may be cancelled
    MayClose,        \* may the main loop drop its CommandQueueDrain?
    MayGiveUp        \* commands whose caller may drop the future or time out

Req == 0..(MaxReq - 1)
Client == "client"
Server == "server"
Task == {Client, Server}

ASSUME EventAssumption ==
    /\ MaxReq \in Nat
    /\ Kind \in [Req -> {"command", "other", "unknown", "invalid"}]
    /\ max_inflight \in Nat \ {0}
    /\ Statuses \subseteq {"Ok", "InternalServerError"}
    /\ Cancellers \subseteq Task
    /\ MayClose \in BOOLEAN
    /\ MayGiveUp \subseteq Req

VARIABLES
    \* RtspQueue (Inner) and the futures of its callers
    next_cseq,
    pending_send,    \* requests not yet drained
    fifo,            \* pending_response_fifo: cseq and whether a sender is left
    notify,          \* notify_pending
    closed,
    oneshot,         \* oneshot[r]: what was sent to the future of request r
    call,            \* call[r]: the future as its caller sees it
    \* TcpHelperTask of either end, and the connection
    phase,           \* phase[t]: "reconcile", "sleep" or "eof"
    msgs,            \* msgs[t]: sleep_outcome, the frames received (or none)
    composites,      \* composites[t]: frames written but not yet flushed
    wire,            \* wire[t]: frames on their way to task t
    armed,           \* is the session.sleep() branch of the server still selected?
    \* EventsServer.  recvd[id + 1] is the request with that id.
    recvd,
    pending, completed, next_response, next_send,
    inflight,        \* FuturesUnordered: the ids it holds, and in `ready` those
    ready,           \* to be polled, in the order they were pushed or woken
    \* CommandQueue, and the commands the main loop holds
    started,         \* ids whose future was polled, so that run() was called
    cmd_pending, cmd_closed,
    held,            \* CommandPending popped and not yet answered
    reply,           \* reply[id]: what on_command returns, once known
    popped           \* history: ids in the order in which they were popped

queueVars == <<next_cseq, pending_send, fifo, notify, closed, oneshot, call>>
taskVars == <<phase, msgs, composites, wire, armed>>
serverVars == <<recvd, pending, inflight, ready, completed, next_response, next_send>>
commandVars == <<started, cmd_pending, cmd_closed, held, reply, popped>>
vars == <<queueVars, taskVars, serverVars, commandVars>>
-----------------------------------------------------------------------------
(* Values. *)

\* RtspResponse: the command it answers (its payload) and the status.
Status == {"Ok", "InternalServerError", "Gone", "NotFound", "NotImplemented", "BadRequest"}
Response == [req : Req, status : Status]
None == [req |-> -1, status |-> "none"]
Closed == [req |-> -1, status |-> "Closed"]   \* RtspError::Closed

CallState == {"idle", "waiting", "answered", "closed", "gaveup"}

Ids == Req                                    \* ids of the server
Drop1(s, n) == SubSeq(s, n + 1, Len(s))
Opt(x) == IF x = None THEN <<>> ELSE <<x>>

Init ==
    /\ next_cseq = 0
    /\ pending_send = <<>>
    /\ fifo = <<>>
    /\ notify = FALSE
    /\ closed = FALSE
    /\ oneshot = [r \in Req |-> None]
    /\ call = [r \in Req |-> "idle"]
    /\ phase = [t \in Task |-> "reconcile"]
    /\ msgs = [t \in Task |-> <<>>]
    /\ composites = [t \in Task |-> <<>>]
    /\ wire = [t \in Task |-> <<>>]
    /\ armed = TRUE
    /\ recvd = <<>>
    /\ pending = <<>>
    /\ inflight = {}
    /\ ready = <<>>
    /\ completed = [i \in Ids |-> None]
    /\ next_response = None
    /\ next_send = 0
    /\ started = {}
    /\ cmd_pending = <<>>
    /\ cmd_closed = FALSE
    /\ held = {}
    /\ reply = [i \in Ids |-> None]
    /\ popped = <<>>
-----------------------------------------------------------------------------
(* RtspQueue and its futures. *)

\* Mutant: a notification is sent only when no request is outstanding.
queue_NotifiesWhenIdle(r) ==
    /\ r = next_cseq
    /\ next_cseq' = next_cseq + 1
    /\ call' = [call EXCEPT ![r] = "waiting"]
    /\ IF closed
       THEN /\ oneshot' = [oneshot EXCEPT ![r] = Closed]
            /\ UNCHANGED <<pending_send, fifo, notify>>
       ELSE /\ fifo' = Append(fifo, [cseq |-> r, sender |-> TRUE])
            /\ pending_send' = Append(pending_send, r)
            /\ notify' = (notify \/ fifo = <<>>)
            /\ UNCHANGED oneshot
    /\ UNCHANGED <<closed, taskVars, serverVars, commandVars>>

\* RtspQueue::queue (request_timeout, request_until, request): holds the
\* `closed` lock all along, so it is atomic against close().
queue(r) ==
    /\ r = next_cseq
    /\ next_cseq' = next_cseq + 1
    /\ call' = [call EXCEPT ![r] = "waiting"]
    /\ IF closed
       THEN /\ oneshot' = [oneshot EXCEPT ![r] = Closed]
            /\ UNCHANGED <<pending_send, fifo, notify>>
       ELSE /\ fifo' = Append(fifo, [cseq |-> r, sender |-> TRUE])
            /\ pending_send' = Append(pending_send, r)
            /\ notify' = TRUE
            /\ UNCHANGED oneshot
    /\ UNCHANGED <<closed, taskVars, serverVars, commandVars>>

\* Mutant: the slot of a dropped future is removed, as in the mode with CSeq.
DropFuture_Removes(f, r) == SelectSeq(f, LAMBDA e : e.cseq # r)

\* Mutant: the slot of a dropped future is blanked.
DropFuture_Blanks(f, r) ==
    [i \in 1..Len(f) |-> IF f[i].cseq = r THEN [cseq |-> -1, sender |-> FALSE] ELSE f[i]]

\* Drop for RtspFuture in FIFO mode: the slot stays, without its sender.
DropFuture(f, r) ==
    [i \in 1..Len(f) |-> IF f[i].cseq = r THEN [f[i] EXCEPT !.sender = FALSE] ELSE f[i]]

\* RtspFuture::poll finds a result, and the future is dropped.
PollReady(r) ==
    /\ call[r] = "waiting"
    /\ oneshot[r] # None
    /\ call' = [call EXCEPT ![r] = IF oneshot[r] = Closed THEN "closed" ELSE "answered"]
    /\ fifo' = DropFuture(fifo, r)
    /\ UNCHANGED <<next_cseq, pending_send, notify, closed, oneshot,
                   taskVars, serverVars, commandVars>>

\* RtspFuture::poll after the deadline (looked at before the result), or a caller
\* that drops the future without waiting for it.
GiveUp(r) ==
    /\ r \in MayGiveUp
    /\ call[r] = "waiting"
    /\ call' = [call EXCEPT ![r] = "gaveup"]
    /\ fifo' = DropFuture(fifo, r)
    /\ UNCHANGED <<next_cseq, pending_send, notify, closed, oneshot,
                   taskVars, serverVars, commandVars>>

\* RtspDrain::feed of responses, in FIFO mode: each takes the first slot, and
\* fulfils its promise if there is still a sender.
FedTo(resps, r) ==
    {i \in 1..Len(resps) : i <= Len(fifo) /\ fifo[i].cseq = r /\ fifo[i].sender}

feed(resps) ==
    /\ oneshot' = [r \in Req |-> IF FedTo(resps, r) = {} THEN oneshot[r]
                                 ELSE resps[CHOOSE i \in FedTo(resps, r) : TRUE]]
    /\ fifo' = Drop1(fifo, IF Len(resps) < Len(fifo) THEN Len(resps) ELSE Len(fifo))

\* Mutant: the FIFO slots are discarded without telling their futures.
close_Silent ==
    /\ closed' = TRUE
    /\ fifo' = <<>>
    /\ notify' = TRUE
    /\ UNCHANGED oneshot

\* RtspDrain::close, also when the drain is dropped.
close ==
    /\ closed' = TRUE
    /\ IF closed
       THEN UNCHANGED <<oneshot, fifo, notify>>
       ELSE /\ oneshot' = [r \in Req |->
                             IF \E i \in 1..Len(fifo) : fifo[i].cseq = r /\ fifo[i].sender
                             THEN Closed ELSE oneshot[r]]
            /\ fifo' = <<>>
            /\ notify' = TRUE
-----------------------------------------------------------------------------
(* EventsClient in its TcpHelperTask. *)

\* on_msg of what sleep() received, then EventsClient::reconcile.
ClientReconcile ==
    /\ phase[Client] = "reconcile"
    /\ feed(msgs[Client])
    /\ composites' = [composites EXCEPT ![Client] = @ \o pending_send]
    /\ pending_send' = <<>>
    /\ msgs' = [msgs EXCEPT ![Client] = <<>>]
    /\ phase' = [phase EXCEPT ![Client] = "sleep"]
    /\ UNCHANGED <<next_cseq, notify, closed, call, wire, armed, serverVars, commandVars>>

\* session.sleep(): RtspDrain::sleep, which consumes the notification.
ClientWake ==
    /\ phase[Client] = "sleep"
    /\ notify
    /\ notify' = FALSE
    /\ phase' = [phase EXCEPT ![Client] = "reconcile"]
    /\ UNCHANGED <<next_cseq, pending_send, fifo, closed, oneshot, call,
                   msgs, composites, wire, armed, serverVars, commandVars>>

Other(t) == IF t = Client THEN Server ELSE Client

\* The other branches of TcpHelperTask::sleep, the same for either end: the socket
\* is writable (flush_queue writes what the socket takes) or frames were received.
Flush(t) ==
    /\ phase[t] = "sleep"
    /\ \E n \in 1..Len(composites[t]) :
         /\ wire' = [wire EXCEPT ![Other(t)] = @ \o SubSeq(composites[t], 1, n)]
         /\ composites' = [composites EXCEPT ![t] = Drop1(@, n)]
    /\ phase' = [phase EXCEPT ![t] = "reconcile"]
    /\ UNCHANGED <<queueVars, msgs, armed, serverVars, commandVars>>

Receive(t) ==
    /\ phase[t] = "sleep"
    /\ \E n \in 1..Len(wire[t]) :
         /\ msgs' = [msgs EXCEPT ![t] = SubSeq(wire[t], 1, n)]
         /\ wire' = [wire EXCEPT ![t] = Drop1(@, n)]
    /\ phase' = [phase EXCEPT ![t] = "reconcile"]
    /\ UNCHANGED <<queueVars, composites, armed, serverVars, commandVars>>

\* The token was cancelled, or sleep() saw the end of the connection (which may
\* overtake frames on their way: a reset discards them).
Ends(t) == \/ phase[t] # "eof" /\ t \in Cancellers
           \/ phase[t] = "sleep" /\ phase[Other(t)] = "eof"

\* The tail of TcpHelperTask::run: flush once more, shut the socket down, on_eof.
Finish(t) ==
    /\ Ends(t)
    /\ \E n \in 0..Len(composites[t]) :
         wire' = [wire EXCEPT ![Other(t)] = @ \o SubSeq(composites[t], 1, n)]
    /\ composites' = [composites EXCEPT ![t] = <<>>]
    /\ msgs' = [msgs EXCEPT ![t] = <<>>]
    /\ phase' = [phase EXCEPT ![t] = "eof"]
    /\ UNCHANGED armed

\* Mutant: on_eof leaves the queue open.
ClientEnd_LeavesOpen ==
    /\ Finish(Client)
    /\ UNCHANGED <<queueVars, serverVars, commandVars>>

ClientEnd ==
    /\ Finish(Client)
    /\ close
    /\ UNCHANGED <<next_cseq, pending_send, call, serverVars, commandVars>>

ServerEnd ==
    /\ Finish(Server)
    /\ UNCHANGED <<queueVars, serverVars, commandVars>>
-----------------------------------------------------------------------------
(* EventsServer in its TcpHelperTask. *)

ReqOf(id) == recvd[id + 1]

\* pump_inflight: start pending commands in order while fewer than max_inflight run.
Room(p, f) == IF Cardinality(f) >= max_inflight THEN 0
              ELSE Min({max_inflight - Cardinality(f), Len(p)})

pump_inflight(p, f, q) ==
    /\ pending' = Drop1(p, Room(p, f))
    /\ inflight' = f \cup {p[i] : i \in 1..Room(p, f)}
    /\ ready' = q \o SubSeq(p, 1, Room(p, f))

\* Mutant: the first response that is complete goes out.
try_prepare_next_response_AnyTurn(c) ==
    LET done == {i \in Ids : c[i] # None}
    IN  IF next_response = None /\ done # {}
        THEN /\ next_response' = c[Min(done)]
             /\ completed' = [c EXCEPT ![Min(done)] = None]
             /\ next_send' = next_send + 1
        ELSE /\ completed' = c
             /\ UNCHANGED <<next_response, next_send>>

\* try_prepare_next_response: only the response whose turn it is.
try_prepare_next_response(c) ==
    IF next_response = None /\ next_send \in Ids /\ c[next_send] # None
    THEN /\ next_response' = c[next_send]
         /\ completed' = [c EXCEPT ![next_send] = None]
         /\ next_send' = next_send + 1
    ELSE /\ completed' = c
         /\ UNCHANGED <<next_response, next_send>>

\* command_error_status and the answer to an unknown url; the handler never sees
\* these requests.
Refusal(r) ==
    [req |-> r, status |-> CASE Kind[r] = "other" -> "NotFound"
                             [] Kind[r] = "unknown" -> "NotImplemented"
                             [] OTHER -> "BadRequest"]

\* The ids of the commands among requests m, the first of which gets id `first`.
Commands(m, first) ==
    LET ids[j \in 0..Len(m)] ==
          IF j = 0 THEN <<>>
          ELSE IF Kind[m[j]] = "command" THEN Append(ids[j - 1], first + j - 1)
          ELSE ids[j - 1]
    IN  ids[Len(m)]

\* EventsServer::on_msg: number the requests, answer or start each one, and write
\* the response whose turn it is (one at most).
on_msg(m) ==
    LET first == Len(recvd)
        c == [i \in Ids |-> IF i >= first /\ i < first + Len(m) /\ Kind[m[i - first + 1]] # "command"
                            THEN Refusal(m[i - first + 1]) ELSE completed[i]]
        turn == next_send \in Ids /\ c[next_send] # None
    IN  /\ recvd' = recvd \o m
        /\ pump_inflight(pending \o Commands(m, first), inflight, ready)
        /\ next_response' = None
        /\ next_send' = IF turn THEN next_send + 1 ELSE next_send
        /\ completed' = IF turn THEN [c EXCEPT ![next_send] = None] ELSE c
        /\ composites' = [composites EXCEPT ![Server] =
                            @ \o Opt(next_response) \o (IF turn THEN <<c[next_send]>> ELSE <<>>)]

\* EventsServer::reconcile alone: drain_next_response.
drain_next_response ==
    /\ composites' = [composites EXCEPT ![Server] = @ \o Opt(next_response)]
    /\ next_response' = None
    /\ UNCHANGED <<recvd, pending, inflight, ready, completed, next_send>>

ServerReconcile ==
    /\ phase[Server] = "reconcile"
    /\ IF msgs[Server] = <<>> THEN drain_next_response ELSE on_msg(msgs[Server])
    /\ msgs' = [msgs EXCEPT ![Server] = <<>>]
    /\ phase' = [phase EXCEPT ![Server] = "sleep"]
    /\ armed' = TRUE
    /\ UNCHANGED <<queueVars, wire, commandVars>>

\* EventsServer::sleep is polled by select! until it yields.  None disables its
\* branch until another branch ends this sleep().
ServerSleeping == phase[Server] = "sleep" /\ armed

\* Nothing to wait for.
SleepIdle ==
    /\ ServerSleeping
    /\ inflight = {} /\ pending = <<>>
    /\ armed' = FALSE
    /\ UNCHANGED <<queueVars, phase, msgs, composites, wire, serverVars, commandVars>>

\* The first poll of a future calls CommandQueue::run, which leaves it waiting.
SleepStart ==
    /\ ServerSleeping
    /\ ready # <<>> /\ Head(ready) \notin started /\ ~cmd_closed
    /\ pump_inflight(pending, inflight, Tail(ready))
    /\ started' = started \cup {Head(ready)}
    /\ cmd_pending' = Append(cmd_pending, Head(ready))
    /\ UNCHANGED <<queueVars, taskVars, recvd, completed, next_response, next_send,
                   cmd_closed, held, reply, popped>>

\* on_command when the sender of the answer is gone.
Gone(id) == [req |-> ReqOf(id), status |-> "Gone"]

\* inflight.next() yields a finished command (at once when the drain is closed).
\* The sleep returns None, without waking the task up, when it is not the turn of
\* that command.
SleepYield ==
    LET id == Head(ready)
        resp == IF id \in started THEN reply[id] ELSE Gone(id)
    IN  /\ ServerSleeping
        /\ ready # <<>> /\ (id \in started \/ cmd_closed)
        /\ pump_inflight(pending, inflight \ {id}, Tail(ready))
        /\ started' = started \cup {id}
        /\ reply' = [reply EXCEPT ![id] = resp]
        /\ try_prepare_next_response([completed EXCEPT ![id] = resp])
        /\ IF next_response' # None
           THEN phase' = [phase EXCEPT ![Server] = "reconcile"] /\ UNCHANGED armed
           ELSE armed' = FALSE /\ UNCHANGED phase
        /\ UNCHANGED <<queueVars, msgs, composites, wire, recvd,
                       cmd_pending, cmd_closed, held, popped>>
-----------------------------------------------------------------------------
(* CommandQueueDrain and CommandPending, in the main loop. *)

pop ==
    /\ cmd_pending # <<>>
    /\ cmd_pending' = Tail(cmd_pending)
    /\ held' = held \cup {Head(cmd_pending)}
    /\ popped' = Append(popped, Head(cmd_pending))
    /\ UNCHANGED <<queueVars, taskVars, serverVars, started, cmd_closed, reply>>

\* respond() with a status, or a CommandPending dropped unanswered: its sender goes
\* with it.  Either wakes the future.
respond(id) ==
    /\ id \in held
    /\ held' = held \ {id}
    /\ \E s \in Statuses \cup {"Gone"} :
         reply' = [reply EXCEPT ![id] = [req |-> ReqOf(id), status |-> s]]
    /\ ready' = Append(ready, id)
    /\ UNCHANGED <<queueVars, taskVars, recvd, pending, inflight, completed,
                   next_response, next_send, started, cmd_pending, cmd_closed, popped>>

\* CommandQueueDrain::close, when the drain is dropped.
closeDrain ==
    /\ MayClose
    /\ ~cmd_closed
    /\ cmd_closed' = TRUE
    /\ cmd_pending' = <<>>
    /\ reply' = [i \in Ids |-> IF \E j \in 1..Len(cmd_pending) : cmd_pending[j] = i
                               THEN Gone(i) ELSE reply[i]]
    /\ ready' = ready \o cmd_pending
    /\ UNCHANGED <<queueVars, taskVars, recvd, pending, inflight, completed,
                   next_response, next_send, started, held, popped>>
-----------------------------------------------------------------------------
Next ==
    \/ \E r \in Req : queue(r) \/ PollReady(r) \/ GiveUp(r)
    \/ ClientReconcile \/ ClientWake \/ ClientEnd
    \/ \E t \in Task : Flush(t) \/ Receive(t)
    \/ ServerReconcile \/ ServerEnd \/ SleepIdle \/ SleepStart \/ SleepYield
    \/ pop \/ closeDrain
    \/ \E id \in Ids : respond(id)

Spec == Init /\ [][Next]_vars

\* What a task does by itself: reconcile(), or a ready branch of its sleep().
ClientStep ==
    \/ ClientReconcile \/ ClientWake \/ Flush(Client) \/ Receive(Client)
    \/ phase[Server] = "eof" /\ ClientEnd
ServerStep ==
    \/ ServerReconcile \/ SleepIdle \/ SleepStart \/ SleepYield
    \/ Flush(Server) \/ Receive(Server)
    \/ phase[Client] = "eof" /\ ServerEnd

\* Both tasks are spawned on the runtime, which polls what is ready; the callers poll
\* their futures and the main loop pops commands.  Nothing makes a caller give up,
\* the main loop answer or an owner cancel.
Fairness ==
    /\ WF_vars(ClientStep)
    /\ WF_vars(ServerStep)
    /\ WF_vars(\E r \in Req : PollReady(r))
    /\ WF_vars(pop)

FairSpec == Spec /\ Fairness
-----------------------------------------------------------------------------
(* Properties. *)

Frames(t) == IF t = Client THEN Response ELSE Req

\* Types of the queue, of both helper tasks and of the events server.
TypeOK ==
    /\ next_cseq \in 0..MaxReq
    /\ pending_send \in Seq(Req)
    /\ fifo \in Seq([cseq : Req, sender : BOOLEAN])
    /\ notify \in BOOLEAN /\ closed \in BOOLEAN
    /\ oneshot \in [Req -> Response \cup {None, Closed}]
    /\ call \in [Req -> CallState]
    /\ phase \in [Task -> {"reconcile", "sleep", "eof"}]
    /\ \A t \in Task : /\ msgs[t] \in Seq(Frames(t))
                       /\ wire[t] \in Seq(Frames(t))
                       /\ composites[t] \in Seq(Frames(Other(t)))
    /\ armed \in BOOLEAN
    /\ recvd \in Seq(Req)
    /\ pending \in Seq(Ids)
    /\ inflight \subseteq Ids
    /\ ready \in Seq(Ids)
    /\ completed \in [Ids -> Response \cup {None}]
    /\ next_response \in Response \cup {None}
    /\ next_send \in 0..MaxReq
    /\ started \subseteq Ids /\ held \subseteq Ids
    /\ cmd_pending \in Seq(Ids) /\ popped \in Seq(Ids)
    /\ cmd_closed \in BOOLEAN
    /\ reply \in [Ids -> Response \cup {None}]

Reqs(resps) == [i \in 1..Len(resps) |-> resps[i].req]
Slots == [i \in 1..Len(fifo) |-> fifo[i].cseq]

\* Responses on their way to the client, and the requests that still wait for
\* theirs, in the order in which the client will get the answers.
Returning == Reqs(msgs[Client] \o wire[Client])
Outstanding ==
    Reqs(composites[Server] \o Opt(next_response)) \o Drop1(recvd, next_send)
      \o msgs[Server] \o wire[Server] \o composites[Client] \o pending_send

\* Positions are all the client has: the slots of pending_response_fifo must line up
\* with the answers to come, whatever order the commands finish in, whichever
\* futures were dropped or timed out, and however frames were batched.
SlotsAligned ==
    ~closed =>
      /\ Len(Returning) <= Len(Slots) /\ SubSeq(Slots, 1, Len(Returning)) = Returning
      /\ phase[Server] # "eof" => Slots = Returning \o Outstanding

\* A caller that waits has either its result or a live slot in an open queue: a
\* request that races close() is never left behind.
NobodyForgotten ==
    \A r \in Req : call[r] = "waiting" /\ oneshot[r] = None =>
      ~closed /\ \E i \in 1..Len(fifo) : fifo[i] = [cseq |-> r, sender |-> TRUE]

\* No lost wake-up: a sleeping client with something to send has been notified.
SendNotified == pending_send # <<>> /\ phase[Client] = "sleep" => notify

\* What the callers and the handler are promised.
GivenTo(r) ==
    {reply[i] : i \in {j \in Ids : reply[j].req = r}}
      \cup (IF Kind[r] # "command" /\ \E i \in 1..Len(recvd) : recvd[i] = r
            THEN {Refusal(r)} ELSE {})

Service == INSTANCE CommandService WITH
    Answer <- Response,
    Refusals <- [req : Req, status : {"Gone", "NotFound", "NotImplemented", "BadRequest"}],
    GaveUp <- {"closed", "gaveup"},
    got <- [r \in Req |-> IF call[r] = "answered" THEN {oneshot[r]} ELSE {}],
    handed <- [i \in 1..Len(popped) |-> ReqOf(popped[i])],
    given <- [r \in Req |-> GivenTo(r)]

\* The channel implements CommandService: commands reach the main loop at most
\* once and in the order of send_command, and a caller gets the answer to its own
\* command or none.
ImplementsService == Service!Spec

\* When either end of the connection is gone every caller is answered or told so,
\* without its deadline.
EndSettlesCalls ==
    (\E t \in Task : phase[t] = "eof") ~> (\A r \in Req : call[r] # "waiting")

\* Once the main loop has answered a command its caller gets the answer, as long as
\* the connection lives and the caller waits.
AnswerDelivered ==
    \A r \in Req :
      (call[r] = "waiting" /\ GivenTo(r) # {}) ~> (call[r] # "waiting")
=============================================================================
