----------------------------- MODULE CarManager -----------------------------
(***************************************************************************)
(* The proxy between a car and an iPhone (c2a/catplay_c2a/src/proxy_rpc):  *)
(* CarManager with its ModesArbiter, the queue of RTSP tasks to the car,   *)
(* and the AirPlay connections of the phone (CarPlayRxSession over         *)
(* AirPlayReceiver, which share one session lock) that reach the manager   *)
(* through the channel of TxAdapterOps.                                    *)
(*                                                                         *)
(* Towards the car the proxy is the controller.  While a phone is          *)
(* connected the car's commands are passed on to it and its ModesChanged   *)
(* are merged into the modes; without a phone the proxy decides itself.    *)
(***************************************************************************)
EXTENDS Modes, FiniteSets

CONSTANTS
    Conn,              \* TCP connections of phones
    Overlapping,       \* may a connection open while another one is?
    Repeating,         \* may a phone repeat a SETUP that failed?
    NoConn,            \* no connection
    Info,              \* the /info modes of the car
    CarRequests,       \* ChangeModes the car may send
    PhoneStates,       \* AirPlayModeStates the phone may announce
    PhoneResponses,    \* answers the phone may give to a command
    MaxCommands,       \* bound: commands of the car
    MaxPhoneModes,     \* bound: ModesChanged of each connection
    CarMayFail         \* may the car fail to answer?

ASSUME CarAssumption ==
    /\ Overlapping \in BOOLEAN /\ Repeating \in BOOLEAN /\ CarMayFail \in BOOLEAN
    /\ NoConn \notin Conn
    /\ Info \in InfoModes
    /\ CarRequests \subseteq ChangeModes
    /\ PhoneStates \subseteq AirPlayModeState
    /\ PhoneResponses \subseteq {"Accepted", "Rejected", "Unreadable"}
    /\ MaxCommands \in Nat /\ MaxPhoneModes \in Nat

VARIABLES
    mgr,        \* CarManager
    ops,        \* proxy_rx: TxAdapterOps on their way to the manager
    conn,       \* state of each connection
    lock,       \* AirPlayServerShared::locked: the connection that holds it
    closing,    \* connections whose handle was asked to close()
    car,        \* what the car knows: the last modes, and whether a screen is set up
    sent,       \* how many ModesChanged each connection sent
    repeated    \* connections that repeated their SETUP; bound: once
vars == <<mgr, ops, conn, lock, closing, car, sent, repeated>>

\* A car command; RequestUI stands for every command that leaves the modes alone
\* while a phone is connected.
RequestUI == [ui |-> TRUE, req |-> NoChange]
CommandOf(req) == [ui |-> FALSE, req |-> req]
Command == [ui : BOOLEAN, req : ChangeModes]

\* CarToIphoneCommandTask; "NoResponse": it failed or timed out; "Unreadable": the
\* phone answered without a ChangeModesResponse.
Task == [cmd : Command, resp : {"Waiting", "Accepted", "Rejected", "Unreadable", "NoResponse"}]

\* One RTSP exchange with the car; a queued task is one or two of them, and
\* tx_current and tx_queue together are done in order.
Exchange == [kind : {"Record", "Modes", "Setup", "Teardown"}, modes : AirPlayModeState]

Op == [kind : {"IphoneConnected", "IphoneDisconnected", "Modes"}, conn : Conn,
       modes : AirPlayModeState]

Mgr ==
    [peer : Conn \cup {NoConn},              \* iphone_peer
     proxies : Seq(Task),                    \* car_to_iphone_proxy
     \* ModesArbiter
     modes : Controller, dirty : BOOLEAN,
     inflight : Seq(ChangeModes), accepted : Seq(ChangeModes),
     pending : Seq([screen : EntityEnum \X EntityEnum, main_audio : EntityEnum \X EntityEnum,
                    phone_call : EntityEnum, speech : SpeechState, turn_by_turn : EntityEnum]),
     tx : Seq(Exchange),                     \* tx_current and tx_queue
     has_car_peer : BOOLEAN,                 \* overlay.has_car_peer()
     setup : {"None", "Pending", "Ready"},   \* pending_screen_setup
     had_record : BOOLEAN,                   \* car_had_record
     steal_attempted : BOOLEAN,              \* initial_screen_steal_attempted
     error : BOOLEAN, exited : BOOLEAN,
     commands : Nat]                         \* car commands so far

State(m) == serialize_to_state(m.modes)
Exch(kind, m) == [kind |-> kind, modes |-> State(m)]
-----------------------------------------------------------------------------
(* ModesArbiter *)

\* Mutant: the constraint of a request of any type.
find_constraint_AnyType(accepted, id, type, field, default) ==
    LET found == IF accepted = << >> THEN << >> ELSE first_named(accepted[1].resources, id)
    IN  IF found # << >> THEN found[1][field] ELSE default

\* find_resource() takes the first resource of the id that the request names.
find_constraint(accepted, id, type, field, default) ==
    LET found == IF accepted = << >> THEN << >> ELSE first_named(accepted[1].resources, id)
    IN  IF found # << >> /\ found[1].type = type /\ found[1][field] # Absent
        THEN found[1][field] ELSE default

\* accepted: << >> or the accepted request that led to the new state.
merge_peer_resource(old, state, id, accepted) ==
    IF state = "AccessoryBorrowed"
    THEN [NewManager(state, "Anytime", "Anytime") EXCEPT !.unborrow_constraint =
            find_constraint(accepted, id, "Borrow", "unborrow_constraint",
                            IF old.state = "AccessoryBorrowed" THEN old.unborrow_constraint
                            ELSE "Anytime")]
    ELSE IF owner(state) = "Controller" THEN NewManager(state, "Anytime", "Anytime")
    ELSE LET kept == owner(old.state) = "Accessory"
         IN  NewManager(state,
               find_constraint(accepted, id, "Take", "take_constraint",
                               IF kept THEN old.take_constraint ELSE "Anytime"),
               find_constraint(accepted, id, "Take", "borrow_constraint",
                               IF kept THEN old.borrow_constraint ELSE "Anytime"))

merged(m, modes, accepted) ==
    LET state == feed(modes)
    IN  [screen |-> merge_peer_resource(m.modes.screen, state.screen, "screen", accepted),
         main_audio |->
             merge_peer_resource(m.modes.main_audio, state.main_audio, "main_audio", accepted),
         phone_call |-> modes.phone_call, speech |-> modes.speech,
         turn_by_turn |-> modes.turn_by_turn]

\* Mutant: the modes change unnoticed.
apply_peer_modes_Clean(m, modes, accepted) == [m EXCEPT !.modes = merged(m, modes, accepted)]

apply_peer_modes(m, modes, accepted) ==
    [m EXCEPT !.modes = merged(m, modes, accepted), !.dirty = TRUE]

\* Pop an accepted request, if there is one, and apply the modes.
apply_next(m, modes) ==
    IF m.accepted = << >> THEN apply_peer_modes(m, modes, << >>)
    ELSE apply_peer_modes([m EXCEPT !.accepted = Tail(@)], modes, <<Head(m.accepted)>>)

on_peer_modes_changed(m, modes) ==
    LET m1 == [m EXCEPT !.dirty = TRUE]
    IN  IF m.inflight # << >> THEN [m1 EXCEPT !.pending = Append(@, modes)]
        ELSE apply_next(m1, modes)

drain_pending_if_idle(m) ==
    IF m.inflight # << >> \/ m.pending = << >> THEN m
    ELSE LET drained[i \in 0..Len(m.pending)] ==
               IF i = 0 THEN [m EXCEPT !.pending = << >>]
               ELSE apply_next(drained[i - 1], m.pending[i])
         IN  drained[Len(m.pending)]

\* Mutant: what waited for a rejected request keeps waiting.
on_peer_change_modes_end_NoDrain(m, accepted) ==
    IF m.inflight = << >> THEN m
    ELSE IF accepted
    THEN drain_pending_if_idle([m EXCEPT !.inflight = Tail(@),
                                         !.accepted = Append(@, Head(m.inflight))])
    ELSE [m EXCEPT !.inflight = Tail(@)]

on_peer_change_modes_end(m, accepted) ==
    IF m.inflight = << >> THEN m
    ELSE drain_pending_if_idle(
           [m EXCEPT !.inflight = Tail(@),
                     !.accepted = IF accepted THEN Append(@, Head(m.inflight)) ELSE @])

reset_modes(m) ==
    [m EXCEPT !.modes = [screen |-> controller_owned,
                         main_audio |-> NewManager("AccessoryHas", "Anytime", "Anytime"),
                         phone_call |-> "None",
                         speech |-> IF @.speech.entity = "Controller" THEN NoSpeech ELSE @.speech,
                         turn_by_turn |-> "None"],
              !.dirty = TRUE]

\* Mutant: requests in flight survive the phone.
modes_on_peer_disconnect_KeepsInflight(m) ==
    reset_modes([m EXCEPT !.accepted = << >>, !.pending = << >>])

modes_on_peer_disconnect(m) ==
    reset_modes([m EXCEPT !.inflight = << >>, !.accepted = << >>, !.pending = << >>])

has_screen(m) == entity(m.modes.screen.state) = "Controller"

try_steal_screen(m, priority) ==
    LET r == take("screen", priority, "Anytime", "Anytime")
    IN  IF ~has_screen(m) /\ can_take(m.modes.screen, priority)
           /\ take_accepted(m.modes.screen, r, "Controller")
        THEN [m EXCEPT !.modes.screen = take_by(@, r, "Controller"), !.dirty = TRUE]
        ELSE m
-----------------------------------------------------------------------------
(* CarManager *)

\* The result of a finished proxy task.
take_completed(m) ==
    LET task == Head(m.proxies)
        m1 == [m EXCEPT !.proxies = Tail(@)]
    IN  IF task.cmd.ui \/ task.resp \in {"NoResponse", "Unreadable"} THEN m1
        ELSE on_peer_change_modes_end(m1, task.resp = "Accepted")

on_peer_disconnect(m) ==
    IF m.peer = NoConn THEN m
    ELSE modes_on_peer_disconnect(
           [m EXCEPT !.peer = NoConn, !.proxies = << >>,
                     !.error = @ \/ m.proxies # << >>])

dispatch_tx_op(m, op) ==
    CASE op.kind = "IphoneConnected" -> [m EXCEPT !.peer = op.conn, !.proxies = << >>]
      [] op.kind = "IphoneDisconnected" -> on_peer_disconnect(m)
      [] op.kind = "Modes" -> on_peer_modes_changed(m, serialize(op.modes))

on_car_command_connected(m, cmd) ==
    [m EXCEPT !.inflight = IF cmd.ui THEN @ ELSE Append(@, cmd.req),
              !.proxies = Append(@, [cmd |-> cmd, resp |-> "Waiting"])]

on_car_command_unconnected(m, cmd) ==
    IF cmd.ui THEN [try_steal_screen(m, "UserInitiated") EXCEPT !.dirty = TRUE]
    ELSE [m EXCEPT !.dirty = TRUE, !.modes = process_request(@, cmd.req)]

dispatch_car_command(m, cmd) ==
    LET m1 == [m EXCEPT !.commands = @ + 1]
    IN  IF m.peer # NoConn THEN on_car_command_connected(m1, cmd)
        ELSE on_car_command_unconnected(m1, cmd)

flush_dirty(m) ==
    IF m.dirty THEN [m EXCEPT !.dirty = FALSE, !.tx = Append(@, Exch("Modes", m))] ELSE m

flush_screen(m) ==
    IF m.setup # "None" \/ has_screen(m) = m.has_car_peer THEN m
    ELSE IF has_screen(m)
    THEN [m EXCEPT !.setup = "Pending", !.tx = @ \o <<Exch("Modes", m), Exch("Setup", m)>>]
    ELSE [m EXCEPT !.has_car_peer = FALSE,
                   !.tx = @ \o <<Exch("Teardown", m), Exch("Modes", m)>>]

\* Mutant: the screen first, the modes after it.
flush_modes_ScreenFirst(m) == flush_dirty(flush_screen(m))

flush_modes(m) == flush_screen(flush_dirty(m))

steal_initial_screen(m) ==
    IF m.peer # NoConn \/ m.steal_attempted THEN m
    ELSE try_steal_screen([m EXCEPT !.steal_attempted = TRUE], "NiceToHave")

record(m) ==
    IF m.had_record THEN m
    ELSE [m EXCEPT !.had_record = TRUE, !.tx = Append(@, Exch("Record", m))]

\* Mutant: the SETUP stays pending.
take_screen_KeepsSetup(m) ==
    IF m.setup = "Ready" THEN [m EXCEPT !.has_car_peer = TRUE] ELSE m

take_screen(m) ==
    IF m.setup = "Ready" THEN [m EXCEPT !.setup = "None", !.has_car_peer = TRUE] ELSE m

\* What reconcile() does before it looks at the channels, at whichever of an op and
\* a car command the sleep before it found (`<< >>` for none), and with the screen.
reconcile_tasks(m, completed) ==
    LET m1 == take_screen(record(m)) IN IF completed THEN take_completed(m1) ELSE m1

reconcile_channels(m, op, cmd) ==
    LET m1 == IF op = << >> THEN m ELSE dispatch_tx_op(m, op[1])
    IN  IF cmd = << >> THEN m1 ELSE dispatch_car_command(m1, cmd[1])

Reconcile(completed, takes_op, cmd) ==
    /\ ~mgr.exited /\ ~mgr.error
    /\ completed => mgr.proxies # << >> /\ Head(mgr.proxies).resp # "Waiting"
    /\ takes_op => ops # << >>
    /\ cmd # << >> => mgr.commands < MaxCommands
    /\ \E m1 \in {reconcile_tasks(mgr, completed)} :
       \E m2 \in {reconcile_channels(m1, IF takes_op THEN <<Head(ops)>> ELSE << >>, cmd)} :
       \E m3 \in {flush_modes(m2)} :
         mgr' = flush_modes(steal_initial_screen(m3))
    /\ ops' = IF takes_op THEN Tail(ops) ELSE ops
    /\ UNCHANGED <<conn, lock, closing, car, sent, repeated>>

\* An error ends worker(); dropping the manager closes the phone and the channel.
Exit ==
    /\ mgr.error /\ ~mgr.exited
    /\ mgr' = [mgr EXCEPT !.exited = TRUE, !.tx = << >>]
    /\ ops' = << >>
    /\ closing' = closing \cup ({mgr.peer} \ {NoConn})
    /\ UNCHANGED <<conn, lock, car, sent, repeated>>
-----------------------------------------------------------------------------
(* The car. *)

CarAnswers ==
    /\ ~mgr.exited /\ mgr.tx # << >>
    /\ LET exch == Head(mgr.tx)
       IN  /\ mgr' = [mgr EXCEPT !.tx = Tail(@),
                                 !.setup = IF exch.kind = "Setup" THEN "Ready" ELSE @]
           /\ car' = [modes |-> IF exch.kind = "Modes" THEN exch.modes ELSE car.modes,
                      screen |-> CASE exch.kind = "Setup" -> TRUE
                                   [] exch.kind = "Teardown" -> FALSE
                                   [] OTHER -> car.screen]
    /\ UNCHANGED <<ops, conn, lock, closing, sent, repeated>>

\* A failed exchange, or the connection to the car is lost (tx_closed).
CarFails ==
    /\ CarMayFail /\ ~mgr.exited /\ ~mgr.error
    /\ mgr' = [mgr EXCEPT !.error = TRUE, !.tx = << >>]
    /\ UNCHANGED <<ops, conn, lock, closing, car, sent, repeated>>
-----------------------------------------------------------------------------
(* The phone. *)

\* unbounded_send() to the manager; without one the op is lost.
SendOp(kind, c, modes) ==
    ops' = IF mgr.exited THEN ops ELSE Append(ops, [kind |-> kind, conn |-> c, modes |-> modes])

\* A connection is accepted and gets a CarPlayRxSession.
Accept(c) ==
    /\ conn[c] = "Closed"
    /\ Overlapping \/ \A d \in Conn : conn[d] \in {"Closed", "Dropped"}
    /\ conn' = [conn EXCEPT ![c] = "Open"]
    /\ UNCHANGED <<mgr, ops, lock, closing, car, sent, repeated>>

\* on_modes() answers when the manager has taken the op; the next request waits.
Answering(c) == \E i \in DOMAIN ops : ops[i].kind = "Modes" /\ ops[i].conn = c

\* SETUP: sink.init() tells the manager, then the session lock is tried.  With the
\* lock a later step may still fail; the phone may then try again, to be refused by
\* the lock of its own first attempt.
Setup(c) ==
    /\ conn[c] = "Open" \/ (Repeating /\ conn[c] = "Rejected" /\ c \notin repeated)
    /\ ~Answering(c)
    /\ SendOp("IphoneConnected", c, car.modes)
    /\ \E result \in {"Active", "Rejected"} :
         /\ lock # NoConn => result = "Rejected"
         /\ conn' = [conn EXCEPT ![c] = result]
    /\ lock' = IF lock = NoConn THEN c ELSE lock
    /\ repeated' = IF conn[c] = "Rejected" THEN repeated \cup {c} ELSE repeated
    /\ UNCHANGED <<mgr, closing, car, sent>>

\* The session is dropped: its sink (on_drop) before its lock.
Drop(c) ==
    /\ conn[c] \in {"Open", "Active", "Rejected"}
    /\ SendOp("IphoneDisconnected", c, car.modes)
    /\ conn' = [conn EXCEPT ![c] = "Dropped"]
    /\ lock' = IF lock = c THEN NoConn ELSE lock
    /\ UNCHANGED <<mgr, closing, car, sent, repeated>>

\* ModesChanged, before or after the SETUP and whatever became of it.
PhoneModes(c, state) ==
    /\ conn[c] \in {"Open", "Active", "Rejected"} /\ sent[c] < MaxPhoneModes
    /\ ~Answering(c)
    /\ SendOp("Modes", c, state)
    /\ sent' = [sent EXCEPT ![c] = @ + 1]
    /\ UNCHANGED <<mgr, conn, lock, closing, car, repeated>>

\* Over the event socket, which a SETUP opens first and a repeated one replaces.
PhoneAnswers(i, resp) ==
    /\ ~mgr.exited /\ mgr.proxies[i].resp = "Waiting"
    /\ conn[mgr.peer] \in {"Active", "Rejected"}
    /\ \A n \in DOMAIN ops : ~(ops[n].kind = "IphoneConnected" /\ ops[n].conn = mgr.peer)
    /\ mgr' = [mgr EXCEPT !.proxies[i].resp = resp]
    /\ UNCHANGED <<ops, conn, lock, closing, car, sent, repeated>>

\* The command times out or its connection is gone: the task closes the phone.
PhoneSilent(i) ==
    /\ ~mgr.exited /\ mgr.proxies[i].resp = "Waiting"
    /\ mgr' = [mgr EXCEPT !.proxies[i].resp = "NoResponse"]
    /\ closing' = closing \cup {mgr.peer}
    /\ UNCHANGED <<ops, conn, lock, car, sent, repeated>>
-----------------------------------------------------------------------------
Init ==
    LET modes == from_change_modes(Info)
    IN  /\ mgr = [peer |-> NoConn, proxies |-> << >>, modes |-> modes, dirty |-> TRUE,
                  inflight |-> << >>, accepted |-> << >>, pending |-> << >>, tx |-> << >>,
                  has_car_peer |-> FALSE, setup |-> "None", had_record |-> FALSE,
                  steal_attempted |-> FALSE, error |-> FALSE, exited |-> FALSE, commands |-> 0]
        /\ ops = << >>
        /\ conn = [c \in Conn |-> "Closed"]
        /\ lock = NoConn
        /\ closing = {}
        /\ car = [modes |-> serialize_to_state(modes), screen |-> FALSE]
        /\ sent = [c \in Conn |-> 0]
        /\ repeated = {}

NoCommand == << >>
CarCommands == {<<RequestUI>>} \cup {<<CommandOf(req)>> : req \in CarRequests}

ReconcileOp(cmd) == \E completed \in BOOLEAN : Reconcile(completed, TRUE, cmd)
ReconcileCompleted(cmd) == \E takes_op \in BOOLEAN : Reconcile(TRUE, takes_op, cmd)

PhoneResolves == \E i \in DOMAIN mgr.proxies :
                    \/ \E resp \in PhoneResponses : PhoneAnswers(i, resp)
                    \/ PhoneSilent(i)

Next ==
    \/ \E completed, takes_op \in BOOLEAN, cmd \in CarCommands \cup {NoCommand} :
         Reconcile(completed, takes_op, cmd)
    \/ Exit
    \/ CarAnswers
    \/ CarFails
    \/ PhoneResolves
    \/ \E c \in Conn : \/ Accept(c)
                       \/ Setup(c)
                       \/ Drop(c)
                       \/ \E state \in PhoneStates : PhoneModes(c, state)

Spec == Init /\ [][Next]_vars

\* worker() reconciles after every event; the car and the phone answer or their
\* timeouts (10 s) fire; a connection asked to close is dropped.
Fairness ==
    /\ WF_vars(ReconcileOp(NoCommand))
    /\ WF_vars(ReconcileCompleted(NoCommand))
    /\ WF_vars(Reconcile(FALSE, FALSE, NoCommand))
    /\ WF_vars(Exit)
    /\ WF_vars(CarAnswers)
    /\ WF_vars(PhoneResolves)
    /\ \A c \in Conn : WF_vars(c \in closing /\ Drop(c))

FairSpec == Spec /\ Fairness
-----------------------------------------------------------------------------
TypeOK ==
    /\ mgr \in Mgr
    /\ ops \in Seq(Op)
    /\ conn \in [Conn -> {"Closed", "Open", "Active", "Rejected", "Dropped"}]
    /\ lock \in Conn \cup {NoConn}
    /\ closing \subseteq Conn
    /\ car \in [modes : AirPlayModeState, screen : BOOLEAN]
    /\ sent \in [Conn -> Nat]
    /\ repeated \subseteq Conn

\* Nothing is left to be sent to the car.
Idle == /\ ~mgr.error /\ ~mgr.exited
        /\ mgr.had_record /\ mgr.tx = << >> /\ mgr.setup = "None"

\* Once every queued exchange is done the car has been told the current modes,
\* and a screen stream is set up exactly while the proxy has the screen
\* (flush_modes: the dirty flag, SETUP and TEARDOWN, and a SETUP that is still
\* pending when the screen is lost).
IdleCarInSync ==
    Idle => car = [modes |-> State(mgr), screen |-> has_screen(mgr)]

\* The car hears who has the screen before the stream comes or goes
\* ("This enforces very important ordering", flush_modes).
ScreenAfterModes ==
    [][/\ ~car.screen /\ car'.screen => entity(car.modes.screen) = "Controller"
       /\ car.screen /\ ~car'.screen => entity(car.modes.screen) # "Controller"]_vars

\* The arbiter's requests in flight are those of the proxy tasks, in their order,
\* so a response is paired with its own request, also after a reconnection
\* (on_peer_change_modes_start/end, on_peer_disconnect).  A repeated SETUP drops the
\* tasks and not the requests (on_peer_connected), so its phone is left out.
InflightMatchesProxies ==
    mgr.peer # NoConn /\ mgr.peer \notin closing \cup repeated =>
        \E f \in [DOMAIN mgr.inflight -> DOMAIN mgr.proxies] :
           /\ \A i, j \in DOMAIN f : i < j => f[i] < f[j]
           /\ \A i \in DOMAIN f : mgr.inflight[i] = mgr.proxies[f[i]].cmd.req
           /\ {f[i] : i \in DOMAIN f} = {n \in DOMAIN mgr.proxies : ~mgr.proxies[n].cmd.ui}

\* A ModesChanged held back by a request in flight is applied in the end, or
\* dropped with its phone (drain_pending_peer_modes_changed_if_idle); a phone that
\* repeats its SETUP may leave requests in flight and is left out.
PendingModesApplied ==
    mgr.pending # << >> ~> mgr.pending = << >> \/ mgr.exited \/ mgr.peer \in repeated

\* When the car's commands and the phone's modes stop, the car ends up with the
\* current modes and with the screen stream they call for, or the session has
\* failed (reconcile, flush_modes, worker).
CarConverges ==
    <>[](\/ mgr.error \/ mgr.exited
         \/ car = [modes |-> State(mgr), screen |-> has_screen(mgr)])

\* "Attempt to get a session lock, or None if session is locked by another
\* connection" (AirPlayServerShared::lock): the manager's phone is the one whose
\* connection holds the lock.
PeerHoldsLock ==
    ops = << >> /\ lock # NoConn /\ ~mgr.error /\ ~mgr.exited => mgr.peer = lock
=============================================================================
